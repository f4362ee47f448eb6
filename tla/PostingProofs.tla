---------------------------- MODULE PostingProofs ----------------------------
(***************************************************************************)
(* What the gate guarantees of a decision whatever the document, the chart *)
(* and the ledger it was given: who it is about, when it may be POSTED and *)
(* which accounts it names.  Last, the sums the rules are made of:         *)
(* SumAmounts is a recursive function, so what it returns is proved by     *)
(* induction from the existence of one.                                    *)
(***************************************************************************)
EXTENDS PostingValidator, RecursionTheorems, SequenceTheorems, TLAPS

(*********************** What a rule may answer ****************************)

\* A proposed entry is about the document of its context, in its client's books.
AboutContext(entry, ctx) ==
    /\ {"contributor", "source", "lines"} \subseteq DOMAIN entry
    /\ entry.contributor = ctx.contributor
    /\ entry.source = ctx.doc.uuid

ProposesAbout(answer, ctx) ==
    \/ answer.kind \in {"skip", "review", "raise"}
    \/ answer.kind = "propose" /\ AboutContext(answer.entry, ctx)

\* contract.review answers a review request, whatever it is asked to flag.
LEMMA ReviewAnswer ==
    ASSUME NEW ctx, NEW rule, NEW flags, NEW lines
    PROVE  Review(ctx, rule, flags, lines).kind = "review"
BY DEF Review, ReviewRequest

\* Rows 4.1 to 4.4 propose about their own document or ask for review.
LEMMA IncomeAnswer ==
    ASSUME NEW ctx, NEW row
    PROVE  ProposesAbout(IncomeRule(ctx, row), ctx)
<1>1. ASSUME NEW lines
      PROVE  ProposesAbout(IncomeEntry(ctx, row, lines), ctx)
  BY DEF IncomeEntry, Propose, ProposedJournalEntry, ProposesAbout, AboutContext
<1>2. ProposesAbout(IssuedIncome(ctx, row), ctx)
  <2>1. ProposesAbout(IssuedEntry(ctx, row), ctx)
    BY <1>1 DEF IssuedEntry
  <2>2. QED
    BY <2>1, ReviewAnswer DEF IssuedIncome, ProposesAbout
<1>3. ProposesAbout(ReceivedPurchase(ctx, row), ctx)
  <2>1. ProposesAbout(PurchaseEntry(ctx, row), ctx)
    BY <1>1 DEF PurchaseEntry
  <2>2. QED
    BY <2>1, ReviewAnswer DEF ReceivedPurchase, ProposesAbout
<1>4. QED
  BY <1>2, <1>3 DEF IncomeRule

\* Rows 4.5a and 4.5b propose about the REP itself, never about an original.
LEMMA RepAnswer ==
    ASSUME NEW ctx, NEW row
    PROVE  ProposesAbout(RepRule(ctx, row), ctx)
<1>1. ASSUME NEW lines
      PROVE  ProposesAbout(Propose(ProposedJournalEntry(row, ctx, ctx.doc.uuid, ctx.doc.hash,
                                                        ctx.doc.fecha, lines, {})), ctx)
  BY DEF Propose, ProposedJournalEntry, ProposesAbout, AboutContext
<1>2. ASSUME NEW flags, NEW lines
      PROVE  ProposesAbout(Review(ctx, row, flags, lines), ctx)
  BY ReviewAnswer DEF ProposesAbout
<1>3. QED
  BY <1>1, <1>2 DEF RepRule

\* A credit note and a cancellation are never proposed for posting.
LEMMA NeverProposed ==
    ASSUME NEW ctx
    PROVE  /\ \A row : CreditNote(ctx, row).kind = "review"
           /\ Cancellation(ctx).kind \in {"skip", "review", "raise"}
           /\ Unclaimed(ctx).kind = "review"
<1>1. \A row : CreditNote(ctx, row).kind = "review"
  BY ReviewAnswer DEF CreditNote
<1>2. Cancellation(ctx).kind \in {"skip", "review", "raise"}
  <2>1. CancellationSkip(ctx).kind \in {"skip", "review"}
    BY DEF CancellationSkip, ReviewRequest, Skip
  <2>2. \A record : Reversal(ctx, record).kind \in {"review", "raise"}
    BY DEF Reversal, ReviewRequest, Raise
  <2>3. Raise.kind = "raise"
    BY DEF Raise
  <2>4. QED
    BY <2>1, <2>2, <2>3 DEF Cancellation
<1>3. Unclaimed(ctx).kind = "review"
  BY DEF Unclaimed, CreditNoteReview, ReviewRequest
<1>4. QED
  BY <1>1, <1>2, <1>3

\* Whatever the engine proposes is about the document it was asked about.
THEOREM ProposalIdentity ==
    ASSUME NEW ctx
    PROVE  ProposesAbout(ProposeFor(ctx), ctx)
<1>1. ProposesAbout(RowAnswer(ctx), ctx)
  BY IncomeAnswer, RepAnswer, NeverProposed DEF RowAnswer, ProposesAbout
<1>2. OutOfScopeSkip(ctx).kind = "skip"
  BY DEF OutOfScopeSkip, Skip
<1>3. Draft(ctx).kind = "review"
  BY ReviewAnswer DEF Draft
<1>4. QED
  BY <1>1, <1>2, <1>3, NeverProposed DEF ProposeFor, ProposesAbout

(************************ What the gate guarantees *************************)

\* The conversion to pesos changes amounts, never whose entry it is.
LEMMA ValuationIdentity ==
    ASSUME NEW entry, NEW ctx, AboutContext(entry, ctx),
           ValueEntry(entry, ctx.doc).flags = {}
    PROVE  AboutContext(ValueEntry(entry, ctx.doc).entry, ctx)
<1>1. ASSUME NEW rate, Converted(entry, rate).flags = {}
      PROVE  AboutContext(Converted(entry, rate).entry, ctx)
  <2> DEFINE legs == [i \in DOMAIN entry.lines |->
                        [entry.lines[i] EXCEPT !.amount = InPesos(@, rate)]]
  <2>1. Converted(entry, rate).entry = [entry EXCEPT !.lines = legs]
    BY <1>1 DEF Converted, Refused, Valued
  <2>2. QED
    BY <2>1 DEF AboutContext
<1>2. CASE ctx.doc.tipo = "P" \/ ctx.doc.moneda = NATIONAL_CURRENCY
  BY <1>2 DEF ValueEntry, Valued
<1>3. CASE ~ (ctx.doc.tipo = "P" \/ ctx.doc.moneda = NATIONAL_CURRENCY)
  BY <1>1, <1>3 DEF ValueEntry, Refused
<1>4. QED
  BY <1>2, <1>3

\* The states a decision may have.
LEMMA DecisionState ==
    ASSUME NEW ctx, NEW proposal, NEW chart
    PROVE  /\ Decide(ctx, proposal, chart).state \in {"POSTED", "PROPOSED", "SKIPPED"}
           /\ Decide(ctx, proposal, chart).mapping = chart.version
BY DEF Decide, DecideSkip, DecideReview, DecidePost, Refuse, PostingDecision

\* Only a proposal is ever POSTED: not a skip, not a review request.
LEMMA PostedWasProposed ==
    ASSUME NEW ctx, NEW proposal, NEW chart,
           Decide(ctx, proposal, chart).state = "POSTED"
    PROVE  /\ proposal.kind \notin {"skip", "review"}
           /\ Decide(ctx, proposal, chart) = DecidePost(ctx, proposal.entry, chart)
BY DEF Decide, DecideSkip, DecideReview, Refuse, PostingDecision

\* A proposal with no refusal names a VIGENTE source and roles the chart maps.
LEMMA NoRefusal ==
    ASSUME NEW ctx, NEW entry, NEW chart, NEW valued,
           Refusals(ctx, entry, chart, valued) = {}
    PROVE  /\ ctx.doc.status = "VIGENTE"
           /\ RolesOf(entry.lines) \subseteq DOMAIN chart.accounts
           /\ IsBalanced(entry.lines)
           /\ ctx.doc.flags = {}
<1>1. ctx.doc.status = "VIGENTE"
  BY DEF Refusals
<1>2. RolesOf(entry.lines) \subseteq DOMAIN chart.accounts
  BY DEF Refusals, UnresolvedRoles
<1>3. IsBalanced(entry.lines)
  BY DEF Refusals
<1>4. ctx.doc.flags = {}
  BY DEF Refusals
<1>5. QED
  BY <1>1, <1>2, <1>3, <1>4

\* The legs of a posted decision are all resolved by the chart that versions it.
ResolvedBy(decision, chart) ==
    /\ decision.mapping = chart.version
    /\ \A role \in RolesOf(decision.entry.lines) :
          /\ role \in DOMAIN chart.accounts
          /\ role \in DOMAIN decision.accounts
          /\ decision.accounts[role] = chart.accounts[role]

\* A POSTED decision is about the context's own document, which the SAT says
\* is VIGENTE; it balances and every leg is on an account of the chart in hand.
THEOREM PostedIsSound ==
    ASSUME NEW ctx, NEW proposal, NEW chart,
           ProposesAbout(proposal, ctx),
           proposal.kind # "raise",
           Decide(ctx, proposal, chart).state = "POSTED"
    PROVE  LET decision == Decide(ctx, proposal, chart)
           IN  /\ ctx.doc.status = "VIGENTE"
               /\ decision.entry.contributor = ctx.contributor
               /\ decision.entry.source = ctx.doc.uuid
               /\ ResolvedBy(decision, chart)
               /\ IsBalanced(decision.entry.lines)
<1> DEFINE entry == proposal.entry
           valued == ValueEntry(entry, ctx.doc)
           posted == IF valued.flags # {} THEN entry ELSE valued.entry
           accounts == [role \in RolesOf(posted.lines) |-> chart.accounts[role]]
<1>1. AboutContext(entry, ctx)
  BY PostedWasProposed DEF ProposesAbout
<1>2. AboutContext(posted, ctx)
  BY <1>1, ValuationIdentity
<1>3. DecidePost(ctx, entry, chart).state = "POSTED"
  BY PostedWasProposed
<1>4. Refusals(ctx, posted, chart, valued) = {}
  BY <1>3 DEF DecidePost, Refuse, PostingDecision
<1>5. Decide(ctx, proposal, chart)
        = PostingDecision(posted, "POSTED", chart, {}, accounts, valued.rate)
  BY <1>4, PostedWasProposed DEF DecidePost
<1>6. /\ Decide(ctx, proposal, chart).entry = posted
      /\ Decide(ctx, proposal, chart).mapping = chart.version
      /\ Decide(ctx, proposal, chart).accounts = accounts
  BY <1>5 DEF PostingDecision
<1>7. /\ ctx.doc.status = "VIGENTE"
      /\ RolesOf(posted.lines) \subseteq DOMAIN chart.accounts
      /\ IsBalanced(posted.lines)
  BY <1>4, NoRefusal
<1>8. ResolvedBy(Decide(ctx, proposal, chart), chart)
  BY <1>6, <1>7 DEF ResolvedBy
<1>9. QED
  BY <1>2, <1>6, <1>7, <1>8 DEF AboutContext

\* The record keeps the identity of its decision, is keyed by it, and puts
\* every leg on the account the decision resolved.
LEMMA RecordOf ==
    ASSUME NEW decision, NEW t
    PROVE  LET record == ToRecord(decision, t)
               lines == decision.entry.lines
           IN  /\ record.key = <<record.contributor, record.source, record.rule,
                                 record.version, record.mapping>>
               /\ record.contributor = decision.entry.contributor
               /\ record.source = decision.entry.source
               /\ record.rule = decision.entry.rule
               /\ record.mapping = decision.mapping
               /\ record.state = decision.state
               /\ record.recordedAt = t
               /\ DOMAIN record.lines = DOMAIN lines
               /\ \A i \in DOMAIN lines :
                     /\ record.lines[i].role = lines[i].role
                     /\ lines[i].role \in DOMAIN decision.accounts =>
                           record.lines[i].account = decision.accounts[lines[i].role]
BY DEF ToRecord, Fingerprint

(************************** Whose rule answers *****************************)

\* An answer that names an entry, as a proposal does, names it under one of
\* these rules.
UnderRules(answer, ids) ==
    answer.kind = "propose" \/ answer.entry # None =>
        "rule" \in DOMAIN answer.entry /\ answer.entry.rule \in ids

\* A proposed entry carries the id of its rule, and so does a review's.
LEMMA ProposeRule ==
    ASSUME NEW rule, NEW ctx, NEW source, NEW hash, NEW date, NEW lines, NEW assumptions
    PROVE  LET entry == ProposedJournalEntry(rule, ctx, source, hash, date, lines, assumptions)
           IN  UnderRules(Propose(entry), {rule.id}) /\ UnderRules(Skip(entry), {rule.id})
BY DEF ProposedJournalEntry, Propose, Skip, UnderRules

LEMMA ReviewRule ==
    ASSUME NEW rule, NEW ctx, NEW flags, NEW lines
    PROVE  UnderRules(Review(ctx, rule, flags, lines), {rule.id})
BY DEF ProposedJournalEntry, Review, ReviewRequest, UnderRules

\* Every row answers under its own id.
LEMMA RowsAnswerAsThemselves ==
    ASSUME NEW ctx, NEW row
    PROVE  /\ UnderRules(IncomeRule(ctx, row), {row.id})
           /\ UnderRules(RepRule(ctx, row), {row.id})
           /\ UnderRules(CreditNote(ctx, row), {row.id})
<1>2. UnderRules(IncomeRule(ctx, row), {row.id})
  <2>1. UnderRules(IssuedEntry(ctx, row), {row.id}) /\ UnderRules(PurchaseEntry(ctx, row), {row.id})
    BY ProposeRule DEF IssuedEntry, PurchaseEntry, IncomeEntry
  <2>2. QED
    BY <2>1, ReviewRule DEF IncomeRule, IssuedIncome, ReceivedPurchase
<1>3. UnderRules(RepRule(ctx, row), {row.id})
  <2>1. UnderRules(Propose(ProposedJournalEntry(row, ctx, ctx.doc.uuid, ctx.doc.hash, ctx.doc.fecha,
                             RepLegs(row, Doctos(ctx.doc.pagos), ctx.posted), {})), {row.id})
    BY ProposeRule
  <2>2. QED
    BY <2>1, ReviewRule, Zenon DEF RepRule
<1>4. UnderRules(CreditNote(ctx, row), {row.id})
  BY ReviewRule, Zenon DEF CreditNote
<1>5. QED
  BY <1>2, <1>3, <1>4

\* The ids of the rules that answer for a source that is not cancelled, but the
\* rows of credit notes and payments.
OTHER_RULE_IDS == {"4.1", "4.2", "4.3", "4.4", "4.10", "4.11", "4.12", "4.13", "4.14"}

\* The ids of the rules do not meet.
LEMMA RuleIds ==
    /\ \A row \in REP_ROWS : row.id \in {"4.5a", "4.5b"}
    /\ \A row \in CREDIT_NOTE_ROWS : row.id \in {"4.6", "4.7", "4.8", "4.9"}
    /\ RULE_4_15A.id = "4.15a" /\ RULE_4_15B.id = "4.15b"
<1>1. \A row \in REP_ROWS : row.id \in {"4.5a", "4.5b"}
  BY DEF REP_ROWS, RepRow
<1>2. \A row \in CREDIT_NOTE_ROWS : row.id \in {"4.6", "4.7", "4.8", "4.9"}
  BY DEF CREDIT_NOTE_ROWS, CreditNoteRow
<1>3. QED
  BY <1>1, <1>2 DEF RULE_4_15A, RULE_4_15B

\* A cancelled source is answered by the cancellation alone, a payment and a
\* credit note by a row that claims them.
LEMMA WhoAnswers ==
    ASSUME NEW ctx
    PROVE  LET answer == ProposeFor(ctx)
           IN  \/ ctx.doc.status = "CANCELLED" /\ answer = Cancellation(ctx)
               \/ ctx.doc.status # "CANCELLED" /\ UnderRules(answer, OTHER_RULE_IDS)
               \/ ctx.doc.status # "CANCELLED" /\ \E row \in REP_ROWS : answer = RepRule(ctx, row)
               \/ /\ ctx.doc.status # "CANCELLED"
                  /\ \E row \in CREDIT_NOTE_ROWS :
                        CreditNoteClaims(ctx, row) /\ answer = CreditNote(ctx, row)
<1>1. CASE ctx.doc.status = "CANCELLED"
  BY <1>1 DEF ProposeFor
<1>2. CASE ctx.doc.status # "CANCELLED" /\ OutOfScope(ctx)
  <2>1. UnderRules(OutOfScopeSkip(ctx), OTHER_RULE_IDS)
    <3>1. PICK case \in OUT_OF_SCOPE_RULES :
            OutOfScopeSkip(ctx) = Skip(ProposedJournalEntry(case, ctx, ctx.doc.uuid, ctx.doc.hash,
                                                            ctx.doc.fecha, <<>>, {}))
      BY <1>2 DEF OutOfScope, OutOfScopeSkip
    <3>2. case.id \in OTHER_RULE_IDS
      BY DEF OUT_OF_SCOPE_RULES, Case, OTHER_RULE_IDS
    <3>3. UnderRules(OutOfScopeSkip(ctx), {case.id})
      BY <3>1, ProposeRule, Zenon
    <3>4. QED
      BY <3>2, <3>3 DEF UnderRules
  <2>2. QED
    BY <1>2, <2>1 DEF ProposeFor
<1>3. CASE ctx.doc.status # "CANCELLED" /\ ~ OutOfScope(ctx) /\ Drafted(ctx)
  <2>1. UnderRules(Draft(ctx), OTHER_RULE_IDS)
    <3>1. PICK case \in DRAFT_RULES : Draft(ctx) = Review(ctx, case, {case.flag}, <<>>)
      BY <1>3 DEF Drafted, Draft
    <3>2. case.id \in OTHER_RULE_IDS
      BY DEF DRAFT_RULES, Case, OTHER_RULE_IDS
    <3>3. UnderRules(Draft(ctx), {case.id})
      BY <3>1, ReviewRule, Zenon
    <3>4. QED
      BY <3>2, <3>3 DEF UnderRules
  <2>2. QED
    BY <1>3, <2>1 DEF ProposeFor
<1>4. CASE ctx.doc.status # "CANCELLED" /\ ~ OutOfScope(ctx) /\ ~ Drafted(ctx)
  <2>1. ProposeFor(ctx) = RowAnswer(ctx)
    BY <1>4 DEF ProposeFor
  <2>2. CASE \E r \in INCOME_ROWS : IncomeClaims(ctx, r)
    <3>1. PICK row \in INCOME_ROWS : RowAnswer(ctx) = IncomeRule(ctx, row)
      BY <2>2 DEF RowAnswer
    <3>2. row.id \in OTHER_RULE_IDS
      BY DEF INCOME_ROWS, IncomeRow, OTHER_RULE_IDS
    <3>3. UnderRules(RowAnswer(ctx), OTHER_RULE_IDS)
      BY <3>1, <3>2, RowsAnswerAsThemselves DEF UnderRules
    <3>4. QED
      BY <1>4, <2>1, <3>3
  <2>3. CASE ~ (\E r \in INCOME_ROWS : IncomeClaims(ctx, r)) /\ \E r \in REP_ROWS : RepClaims(ctx, r)
    <3>1. \E row \in REP_ROWS : RowAnswer(ctx) = RepRule(ctx, row)
      BY <2>3 DEF RowAnswer
    <3>2. QED
      BY <1>4, <2>1, <3>1
  <2>4. CASE /\ ~ (\E r \in INCOME_ROWS : IncomeClaims(ctx, r))
             /\ ~ (\E r \in REP_ROWS : RepClaims(ctx, r))
             /\ \E r \in CREDIT_NOTE_ROWS : CreditNoteClaims(ctx, r)
    <3>1. \E row \in CREDIT_NOTE_ROWS :
             CreditNoteClaims(ctx, row) /\ RowAnswer(ctx) = CreditNote(ctx, row)
      BY <2>4 DEF RowAnswer
    <3>2. QED
      BY <1>4, <2>1, <3>1
  <2>5. CASE /\ ~ (\E r \in INCOME_ROWS : IncomeClaims(ctx, r))
             /\ ~ (\E r \in REP_ROWS : RepClaims(ctx, r))
             /\ ~ (\E r \in CREDIT_NOTE_ROWS : CreditNoteClaims(ctx, r))
    <3>1. RowAnswer(ctx) = Unclaimed(ctx)
      BY <2>5 DEF RowAnswer
    <3>2. Unclaimed(ctx).entry = None /\ Unclaimed(ctx).kind = "review"
      BY DEF Unclaimed, CreditNoteReview, ReviewRequest
    <3>3. QED
      BY <1>4, <2>1, <3>1, <3>2 DEF UnderRules
  <2>6. QED
    BY <2>2, <2>3, <2>4, <2>5
<1>5. QED
  BY <1>1, <1>2, <1>3, <1>4

\* The gate never files an answer under another rule, and never changes the
\* legs of one it does not post.
LEMMA DecisionKeepsTheRule ==
    ASSUME NEW ctx, NEW answer, NEW chart, NEW ids, UnderRules(answer, ids),
           answer.kind \in {"skip", "review", "propose"},
           Decide(ctx, answer, chart).entry # None
    PROVE  /\ Decide(ctx, answer, chart).entry.rule \in ids
           /\ Decide(ctx, answer, chart).state # "POSTED" =>
                 Decide(ctx, answer, chart).entry = answer.entry
<1> DEFINE decision == Decide(ctx, answer, chart)
           entry == answer.entry
<1>1. CASE answer.kind = "skip"
  BY <1>1 DEF Decide, DecideSkip, Refuse, PostingDecision, UnderRules
<1>2. CASE answer.kind = "review"
  BY <1>2 DEF Decide, DecideReview, PostingDecision, UnderRules
<1>3. CASE answer.kind = "propose"
  <2> DEFINE valued == ValueEntry(entry, ctx.doc)
             posted == IF valued.flags # {} THEN entry ELSE valued.entry
  <2>1. "rule" \in DOMAIN entry /\ entry.rule \in ids
    BY <1>3 DEF UnderRules
  <2>2. posted.rule = entry.rule
    <3>1. \A rate : Converted(entry, rate).flags = {} =>
                        Converted(entry, rate).entry.rule = entry.rule
      BY <2>1 DEF Converted, Refused, Valued
    <3>2. valued.flags = {} => valued.entry.rule = entry.rule
      BY <3>1 DEF ValueEntry, Refused, Valued
    <3>3. QED
      BY <3>2
  <2>3. decision = DecidePost(ctx, entry, chart)
    BY <1>3 DEF Decide
  <2> HIDE DEF valued
  <2>4. \/ decision.entry = entry
        \/ decision.entry = posted /\ decision.state = "POSTED"
    BY <2>3 DEF DecidePost, Refuse, PostingDecision, valued
  <2>5. QED
    BY <2>1, <2>2, <2>4
<1>4. QED
  BY <1>1, <1>2, <1>3

(****************************** The record *********************************)

\* A leg is recorded as it was decided, with the account its role was given.
LEMMA RecordedLeg ==
    ASSUME NEW decision, NEW t, NEW i \in DOMAIN decision.entry.lines
    PROVE  LET leg == decision.entry.lines[i]
               recorded == ToRecord(decision, t).lines[i]
           IN  /\ recorded.role = leg.role /\ recorded.key = leg.key
               /\ recorded.side = leg.side /\ recorded.amount = leg.amount
               /\ leg.role \in DOMAIN decision.accounts =>
                      recorded.account = decision.accounts[leg.role]
BY DEF ToRecord

\* A reversal's leg is the posted one on the other side.
LEMMA ReversedLeg ==
    ASSUME NEW lines, NEW i \in DOMAIN lines
    PROVE  LET leg == ReversedLegs(lines)[i]
           IN  /\ leg.role = lines[i].role /\ leg.key = <<"reversal">> \o lines[i].key
               /\ leg.side = Opposite(lines[i].side) /\ leg.amount = lines[i].amount
BY DEF ReversedLegs, JournalLine

(*************************** Short sequences *******************************)

\* An entry is two or three legs, put together from pieces.
LEMMA Appended ==
    ASSUME NEW x, NEW y, NEW z
    PROVE  <<x, y>> \o <<z>> = <<x, y, z>>
<1> DEFINE s == <<x, y>> \o <<z>>
           t == <<x, y, z>>
<1>1. /\ s \in Seq({x, y, z}) /\ Len(s) = 3 /\ s[1] = x /\ s[2] = y /\ s[3] = z
  OBVIOUS
<1>2. /\ t \in Seq({x, y, z}) /\ Len(t) = 3 /\ t[1] = x /\ t[2] = y /\ t[3] = z
  OBVIOUS
<1> HIDE DEF s, t
<1>3. \A i \in 1..3 : s[i] = t[i]
  BY <1>1, <1>2
<1>4. s = t
  BY <1>1, <1>2, <1>3, SeqEqual
<1>5. QED
  BY <1>4 DEF s, t

LEMMA Joined ==
    ASSUME NEW x, NEW y
    PROVE  <<x>> \o <<y>> = <<x, y>>
<1> DEFINE s == <<x>> \o <<y>>
           t == <<x, y>>
<1>1. s \in Seq({x, y}) /\ Len(s) = 2 /\ s[1] = x /\ s[2] = y
  OBVIOUS
<1>2. t \in Seq({x, y}) /\ Len(t) = 2 /\ t[1] = x /\ t[2] = y
  OBVIOUS
<1> HIDE DEF s, t
<1>3. \A i \in 1..2 : s[i] = t[i]
  BY <1>1, <1>2
<1>4. s = t
  BY <1>1, <1>2, <1>3, SeqEqual
<1>5. QED
  BY <1>4 DEF s, t

LEMMA NothingAfterOne ==
    ASSUME NEW x
    PROVE  <<x>> \o <<>> = <<x>>
OBVIOUS

LEMMA NothingAfterTwo ==
    ASSUME NEW x, NEW y
    PROVE  <<x, y>> \o <<>> = <<x, y>>
OBVIOUS

(******************************** Sums *************************************)

\* The running totals of a sum, from none of the amounts to all of them.
RunningTotals(amounts, g) ==
    /\ amounts \in Seq(Amount)
    /\ g \in [0..Len(amounts) -> Amount]
    /\ g[0] = 0
    /\ \A n \in 1..Len(amounts) : g[n] = Plus(g[n - 1], amounts[n])

SameUpTo(a, b, n) ==
    n <= Len(a) /\ n <= Len(b) /\ \A i \in 1..n : a[i] = b[i]

\* Two functions that run over the same first amounts agree on their totals.
LEMMA RunningAgrees ==
    ASSUME NEW a, NEW b, NEW g, NEW h, NEW n \in Nat,
           RunningTotals(a, g), RunningTotals(b, h), SameUpTo(a, b, n)
    PROVE  g[n] = h[n]
<1> DEFINE S == {k \in Nat : k <= n => g[k] = h[k]}
<1>1. 0 \in S
  BY DEF RunningTotals
<1>2. ASSUME NEW k \in S
      PROVE  k + 1 \in S
  <2>1. SUFFICES ASSUME k + 1 <= n PROVE g[k + 1] = h[k + 1]
    OBVIOUS
  <2>2. /\ k + 1 \in 1..n /\ k + 1 \in 1..Len(a) /\ k + 1 \in 1..Len(b)
        /\ (k + 1) - 1 = k /\ g[k] = h[k] /\ a[k + 1] = b[k + 1]
    <3>1. Len(a) \in Nat /\ Len(b) \in Nat
      BY DEF RunningTotals
    <3>2. QED
      BY <2>1, <3>1 DEF SameUpTo
  <2>3. g[k + 1] = Plus(g[k], a[k + 1]) /\ h[k + 1] = Plus(h[k], b[k + 1])
    BY <2>2 DEF RunningTotals
  <2>4. QED
    BY <2>2, <2>3
<1> HIDE DEF S
<1>3. S = Nat
  <2>1. S \subseteq Nat
    BY DEF S
  <2>2. QED
    BY <1>1, <1>2, <2>1, Inductive
<1>4. QED
  BY <1>3 DEF S

LEMMA PlusIsAmount ==
    ASSUME NEW a \in Amount, NEW b \in Amount
    PROVE  Plus(a, b) \in Amount
BY DEF Amount, Plus, IsFinite

\* The recursive definition of a sum has one solution, its running totals.
LEMMA SumRuns ==
    ASSUME NEW amounts \in Seq(Amount)
    PROVE  \E g : RunningTotals(amounts, g) /\ SumAmounts(amounts) = g[Len(amounts)]
<1> DEFINE Equation(f) ==
        f = [n \in 0..Len(amounts) |-> IF n = 0 THEN 0 ELSE Plus(f[n - 1], amounts[n])]
           step == [x \in Nat \X Amount |->
                      IF x[1] + 1 <= Len(amounts) THEN Plus(x[2], amounts[x[1] + 1]) ELSE x[2]]
<1>1. Len(amounts) \in Nat /\ \A n \in 1..Len(amounts) : amounts[n] \in Amount
  OBVIOUS
<1>2. step \in [Nat \X Amount -> Amount] /\ 0 \in Amount
  <2>1. ASSUME NEW x \in Nat \X Amount
        PROVE  (IF x[1] + 1 <= Len(amounts) THEN Plus(x[2], amounts[x[1] + 1]) ELSE x[2]) \in Amount
    <3>1. x[1] \in Nat /\ x[2] \in Amount
      OBVIOUS
    <3>2. x[1] + 1 <= Len(amounts) => x[1] + 1 \in 1..Len(amounts)
      BY <1>1, <3>1
    <3>3. QED
      BY <1>1, <3>1, <3>2, PlusIsAmount
  <2>2. 0 \in Amount
    BY DEF Amount
  <2>3. QED
    BY <2>1, <2>2
<1>3. PICK f : /\ f \in [Nat -> Amount]
               /\ Unfolds(f, 0, step)
  <2> HIDE DEF step
  <2>1. QED
    BY <1>2, Recursion, Zenon
<1> DEFINE g == [n \in 0..Len(amounts) |-> f[n]]
<1>4. ASSUME NEW n \in 0..Len(amounts)
      PROVE  g[n] = IF n = 0 THEN 0 ELSE Plus(g[n - 1], amounts[n])
  <2>1. CASE n = 0
    BY <1>3, <2>1 DEF Unfolds
  <2>2. CASE n # 0
    <3>1. n - 1 \in Nat /\ n - 1 \in 0..Len(amounts) /\ (n - 1) + 1 = n /\ n \in Nat /\ n <= Len(amounts)
      BY <1>1, <2>2
    <3>2. g[n] = step[<<n - 1, f[n - 1]>>]
      BY <1>3, <2>2, <3>1 DEF Unfolds
    <3>3. <<n - 1, f[n - 1]>> \in Nat \X Amount
      BY <1>3, <3>1
    <3>4. step[<<n - 1, f[n - 1]>>] = Plus(f[n - 1], amounts[n])
      BY <3>1, <3>3
    <3>5. g[n - 1] = f[n - 1]
      BY <3>1
    <3>6. QED
      BY <2>2, <3>2, <3>4, <3>5
  <2>3. QED
    BY <2>1, <2>2
<1>5. Equation(g)
  <2>1. g = [n \in 0..Len(amounts) |-> g[n]]
    OBVIOUS
  <2> HIDE DEF g
  <2>2. QED
    BY <1>4, <2>1
<1>6. SumAmounts(amounts) = (CHOOSE h : Equation(h))[Len(amounts)]
  BY DEF SumAmounts
<1> DEFINE total == CHOOSE h : Equation(h)
<1> HIDE DEF Equation
<1>7. Equation(total)
  BY <1>5
<1> HIDE DEF total, g
<1>8. \A n \in 0..Len(amounts) : total[n] = IF n = 0 THEN 0 ELSE Plus(total[n - 1], amounts[n])
  BY <1>7 DEF Equation
<1>9. \A n \in 0..Len(amounts) : total[n] \in Amount
  <2> DEFINE S == {n \in Nat : n <= Len(amounts) => total[n] \in Amount}
  <2>1. 0 \in S
    BY <1>1, <1>2, <1>8
  <2>2. ASSUME NEW n \in S
        PROVE  n + 1 \in S
    <3>1. SUFFICES ASSUME n + 1 <= Len(amounts) PROVE total[n + 1] \in Amount
      OBVIOUS
    <3>2. /\ n + 1 \in 0..Len(amounts) /\ n + 1 \in 1..Len(amounts) /\ n + 1 # 0 /\ (n + 1) - 1 = n
          /\ total[n] \in Amount
      BY <1>1, <3>1
    <3>3. total[n + 1] = Plus(total[n], amounts[n + 1])
      BY <1>8, <3>2
    <3>4. QED
      BY <1>1, <3>2, <3>3, PlusIsAmount
  <2> HIDE DEF S
  <2>3. S = Nat
    <3>1. S \subseteq Nat
      BY DEF S
    <3>2. QED
      BY <2>1, <2>2, <3>1, Inductive
  <2>4. QED
    BY <1>1, <2>3 DEF S
<1>10. total = [n \in 0..Len(amounts) |-> total[n]]
  BY <1>7 DEF Equation
<1>11. RunningTotals(amounts, total)
  <2>1. total \in [0..Len(amounts) -> Amount]
    BY <1>9, <1>10
  <2>2. total[0] = 0 /\ \A n \in 1..Len(amounts) : total[n] = Plus(total[n - 1], amounts[n])
    BY <1>1, <1>8
  <2>3. QED
    BY <2>1, <2>2 DEF RunningTotals
<1>12. QED
  BY <1>6, <1>11 DEF total

\* What runs over the amounts ends at their sum.
LEMMA SumOfRun ==
    ASSUME NEW amounts \in Seq(Amount), NEW g, RunningTotals(amounts, g)
    PROVE  SumAmounts(amounts) = g[Len(amounts)] /\ SumAmounts(amounts) \in Amount
<1>1. PICK h : RunningTotals(amounts, h) /\ SumAmounts(amounts) = h[Len(amounts)]
  BY SumRuns
<1>2. Len(amounts) \in Nat /\ Len(amounts) <= Len(amounts) /\ Len(amounts) \in 0..Len(amounts)
  OBVIOUS
<1>3. h[Len(amounts)] = g[Len(amounts)]
  <2>1. SameUpTo(amounts, amounts, Len(amounts))
    BY <1>2 DEF SameUpTo
  <2> DEFINE n == Len(amounts)
  <2>2. n \in Nat /\ SameUpTo(amounts, amounts, n)
    BY <1>2, <2>1
  <2> HIDE DEF n
  <2>3. h[n] = g[n]
    BY <1>1, <2>2, RunningAgrees
  <2>4. QED
    BY <2>3 DEF n
<1>4. g[Len(amounts)] \in Amount
  BY <1>2 DEF RunningTotals
<1>5. QED
  BY <1>1, <1>3, <1>4

LEMMA SumIsAmount ==
    ASSUME NEW amounts \in Seq(Amount)
    PROVE  SumAmounts(amounts) \in Amount
BY SumRuns, SumOfRun

\* The sum of two lists one after the other is the sum of their sums.
LEMMA SumOfBoth ==
    ASSUME NEW a \in Seq(Amount), NEW b \in Seq(Amount)
    PROVE  SumAmounts(a \o b) = Plus(SumAmounts(a), SumAmounts(b))
<1> DEFINE both == a \o b
<1>1. /\ both \in Seq(Amount) /\ Len(both) = Len(a) + Len(b)
      /\ Len(a) \in Nat /\ Len(b) \in Nat
      /\ \A i \in 1..Len(a) : both[i] = a[i] /\ a[i] \in Amount
      /\ \A i \in 1..Len(b) : both[Len(a) + i] = b[i] /\ b[i] \in Amount
  OBVIOUS
<1> HIDE DEF both
<1>2. PICK g : RunningTotals(both, g) /\ SumAmounts(both) = g[Len(both)]
  BY <1>1, SumRuns
<1>3. PICK ga : RunningTotals(a, ga) /\ SumAmounts(a) = ga[Len(a)]
  BY SumRuns, Zenon
<1>4. PICK gb : RunningTotals(b, gb) /\ SumAmounts(b) = gb[Len(b)]
  BY SumRuns, Zenon
<1>5. g[Len(a)] = ga[Len(a)]
  <2>1. Len(a) <= Len(a) /\ Len(a) <= Len(both)
    BY <1>1
  <2>2. SameUpTo(both, a, Len(a))
    BY <1>1, <2>1 DEF SameUpTo
  <2> DEFINE n == Len(a)
  <2>3. n \in Nat /\ SameUpTo(both, a, n)
    BY <1>1, <2>2
  <2> HIDE DEF n
  <2>4. g[n] = ga[n]
    BY <1>2, <1>3, <2>3, RunningAgrees
  <2>5. QED
    BY <2>4 DEF n
<1> DEFINE S == {k \in Nat : k <= Len(b) => g[Len(a) + k] = Plus(ga[Len(a)], gb[k])}
<1>6. ga[Len(a)] \in Amount /\ \A k \in 0..Len(b) : gb[k] \in Amount
  <2>1. Len(a) \in 0..Len(a)
    BY <1>1
  <2>2. ga \in [0..Len(a) -> Amount] /\ gb \in [0..Len(b) -> Amount]
    BY <1>3, <1>4 DEF RunningTotals
  <2>3. QED
    BY <2>1, <2>2
<1>7. 0 \in S
  <2>1. gb[0] = 0 /\ Len(a) + 0 = Len(a)
    BY <1>1, <1>4 DEF RunningTotals
  <2>2. Plus(ga[Len(a)], 0) = ga[Len(a)]
    BY <1>6, Sentinels DEF Amount, Plus, IsFinite
  <2>3. QED
    BY <1>5, <2>1, <2>2
<1>8. ASSUME NEW k \in S
      PROVE  k + 1 \in S
  <2>1. SUFFICES ASSUME k + 1 <= Len(b)
                 PROVE  g[Len(a) + (k + 1)] = Plus(ga[Len(a)], gb[k + 1])
    OBVIOUS
  <2>2. /\ k \in Nat /\ k \in 0..Len(b) /\ k + 1 \in 1..Len(b) /\ (k + 1) - 1 = k
        /\ Len(a) + (k + 1) \in 1..Len(both) /\ (Len(a) + (k + 1)) - 1 = Len(a) + k
    BY <1>1, <2>1
  <2>3. g[Len(a) + k] = Plus(ga[Len(a)], gb[k])
    BY <2>2
  <2>4. g[Len(a) + (k + 1)] = Plus(g[Len(a) + k], b[k + 1])
    BY <1>1, <1>2, <2>2 DEF RunningTotals
  <2>5. gb[k + 1] = Plus(gb[k], b[k + 1])
    BY <1>4, <2>2 DEF RunningTotals
  <2>6. \A x, y, z \in Amount : Plus(Plus(x, y), z) = Plus(x, Plus(y, z))
    BY Sentinels DEF Amount, Plus, IsFinite
  <2>7. ga[Len(a)] \in Amount /\ gb[k] \in Amount /\ b[k + 1] \in Amount
    BY <1>1, <1>6, <2>2
  <2>8. Plus(Plus(ga[Len(a)], gb[k]), b[k + 1]) = Plus(ga[Len(a)], Plus(gb[k], b[k + 1]))
    BY <2>6, <2>7, Zenon
  <2>9. QED
    BY <2>3, <2>4, <2>5, <2>8, Zenon
<1> HIDE DEF S
<1>9. S = Nat
  <2>1. S \subseteq Nat
    BY DEF S
  <2>2. QED
    BY <1>7, <1>8, <2>1, Inductive
<1>10. g[Len(a) + Len(b)] = Plus(ga[Len(a)], gb[Len(b)])
  BY <1>1, <1>9 DEF S
<1>11. QED
  BY <1>1, <1>2, <1>3, <1>4, <1>10 DEF both

\* The sums of short lists, which is all a rule's entry is made of.
LEMMA SumOfNone == SumAmounts(<<>>) = 0
<1>1. PICK g : RunningTotals(<<>>, g) /\ SumAmounts(<<>>) = g[Len(<<>>)]
  <2>1. <<>> \in Seq(Amount)
    OBVIOUS
  <2>2. QED
    BY <2>1, SumRuns, Zenon
<1>2. QED
  BY <1>1 DEF RunningTotals

LEMMA SumOfOne ==
    ASSUME NEW x \in Amount
    PROVE  SumAmounts(<<x>>) = x
<1>1. <<x>> \in Seq(Amount) /\ Len(<<x>>) = 1
  OBVIOUS
<1>2. PICK g : RunningTotals(<<x>>, g) /\ SumAmounts(<<x>>) = g[1]
  BY <1>1, SumRuns
<1>3. g[0] = 0 /\ g[1] = Plus(g[0], x)
  BY <1>1, <1>2 DEF RunningTotals
<1>4. QED
  BY <1>2, <1>3, Sentinels DEF Amount, Plus, IsFinite

LEMMA SumOfTwo ==
    ASSUME NEW x \in Amount, NEW y \in Amount
    PROVE  SumAmounts(<<x, y>>) = Plus(x, y)
<1>1. <<x>> \in Seq(Amount) /\ <<y>> \in Seq(Amount)
  OBVIOUS
<1>2. SumAmounts(<<x>> \o <<y>>) = Plus(SumAmounts(<<x>>), SumAmounts(<<y>>))
  BY <1>1, SumOfBoth
<1>3. SumAmounts(<<x>>) = x /\ SumAmounts(<<y>>) = y
  BY SumOfOne
<1>4. <<x>> \o <<y>> = <<x, y>>
  BY Joined
<1>5. QED
  BY <1>2, <1>3, <1>4, Zenon

LEMMA SumOfThree ==
    ASSUME NEW x \in Amount, NEW y \in Amount, NEW z \in Amount
    PROVE  SumAmounts(<<x, y, z>>) = Plus(Plus(x, y), z)
<1>1. <<x, y>> \in Seq(Amount) /\ <<z>> \in Seq(Amount)
  OBVIOUS
<1>2. SumAmounts(<<x, y>> \o <<z>>) = Plus(SumAmounts(<<x, y>>), SumAmounts(<<z>>))
  BY <1>1, SumOfBoth
<1>3. SumAmounts(<<x, y>>) = Plus(x, y) /\ SumAmounts(<<z>>) = z
  BY SumOfTwo, SumOfOne
<1>4. <<x, y>> \o <<z>> = <<x, y, z>>
  BY Appended
<1>5. QED
  BY <1>2, <1>3, <1>4, Zenon

(************************ Weighing what is listed **************************)

\* The sum of what each element of a list weighs.
Weight(w, list) == SumAmounts([i \in DOMAIN list |-> w[list[i]]])

LEMMA Weighed ==
    ASSUME NEW A, NEW w \in [A -> Amount], NEW list \in Seq(A)
    PROVE  [i \in DOMAIN list |-> w[list[i]]] \in Seq(Amount) /\ Weight(w, list) \in Amount
<1> DEFINE weights == [i \in DOMAIN list |-> w[list[i]]]
<1>1. DOMAIN list = 1..Len(list) /\ Len(list) \in Nat /\ \A i \in 1..Len(list) : list[i] \in A
  OBVIOUS
<1>2. weights \in Seq(Amount)
  BY <1>1
<1> HIDE DEF weights
<1>3. SumAmounts(weights) \in Amount
  BY <1>2, SumIsAmount
<1>4. QED
  BY <1>2, <1>3 DEF weights, Weight

LEMMA WeightOfBoth ==
    ASSUME NEW A, NEW w \in [A -> Amount], NEW a \in Seq(A), NEW b \in Seq(A)
    PROVE  Weight(w, a \o b) = Plus(Weight(w, a), Weight(w, b))
<1> DEFINE wa == [i \in DOMAIN a |-> w[a[i]]]
           wb == [i \in DOMAIN b |-> w[b[i]]]
           both == a \o b
           wab == [i \in DOMAIN both |-> w[both[i]]]
<1>1. wa \in Seq(Amount) /\ wb \in Seq(Amount)
  BY Weighed, Zenon
<1>2. /\ DOMAIN a = 1..Len(a) /\ DOMAIN b = 1..Len(b) /\ DOMAIN both = 1..(Len(a) + Len(b))
      /\ Len(a) \in Nat /\ Len(b) \in Nat
      /\ \A i \in 1..Len(a) : both[i] = a[i]
      /\ \A i \in 1..Len(b) : both[Len(a) + i] = b[i]
  OBVIOUS
<1> HIDE DEF both
<1>3. Len(wa) = Len(a) /\ Len(wb) = Len(b)
  BY <1>2
<1>4. wab = wa \o wb
  <2>1. /\ DOMAIN (wa \o wb) = 1..(Len(a) + Len(b)) /\ DOMAIN wab = 1..(Len(a) + Len(b))
        /\ \A i \in 1..(Len(a) + Len(b)) :
              (wa \o wb)[i] = IF i <= Len(a) THEN wa[i] ELSE wb[i - Len(a)]
    <3> HIDE DEF wa, wb, wab
    <3>1. DOMAIN (wa \o wb) = 1..(Len(wa) + Len(wb))
      BY <1>1
    <3>2. \A i \in 1..(Len(wa) + Len(wb)) :
              (wa \o wb)[i] = IF i <= Len(wa) THEN wa[i] ELSE wb[i - Len(wa)]
      BY <1>1
    <3>3. DOMAIN wab = 1..(Len(a) + Len(b))
      BY <1>2 DEF wab
    <3>4. QED
      BY <1>3, <3>1, <3>2, <3>3
  <2>2. \A i \in 1..(Len(a) + Len(b)) : wab[i] = IF i <= Len(a) THEN wa[i] ELSE wb[i - Len(a)]
    <3>1. TAKE i \in 1..(Len(a) + Len(b))
    <3>2. CASE i <= Len(a)
      <4>1. i \in 1..Len(a)
        BY <1>2, <3>2
      <4>2. QED
        BY <1>2, <3>2, <4>1
    <3>3. CASE ~ (i <= Len(a))
      <4>1. i - Len(a) \in 1..Len(b) /\ Len(a) + (i - Len(a)) = i
        BY <1>2, <3>3
      <4>2. both[i] = b[i - Len(a)]
        BY <1>2, <4>1
      <4>3. wab[i] = w[both[i]] /\ wb[i - Len(a)] = w[b[i - Len(a)]]
        BY <1>2, <4>1
      <4>4. QED
        BY <3>3, <4>2, <4>3
    <3>4. QED
      BY <3>2, <3>3
  <2>3. wab = [i \in 1..(Len(a) + Len(b)) |-> wab[i]]
    BY <1>2
  <2>4. wa \o wb = [i \in 1..(Len(a) + Len(b)) |-> (wa \o wb)[i]]
    <3>1. wa \o wb \in Seq(Amount)
      <4> HIDE DEF wa, wb
      <4>1. QED
        BY <1>1
    <3> DEFINE ww == wa \o wb
    <3>2. ww \in Seq(Amount) /\ DOMAIN ww = 1..(Len(a) + Len(b))
      BY <2>1, <3>1
    <3> HIDE DEF ww
    <3>3. ww = [i \in DOMAIN ww |-> ww[i]]
      BY <3>2
    <3>4. QED
      BY <3>2, <3>3 DEF ww
  <2> HIDE DEF wab, wa, wb
  <2> DEFINE ww == wa \o wb
  <2>5. \A i \in 1..(Len(a) + Len(b)) : ww[i] = wab[i]
    BY <2>1, <2>2
  <2>6. ww = [i \in 1..(Len(a) + Len(b)) |-> ww[i]]
    BY <2>4
  <2> HIDE DEF ww
  <2>7. ww = wab
    BY <2>3, <2>5, <2>6
  <2>8. QED
    BY <2>7 DEF ww
<1>5. SumAmounts(wa \o wb) = Plus(SumAmounts(wa), SumAmounts(wb))
  <2> HIDE DEF wa, wb
  <2>1. QED
    BY <1>1, SumOfBoth
<1>6. QED
  BY <1>4, <1>5, Zenon DEF Weight, both

LEMMA WeightOfTwo ==
    ASSUME NEW A, NEW w \in [A -> Amount], NEW a \in A, NEW b \in A
    PROVE  Weight(w, <<a, b>>) = Plus(w[a], w[b])
<1> DEFINE list == <<a, b>>
           weights == [i \in DOMAIN list |-> w[list[i]]]
<1>1. weights = <<w[a], w[b]>>
  <2>1. DOMAIN list = 1..2 /\ list[1] = a /\ list[2] = b
    OBVIOUS
  <2>2. \A i \in 1..2 : i = 1 \/ i = 2
    OBVIOUS
  <2> HIDE DEF list
  <2>3. \A i \in 1..2 : weights[i] = <<w[a], w[b]>>[i]
    BY <2>1, <2>2
  <2>4. QED
    BY <2>1, <2>3
<1>2. w[a] \in Amount /\ w[b] \in Amount
  OBVIOUS
<1>3. QED
  BY <1>1, <1>2, SumOfTwo DEF Weight

\* Lists joined weigh what they weigh one by one.
LEMMA WeightOfLists ==
    ASSUME NEW A, NEW w \in [A -> Amount], NEW lists \in Seq(Seq(A))
    PROVE  Weight(w, FlattenSeq(lists))
             = SumAmounts([i \in DOMAIN lists |-> Weight(w, lists[i])])
<1> DEFINE sums == [i \in DOMAIN lists |-> Weight(w, lists[i])]
           N == Len(lists)
<1>1. N \in Nat /\ DOMAIN lists = 1..N /\ \A n \in 1..N : lists[n] \in Seq(A)
  OBVIOUS
<1>2. /\ sums \in Seq(Amount) /\ Len(sums) = N
      /\ \A n \in 1..N : sums[n] = Weight(w, lists[n]) /\ sums[n] \in Amount
  <2>1. \A n \in 1..N : Weight(w, lists[n]) \in Amount
    BY <1>1, Weighed
  <2> HIDE DEF N
  <2>2. QED
    BY <1>1, <2>1
<1>3. PICK g : RunningTotals(sums, g) /\ SumAmounts(sums) = g[N]
  <2> HIDE DEF sums
  <2>1. PICK g : RunningTotals(sums, g) /\ SumAmounts(sums) = g[Len(sums)]
    BY <1>2, SumRuns, Zenon
  <2>2. QED
    BY <1>2, <2>1
<1>4. CASE lists = <<>>
  <2>1. FlattenSeq(lists) = <<>> /\ N = 0
    BY <1>4 DEF FlattenSeq
  <2>2. Weight(w, <<>>) = 0
    <3>1. [i \in DOMAIN <<>> |-> w[<<>>[i]]] = <<>>
      OBVIOUS
    <3>2. QED
      BY <3>1, SumOfNone, Zenon DEF Weight
  <2>3. g[0] = 0
    BY <1>3 DEF RunningTotals
  <2>4. QED
    <3> HIDE DEF N, sums
    <3>1. QED
      BY <1>3, <2>1, <2>2, <2>3 DEF sums
<1>5. CASE lists # <<>>
  <2>1. N # 0 /\ 1 \in 1..N /\ N \in 1..N
    BY <1>5
  <2>2. PICK f \in [1..N -> Seq(A)] : Joining(lists, f) /\ FlattenSeq(lists) = f[N]
    BY <1>5, FlattenJoins
  <2> HIDE DEF N, sums
  <2>3. ASSUME NEW n \in Nat, n + 1 <= N
        PROVE  g[n + 1] = Plus(g[n], Weight(w, lists[n + 1])) /\ n + 1 \in 1..N /\ g[n] \in Amount
    <3> DEFINE m == n + 1
    <3>1. m \in 1..N /\ m - 1 = n /\ m \in 1..Len(sums) /\ n \in 0..Len(sums)
      BY <1>1, <1>2, <2>3
    <3> HIDE DEF m
    <3>2. g[m] = Plus(g[n], sums[m]) /\ g[n] \in Amount
      BY <1>3, <3>1 DEF RunningTotals
    <3>3. sums[m] = Weight(w, lists[m])
      BY <1>2, <3>1
    <3>4. g[m] = Plus(g[n], Weight(w, lists[m]))
      BY <3>2, <3>3
    <3>5. QED
      BY <3>1, <3>2, <3>4 DEF m
  <2>4. ASSUME NEW n \in Nat, n + 2 <= N
        PROVE  f[n + 2] = f[n + 1] \o lists[n + 2]
    <3> DEFINE m == n + 2
    <3>1. m \in 2..Len(lists) /\ m - 1 = n + 1
      BY <1>1, <2>4 DEF N
    <3> HIDE DEF m
    <3>2. f[m] = f[n + 1] \o lists[m]
      BY <2>2, <3>1 DEF Joining
    <3>3. QED
      BY <3>2 DEF m
  <2> DEFINE S == {n \in Nat : n + 1 <= N => Weight(w, f[n + 1]) = g[n + 1]}
  <2>5. 0 \in S
    <3>1. 0 \in Nat /\ 0 + 1 = 1 /\ 0 + 1 <= N
      BY <1>1, <2>1
    <3>2. g[0 + 1] = Plus(g[0], Weight(w, lists[0 + 1]))
      BY <2>3, <3>1
    <3>3. g[1] = Plus(g[0], Weight(w, lists[1]))
      BY <3>1, <3>2, Zenon
    <3>4. g[0] = 0 /\ f[1] = lists[1]
      BY <1>3, <2>2 DEF RunningTotals, Joining
    <3>5. Weight(w, lists[1]) \in Amount
      BY <1>2, <2>1
    <3>6. \A x \in Amount : Plus(0, x) = x
      BY Sentinels DEF Amount, Plus, IsFinite
    <3>7. Weight(w, f[1]) = g[1]
      BY <3>3, <3>4, <3>5, <3>6
    <3>8. QED
      BY <3>1, <3>7
  <2>6. ASSUME NEW n \in S
        PROVE  n + 1 \in S
    <3> DEFINE k == n + 1
    <3>1. SUFFICES ASSUME k + 1 <= N PROVE Weight(w, f[k + 1]) = g[k + 1]
      OBVIOUS
    <3>2. n \in Nat /\ k \in Nat /\ k <= N /\ k \in 1..N /\ k + 1 \in 1..N /\ k + 1 = n + 2 /\ n + 2 <= N
      BY <1>1, <3>1
    <3>3. Weight(w, f[k]) = g[k]
      BY <3>2
    <3>4. f[k + 1] = f[k] \o lists[k + 1]
      <4>1. f[n + 2] = f[n + 1] \o lists[n + 2]
        BY <2>4, <3>2
      <4>2. QED
        BY <3>2, <4>1, Zenon
    <3> HIDE DEF k, S
    <3>5. f[k] \in Seq(A) /\ lists[k + 1] \in Seq(A)
      BY <1>1, <3>2
    <3>6. Weight(w, f[k] \o lists[k + 1]) = Plus(Weight(w, f[k]), Weight(w, lists[k + 1]))
      BY <3>5, WeightOfBoth
    <3>7. g[k + 1] = Plus(g[k], Weight(w, lists[k + 1]))
      BY <2>3, <3>1, <3>2
    <3>8. QED
      BY <3>3, <3>4, <3>6, <3>7, Zenon
  <2> HIDE DEF S
  <2>7. S = Nat
    <3>1. S \subseteq Nat
      BY DEF S
    <3>2. QED
      BY <2>5, <2>6, <3>1, Inductive
  <2>8. Weight(w, f[N]) = g[N]
    <3>1. N - 1 \in Nat /\ (N - 1) + 1 = N /\ N <= N
      BY <1>1, <2>1
    <3>2. QED
      BY <2>7, <3>1 DEF S
  <2>9. QED
    BY <1>3, <2>2, <2>8, Zenon DEF sums
<1>6. QED
  BY <1>4, <1>5

\* Amounts that are all finite have a finite sum.
LEMMA FiniteSum ==
    ASSUME NEW amounts \in Seq(Int)
    PROVE  SumAmounts(amounts) \in Int
<1> DEFINE N == Len(amounts)
<1>1. /\ amounts \in Seq(Amount) /\ N \in Nat
      /\ \A n \in 1..N : amounts[n] \in Int
  BY DEF Amount
<1>2. PICK g : RunningTotals(amounts, g) /\ SumAmounts(amounts) = g[N]
  BY <1>1, SumRuns
<1> DEFINE S == {n \in Nat : n <= N => g[n] \in Int}
<1>3. 0 \in S
  BY <1>2 DEF RunningTotals
<1>4. ASSUME NEW n \in S
      PROVE  n + 1 \in S
  <2>1. SUFFICES ASSUME n + 1 <= N PROVE g[n + 1] \in Int
    OBVIOUS
  <2>2. n \in Nat /\ n + 1 \in 1..N /\ (n + 1) - 1 = n /\ g[n] \in Int
    BY <1>1, <2>1
  <2>3. g[n + 1] = Plus(g[n], amounts[n + 1])
    BY <1>2, <2>2 DEF RunningTotals
  <2>4. amounts[n + 1] \in Int
    BY <1>1, <2>2
  <2>5. QED
    BY <2>2, <2>3, <2>4, Sentinels DEF Plus, IsFinite
<1> HIDE DEF S
<1>5. S = Nat
  <2>1. S \subseteq Nat
    BY DEF S
  <2>2. QED
    BY <1>3, <1>4, <2>1, Inductive
<1>6. QED
  BY <1>1, <1>2, <1>5 DEF S

\* What weighs nothing weighs nothing together.
LEMMA WeightlessList ==
    ASSUME NEW A, NEW w \in [A -> Amount], NEW list \in Seq(A), \A a \in A : w[a] = 0
    PROVE  Weight(w, list) = 0
<1> DEFINE weights == [i \in DOMAIN list |-> w[list[i]]]
           g == [n \in 0..Len(weights) |-> 0]
<1>1. weights \in Seq(Amount) /\ \A n \in 1..Len(weights) : weights[n] = 0
  <2>1. weights \in Seq(Amount)
    BY Weighed
  <2>2. DOMAIN list = 1..Len(list) /\ Len(weights) = Len(list) /\ \A i \in 1..Len(list) : list[i] \in A
    OBVIOUS
  <2>3. QED
    BY <2>1, <2>2
<1> HIDE DEF weights
<1>2. Len(weights) \in Nat
  BY <1>1
<1>3. RunningTotals(weights, g)
  <2>1. 0 \in Amount /\ Plus(0, 0) = 0
    BY Sentinels DEF Amount, Plus, IsFinite
  <2>2. \A n \in 1..Len(weights) : n \in 0..Len(weights) /\ n - 1 \in 0..Len(weights)
    BY <1>2
  <2>3. 0 \in 0..Len(weights)
    BY <1>2
  <2>4. QED
    BY <1>1, <2>1, <2>2, <2>3 DEF RunningTotals
<1>4. SumAmounts(weights) = g[Len(weights)]
  BY <1>1, <1>3, SumOfRun
<1>5. Len(weights) \in 0..Len(weights)
  BY <1>2
<1>6. QED
  BY <1>4, <1>5 DEF Weight, weights
=============================================================================
