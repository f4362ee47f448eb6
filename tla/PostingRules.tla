---------------------------- MODULE PostingRules -----------------------------
(***************************************************************************)
(* The engine's one door per document: which row answers for it, and what  *)
(* the answer is.  Translated from contabilidad/rules/posting.py           *)
(* (registry and propose), scope.py and drafts.py.                         *)
(***************************************************************************)
EXTENDS IncomeRules, CreditNoteRules, RepRules, CancellationRules

Case(id, tipo, perspectives, flag) ==
    [id |-> id, version |-> "1", tipo |-> tipo, perspectives |-> perspectives, flag |-> flag]

OUT_OF_SCOPE_RULES ==
    { Case("4.11", "N", {"recibido"}, None),
      Case("4.12", "T", {"emitido", "recibido"}, None),
      Case("4.14", "R", {"recibido"}, None) }

DRAFT_RULES ==
    { Case("4.10", "N", {"emitido"}, "PAYROLL_DRAFT_UNSUPPORTED"),
      Case("4.13", "R", {"emitido"}, "RETENCION_DRAFT_UNSUPPORTED") }

CaseClaims(ctx, case) ==
    ctx.doc.tipo = case.tipo /\ ctx.perspective \in case.perspectives

OutOfScope(ctx) == Recordable(ctx.doc) /\ \E c \in OUT_OF_SCOPE_RULES : CaseClaims(ctx, c)

OutOfScopeSkip(ctx) ==
    LET case == CHOOSE c \in OUT_OF_SCOPE_RULES : CaseClaims(ctx, c)
    IN  Skip(ProposedJournalEntry(case, ctx, ctx.doc.uuid, ctx.doc.hash,
                                  ctx.doc.fecha, <<>>, {}))

Drafted(ctx) == \E c \in DRAFT_RULES : CaseClaims(ctx, c)

Draft(ctx) ==
    LET case == CHOOSE c \in DRAFT_RULES : CaseClaims(ctx, c)
    IN  Review(ctx, case, {case.flag}, <<>>)

\* No row claims the document and no entry can be keyed: it is flagged itself.
Unclaimed(ctx) ==
    IF ctx.doc.tipo = "E" /\ ctx.perspective \in {"emitido", "recibido"}
    THEN CreditNoteReview(ctx)
    ELSE IF ctx.doc.tipo = "I" /\ ctx.perspective \in {"emitido", "recibido"}
    THEN ReviewRequest(None, {"MISSING_SOURCE_FIELD"}, NoAccounts)
    ELSE ReviewRequest(None, {"UNSUPPORTED_RULE"}, NoAccounts)

\* The rows of the registry that claim the document.  The code takes the
\* first in registry order; that they are disjoint is a property checked.
ClaimingRows(ctx) ==
    {r \in INCOME_ROWS : IncomeClaims(ctx, r)}
    \cup {r \in REP_ROWS : RepClaims(ctx, r)}
    \cup {r \in CREDIT_NOTE_ROWS : CreditNoteClaims(ctx, r)}

RowAnswer(ctx) ==
    IF \E r \in INCOME_ROWS : IncomeClaims(ctx, r)
    THEN IncomeRule(ctx, CHOOSE r \in INCOME_ROWS : IncomeClaims(ctx, r))
    ELSE IF \E r \in REP_ROWS : RepClaims(ctx, r)
    THEN RepRule(ctx, CHOOSE r \in REP_ROWS : RepClaims(ctx, r))
    ELSE IF \E r \in CREDIT_NOTE_ROWS : CreditNoteClaims(ctx, r)
    THEN CreditNote(ctx, CHOOSE r \in CREDIT_NOTE_ROWS : CreditNoteClaims(ctx, r))
    ELSE Unclaimed(ctx)

\* A cancelled source is answered by its state, before any row is asked.
ProposeFor(ctx) ==
    IF ctx.doc.status = "CANCELLED" THEN Cancellation(ctx)
    ELSE IF OutOfScope(ctx) THEN OutOfScopeSkip(ctx)
    ELSE IF Drafted(ctx) THEN Draft(ctx)
    ELSE RowAnswer(ctx)

\* rule_id -> current rule_version, as the validator is wired with it.
SUPPORTED_RULES ==
    LET rows == INCOME_ROWS \cup REP_ROWS \cup CREDIT_NOTE_ROWS \cup {RULE_4_15A, RULE_4_15B}
    IN  [id \in {r.id : r \in rows} |-> (CHOOSE r \in rows : r.id = id).version]
=============================================================================
