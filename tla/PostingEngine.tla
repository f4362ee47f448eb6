---------------------------- MODULE PostingEngine ----------------------------
(***************************************************************************)
(* The posting engine as one step: a document in its context and a chart   *)
(* go in, one decision comes out.  The step is the pure part of            *)
(* ExecuteAccountingUseCase.execute (propose, value, decide); Accounting   *)
(* puts it between the reads and the append.                               *)
(***************************************************************************)
EXTENDS PostingValidator

CONSTANTS Contexts,   \* the posting contexts to answer
          Charts      \* the account mappings to decide under

TypedTaxes(taxes) ==
    /\ taxes \in Seq(ToSet(taxes))
    /\ \A t \in ToSet(taxes) : t.importe \in Amount \cup {None}

\* What the rules read of a payment: its amount, and per related document what
\* was paid and the taxes that go with it.
TypedPago(pago) ==
    /\ pago.monto \in Amount \cup {None}
    /\ pago.doctos \in Seq(ToSet(pago.doctos))
    /\ \A d \in ToSet(pago.doctos) :
          d.pagado \in Amount \cup {None} /\ TypedTaxes(TaxesOf(d))

\* A key is the tuple of its parts.
TypedKey(key) == Len(key) \in Nat /\ key = [i \in 1..Len(key) |-> key[i]]

\* What a POSTED record of the journal is: it names its source, every leg moves
\* an amount under a key of its own, each on an account, one account per role.
\* The constructors refuse any other (journal.py:111, journal.py:383-403); the
\* accounts are the posting decision's own, by role (validator.py:193-237).
PostedRecord(r) ==
    /\ r.source # None
    /\ r.lines \in Seq(ToSet(r.lines))
    /\ \A leg \in ToSet(r.lines) :
          /\ leg.side \in {DEBE, HABER} /\ leg.amount \in Amount
          /\ TypedKey(leg.key)
    /\ Constructible(r.lines) /\ HasHistory(r)

\* What the rules read of a context, and of what type: amounts and rates as
\* Decimals, taxes and concepts in the order the document states them, and the
\* posted records as the journal keeps them.
ASSUME ContextAssumption ==
    \A c \in Contexts :
        /\ {"doc", "perspective", "classification", "previous", "cancelledOn"} \subseteq DOMAIN c
        /\ \A field \in {"subtotal", "descuento", "total"} : c.doc[field] \in Amount \cup {None}
        /\ TypedTaxes(c.doc.traslados)
        /\ c.doc.claves \in Seq(ToSet(c.doc.claves))
        /\ c.doc.pagos = None \/ c.doc.pagos \in Seq(ToSet(c.doc.pagos))
        /\ c.doc.pagos # None => \A p \in ToSet(c.doc.pagos) : TypedPago(p)
        /\ c.doc.tipoCambio \in {None, NaN} \/ c.doc.tipoCambio \in Int \X (Nat \ {0})
        /\ \A r \in PostedEntries(c) : PostedRecord(r)

\* A chart maps a role to an account or does not map it (AccountMapping).
ASSUME ChartAssumption ==
    \A m \in Charts : \A role \in DOMAIN m.accounts : m.accounts[role] # None

VARIABLES ctx, chart, verdict

vars == <<ctx, chart, verdict>>

RAISED == "raised"

\* propose, value_entry and decide, with no store between them.
Verdict(c, m) ==
    LET proposal == ProposeFor(c)
    IN  IF proposal.kind = "raise" THEN [state |-> RAISED]
        ELSE Decide(c, proposal, m)

\* The context is classified with the chart it is decided under.
Init ==
    /\ chart \in Charts
    /\ \E c \in Contexts :
          ctx = [c EXCEPT !.classification = ClassificationFor(c.perspective, c.doc, chart)]
    /\ verdict = None

Answer ==
    /\ verdict = None
    /\ verdict' = Verdict(ctx, chart)
    /\ UNCHANGED <<ctx, chart>>

Next == Answer

Spec == Init /\ [][Next]_vars

-----------------------------------------------------------------------------
(****************************** Properties *********************************)

Decided == verdict # None /\ verdict.state # RAISED
HasEntry == Decided /\ verdict.entry # None
Posted == Decided /\ verdict.state = "POSTED"
Lines == verdict.entry.lines

\* What the legs of these roles move on the side, and on balance.
RolesTotal(lines, roles, side) ==
    SideTotal([i \in DOMAIN lines |->
                  [side |-> lines[i].side,
                   amount |-> IF lines[i].role \in roles THEN lines[i].amount ELSE 0]], side)
Net(lines, roles) == RolesTotal(lines, roles, DEBE) - RolesTotal(lines, roles, HABER)

\* No constructor guard of the decision, its entry or its record can fire:
\* JournalLine, ProposedJournalEntry, PostingDecision and JournalEntryRecord
\* all raise on values the rules are trusted never to build.  The only raise
\* left is the reversal of a source with several POSTED records.
DecisionIsRecordable ==
    /\ verdict # None /\ verdict.state = RAISED => Cardinality(PostedEntries(ctx)) > 1
    /\ Decided /\ verdict.state = "PROPOSED" => verdict.flags # {}
    /\ HasEntry => /\ Constructible(Lines)
                   /\ verdict.entry.source # None /\ verdict.entry.date # None
    /\ Decided /\ verdict.state = "SKIPPED" =>
          HasEntry /\ Lines = <<>> /\ verdict.flags = {} /\ verdict.accounts = NoAccounts
    /\ Posted => /\ HasEntry /\ Lines # <<>> /\ verdict.flags = {}
                 /\ IsBalanced(Lines)
                 /\ RolesOf(Lines) \subseteq DOMAIN verdict.accounts

\* A posted income comprobante books the whole document and nothing else:
\* the money leg is its Total, the base its net base, the IVA legs every tax
\* it states.  Dropping a retencion, an IEPS traslado or a rounding cent
\* would still balance; this is what balance does not show.
PostedBooksWholeDocument ==
    Posted /\ ctx.doc.tipo = "I" /\ ctx.doc.moneda = NATIONAL_CURRENCY =>
        LET stated(t) == IF t.importe = None THEN 0 ELSE t.importe
            taxes == SumAmounts([i \in DOMAIN ctx.doc.traslados |-> stated(ctx.doc.traslados[i])])
            ivaRoles == {r.ivaRole : r \in INCOME_ROWS}
        IN  /\ SideTotal(Lines, DEBE) = ctx.doc.total
            /\ ctx.doc.retenciones = {}
            /\ RolesTotal(Lines, ivaRoles, DEBE) + RolesTotal(Lines, ivaRoles, HABER) = taxes

\* What the payments that name a related document moved.  A payment that names
\* none is not summed (reposting.py:374): beside one that does, its money is
\* booked nowhere and nothing is flagged.
MovedByPayments(pagos) ==
    SumAmounts([i \in DOMAIN pagos |-> IF pagos[i].doctos = <<>> THEN 0 ELSE pagos[i].monto])

\* A posted REP moves in cash exactly what the payments that settle something
\* state, settles the receivable or payable by the same amount, and realizes
\* exactly the IVA it releases: nothing is created or lost between the accounts.
PostedRepConservesCash ==
    Posted /\ ctx.doc.tipo = "P" =>
        LET moved == MovedByPayments(ctx.doc.pagos)
            row == CHOOSE r \in REP_ROWS : RepClaims(ctx, r)
            cash == Net(Lines, {"clearing"})
        IN  /\ cash = IF row.cashSide = DEBE THEN moved ELSE 0 - moved
            /\ Net(Lines, {row.moneyRole}) = 0 - cash
            /\ Net(Lines, {row.releasedRole, row.realizedRole}) = 0

\* The rows are disjoint in what they claim (posting.py:343), and no claimed
\* document is also a skip or a draft, so registry order never decides.
RowsAreDisjoint ==
    /\ Cardinality(ClaimingRows(ctx)) <= 1
    /\ OutOfScope(ctx) \/ Drafted(ctx) => ClaimingRows(ctx) = {}
    /\ ~ (OutOfScope(ctx) /\ Drafted(ctx))

\* The income row a credit note mirrors: same side of the books, same method.
MirroredRow(note) ==
    CHOOSE r \in INCOME_ROWS : r.perspective = note.perspective /\ r.metodo = note.metodo

\* Booked after its original, a proposed credit note takes back what the
\* original's row put down: the legs the income row would build for the same
\* amounts, each on the other side, key by key.
CreditNoteMirrorsOriginal ==
    HasEntry /\ (\E r \in CREDIT_NOTE_ROWS : r.id = verdict.entry.rule) /\ Lines # <<>> =>
        LET note == CHOOSE r \in CREDIT_NOTE_ROWS : r.id = verdict.entry.rule
            row == MirroredRow(note)
            original == IF row.perspective = "emitido" THEN IssuedEntry(ctx, row)
                                                       ELSE PurchaseEntry(ctx, row)
            legs == original.entry.lines
        IN  /\ verdict.state = "PROPOSED"
            /\ ToSet(Lines) = {[legs[i] EXCEPT !.side = Opposite(@)] : i \in DOMAIN legs}

\* A reversal undoes the posted record account by account: posting and
\* reversal together leave every account it touched at zero, whatever the
\* chart says today.
ReversalZeroesPosting ==
    HasEntry /\ verdict.entry.rule = RULE_4_15B.id =>
        LET posted == CHOOSE r \in PostedEntries(ctx) : TRUE
            reversal == ToRecord(verdict, 0)
            both == posted.lines \o reversal.lines
            AccountsOf(lines) == {lines[i].account : i \in DOMAIN lines}
            Moved(a) == [i \in DOMAIN both |->
                [side |-> both[i].side,
                 amount |-> IF both[i].account = a THEN both[i].amount ELSE 0]]
        IN  /\ AccountsOf(reversal.lines) = AccountsOf(posted.lines)
            /\ \A a \in AccountsOf(both) : IsBalanced(Moved(a))

\* An entry in another currency posts at the rate its document states, the
\* configured one only when it states none (fx.py:176): the same legs on the
\* same sides, each within half a cent of its amount at that rate.
ForeignPostsAtStatedRate ==
    Posted /\ ctx.doc.moneda # NATIONAL_CURRENCY /\ ctx.doc.tipo # "P" =>
        LET proposed == ProposeFor(ctx).entry.lines
            rate == IF ctx.doc.tipoCambio = None THEN ConfiguredRate ELSE ctx.doc.tipoCambio
            Shape(line) == <<line.role, line.key, line.side>>
        IN  /\ verdict.rate = rate
            /\ DOMAIN Lines = DOMAIN proposed
            /\ \A i \in DOMAIN Lines :
                  LET error == Lines[i].amount * rate[2] - proposed[i].amount * rate[1]
                  IN  /\ Shape(Lines[i]) = Shape(proposed[i])
                      /\ 2 * error <= rate[2] /\ 0 - 2 * error <= rate[2]

\* amounts.py:182 says a corrupt amount - "non-finite, zero or negative - is
\* never posted": no REP posts while a tax it states is negative.
CorruptTaxNeverPosted ==
    Posted /\ ctx.doc.tipo = "P" =>
        \A i \in DOMAIN Doctos(ctx.doc.pagos) : DoctoIva(Doctos(ctx.doc.pagos)[i]) >= 0
=============================================================================
