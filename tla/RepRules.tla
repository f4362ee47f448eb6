------------------------------ MODULE RepRules -------------------------------
(***************************************************************************)
(* Rows 4.5a and 4.5b: a payment complement (REP) settles the documents    *)
(* its payments name and moves their IVA from pending to realized.         *)
(* Translated from contabilidad/rules/reposting.py.                        *)
(*                                                                         *)
(* doc.pagos is None or the sequence of payments; a payment has a moneda,  *)
(* a monto, its related documents (doctos) and its tax summary (None or    *)
(* retenciones/traslados); a docto has a uuid, a partialidad, a moneda, an *)
(* amount paid (pagado), its balances (anterior, insoluto) and its own     *)
(* taxes (None or retenciones/traslados).                                  *)
(***************************************************************************)
EXTENDS AmountRules

RepRow(id, perspective, cashSide, moneyRole, releasedRole, realizedRole) ==
    [id |-> id, version |-> "1", perspective |-> perspective, cashSide |-> cashSide,
     moneyRole |-> moneyRole, releasedRole |-> releasedRole, realizedRole |-> realizedRole]

REP_ROWS ==
    { RepRow("4.5a", "emitido", DEBE, "clientes",
             "iva_trasladado_no_cobrado", "iva_trasladado_cobrado"),
      RepRow("4.5b", "recibido", HABER, "proveedores",
             "iva_acred_pendiente", "iva_acred_pagado") }

UNAPPLIED_ROLE == "pagos_no_aplicados"

RepClaims(ctx, row) == ctx.doc.tipo = "P" /\ ctx.perspective = row.perspective

(************************* The source check ********************************)

IsNational(moneda) == moneda = NATIONAL_CURRENCY

Doctos(pagos) == FlattenSeq([i \in DOMAIN pagos |-> pagos[i].doctos])

TaxesOf(docto) == IF docto.impuestos = None THEN <<>> ELSE docto.impuestos.traslados

\* What the related documents of a payment themselves state for one tax.
StatedTax(pago, impuesto) ==
    LET all == FlattenSeq([i \in DOMAIN pago.doctos |-> TaxesOf(pago.doctos[i])])
    IN  SumAmounts([i \in DOMAIN all |->
            IF all[i].impuesto = impuesto /\ all[i].importe # None THEN all[i].importe ELSE 0])

SummaryOf(pago) == IF pago.impuestos = None THEN <<>> ELSE pago.impuestos.traslados

\* Mutant: a payment that applies less than it moved is let through.
AppliedExceeds(pago) ==
    LET paid == [i \in DOMAIN pago.doctos |-> pago.doctos[i].pagado]
    IN  /\ Len(paid) > 0
        /\ \A i \in DOMAIN paid : paid[i] # None /\ Usable(paid[i])
        /\ ~ IsFinite(pago.monto) \/ SumAmounts(paid) > pago.monto

\* The payment applied exactly what it moved, when every amount is readable.
AppliedDiffers(pago) ==
    LET paid == [i \in DOMAIN pago.doctos |-> pago.doctos[i].pagado]
    IN  /\ Len(paid) > 0
        /\ \A i \in DOMAIN paid : paid[i] # None /\ Usable(paid[i])
        /\ Differs(SumAmounts(paid), pago.monto)

\* A flag that ends the calculation: the payment contradicts itself.
PagoRefusals(pago) ==
    (IF pago.monto = None THEN {"MISSING_SOURCE_FIELD"}
     ELSE IF AppliedDiffers(pago) THEN {"REP_INVARIANT_VIOLATION"} ELSE {})
    \cup (IF \E i \in DOMAIN SummaryOf(pago) : SummaryOf(pago)[i].importe = None
          THEN {"MISSING_SOURCE_FIELD"} ELSE {})

\* A flag carried beside the legs: the entry is recorded and cannot post.
PagoBlocking(pago) ==
    (IF IsNational(pago.moneda) THEN {} ELSE {"FX_DIFFERENCE_UNCONFIRMED"})
    \cup (IF pago.impuestos # None /\ pago.impuestos.retenciones
          THEN {"UNSUPPORTED_RULE"} ELSE {})
    \cup (IF \E i \in DOMAIN SummaryOf(pago) :
                LET t == SummaryOf(pago)[i]
                IN  t.importe # None /\ Differs(t.importe, StatedTax(pago, t.impuesto))
          THEN {"REP_INVARIANT_VIOLATION"} ELSE {})

IsIva(traslado) == traslado.impuesto = IVA_IMPUESTO

\* The docto's own IVA, whatever its rates; exempt traslados move nothing.
DoctoIva(docto) ==
    LET taxes == TaxesOf(docto)
    IN  SumAmounts([i \in DOMAIN taxes |->
            IF IsIva(taxes[i]) /\ taxes[i].importe # None /\ IsFinite(taxes[i].importe)
            THEN taxes[i].importe ELSE 0])

DoctoIvaRefusals(docto) ==
    LET taxes == TaxesOf(docto)
        iva == {i \in DOMAIN taxes : IsIva(taxes[i])}
    IN  (IF \E i \in iva : LacksImporte(taxes[i]) THEN {"MISSING_SOURCE_FIELD"} ELSE {})
        \cup (IF \E i \in iva : taxes[i].importe = NaN THEN {"INVALID_AMOUNT"} ELSE {})

BalancesDisagree(docto) ==
    /\ docto.anterior # None /\ docto.insoluto # None
    /\ Differs(Minus(docto.anterior, docto.pagado), docto.insoluto)

DoctoRefusals(docto) ==
    DoctoIvaRefusals(docto)
    \cup (IF docto.pagado = None THEN {"MISSING_SOURCE_FIELD"}
          ELSE IF ~ Usable(docto.pagado) THEN {"INVALID_AMOUNT"}
          ELSE IF BalancesDisagree(docto) THEN {"REP_INVARIANT_VIOLATION"}
          ELSE {})

DoctoBlocking(docto) ==
    (IF IsNational(docto.moneda) THEN {} ELSE {"FX_DIFFERENCE_UNCONFIRMED"})
    \cup (IF docto.impuestos # None
             /\ \/ docto.impuestos.retenciones
                \/ \E i \in DOMAIN TaxesOf(docto) : ~ IsIva(TaxesOf(docto)[i])
          THEN {"UNSUPPORTED_RULE"} ELSE {})

\* One partialidad of one related document stated twice.
PartialidadRepeats(doctos) ==
    \E i, j \in DOMAIN doctos :
        /\ i # j
        /\ doctos[i].uuid = doctos[j].uuid
        /\ doctos[i].parcialidad = doctos[j].parcialidad

RepRefusals(pagos) ==
    LET doctos == Doctos(pagos)
    IN  (UNION {PagoRefusals(pagos[i]) : i \in DOMAIN pagos})
        \cup (UNION {DoctoRefusals(doctos[i]) : i \in DOMAIN doctos})
        \cup (IF PartialidadRepeats(doctos) THEN {"REP_INVARIANT_VIOLATION"} ELSE {})

RepBlocking(pagos) ==
    (UNION {PagoBlocking(pagos[i]) : i \in DOMAIN pagos})
    \cup (UNION {DoctoBlocking(Doctos(pagos)[i]) : i \in DOMAIN Doctos(pagos)})

\* A docto that gets legs: an amount nobody valued is not booked.
GetsLegs(docto) == IsNational(docto.moneda)

(******************************** Legs *************************************)

RepLeg(role, side, docto, amount) ==
    JournalLine(role, <<role, docto.uuid, docto.parcialidad>>, side, amount)

\* Settled: against the receivable or payable, IVA released and realized.
\* Not settled: against the unapplied-payment account, IVA untouched.
DoctoLegs(row, docto, settled) ==
    <<RepLeg("clearing", row.cashSide, docto, docto.pagado),
      RepLeg(IF settled THEN row.moneyRole ELSE UNAPPLIED_ROLE,
             Opposite(row.cashSide), docto, docto.pagado)>>
    \o IF settled /\ DoctoIva(docto) > 0
       THEN <<RepLeg(row.releasedRole, row.cashSide, docto, DoctoIva(docto)),
              RepLeg(row.realizedRole, Opposite(row.cashSide), docto, DoctoIva(docto))>>
       ELSE <<>>

RepLegs(row, doctos, posted) ==
    FlattenSeq([i \in DOMAIN doctos |->
        IF GetsLegs(doctos[i]) THEN DoctoLegs(row, doctos[i], doctos[i].uuid \in posted) ELSE <<>>])

\* A docto that gets legs and whose original is not posted.
Unresolved(pagos, posted) ==
    LET doctos == Doctos(pagos)
    IN  IF \E i \in DOMAIN doctos : GetsLegs(doctos[i]) /\ doctos[i].uuid \notin posted
        THEN {"MISSING_REP_ORIGINAL"} ELSE {}

RepRule(ctx, row) ==
    LET pagos == ctx.doc.pagos
        doctos == Doctos(pagos)
        blocking == RepBlocking(pagos) \cup Unresolved(pagos, ctx.posted)
        legs == RepLegs(row, doctos, ctx.posted)
    IN  IF ~ Recordable(ctx.doc) THEN Review(ctx, row, RecordabilityFlags(ctx.doc), <<>>)
        ELSE IF pagos = None \/ pagos = <<>> THEN Review(ctx, row, {"MISSING_SOURCE_FIELD"}, <<>>)
        ELSE IF RepRefusals(pagos) # {} THEN Review(ctx, row, RepRefusals(pagos), <<>>)
        ELSE IF blocking # {} THEN Review(ctx, row, blocking, legs)
        ELSE IF ~ (\E i \in DOMAIN doctos : GetsLegs(doctos[i]))
        THEN Review(ctx, row, {"MISSING_SOURCE_FIELD"}, <<>>)
        ELSE Propose(ProposedJournalEntry(row, ctx, ctx.doc.uuid, ctx.doc.hash,
                                          ctx.doc.fecha, legs, {}))
=============================================================================
