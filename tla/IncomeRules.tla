----------------------------- MODULE IncomeRules -----------------------------
(***************************************************************************)
(* Rows 4.1 to 4.4: an income comprobante issued or received, paid at once *)
(* (PUE) or on credit (PPD).  Translated from contabilidad/rules/posting.py*)
(* (everything but the selector, which is PostingRules).                   *)
(***************************************************************************)
EXTENDS AmountRules

IncomeRow(id, perspective, metodo, moneyRole, moneyKey, ivaRole, assumptions) ==
    [id |-> id, version |-> "1", perspective |-> perspective, metodo |-> metodo,
     moneyRole |-> moneyRole, moneyKey |-> moneyKey, ivaRole |-> ivaRole,
     assumptions |-> assumptions]

INCOME_ROWS ==
    { IncomeRow("4.1", "emitido", "PUE", "clearing", <<"clearing">>,
                "iva_trasladado_cobrado", {"ASSUMED_PUE"}),
      IncomeRow("4.2", "emitido", "PPD", "clientes", <<"total">>,
                "iva_trasladado_no_cobrado", {}),
      IncomeRow("4.3", "recibido", "PUE", "clearing", <<"clearing">>,
                "iva_acred_pagado", {"ASSUMED_PUE"}),
      IncomeRow("4.4", "recibido", "PPD", "proveedores", <<"total">>,
                "iva_acred_pendiente", {}) }

IncomeClaims(ctx, row) ==
    /\ ctx.doc.tipo = "I"
    /\ ctx.perspective = row.perspective
    /\ ctx.doc.metodo = row.metodo

IncomeEntry(ctx, row, lines) ==
    Propose(ProposedJournalEntry(row, ctx, ctx.doc.uuid, ctx.doc.hash,
                                 ctx.doc.fecha, lines, row.assumptions))

\* The money lands on the row's account; base and IVA are the credits.
IssuedEntry(ctx, row) ==
    IncomeEntry(ctx, row,
        <<JournalLine(row.moneyRole, row.moneyKey, DEBE, ctx.doc.total),
          JournalLine("ingresos", <<"base">>, HABER, NetBase(ctx.doc))>>
        \o IvaLeg(row.ivaRole, HABER, ctx.doc))

\* The classified base and the creditable IVA debit; the money credits.
PurchaseEntry(ctx, row) ==
    IncomeEntry(ctx, row,
        <<JournalLine(ctx.classification.role, <<"base">>, DEBE, NetBase(ctx.doc))>>
        \o IvaLeg(row.ivaRole, DEBE, ctx.doc)
        \o <<JournalLine(row.moneyRole, row.moneyKey, HABER, ctx.doc.total)>>)

IssuedIncome(ctx, row) ==
    IF BaseAmountsFlags(ctx.doc) # {}
    THEN Review(ctx, row, BaseAmountsFlags(ctx.doc), <<>>)
    ELSE IssuedEntry(ctx, row)

ReceivedPurchase(ctx, row) ==
    IF ClassificationFlags(ctx) # {}
    THEN Review(ctx, row, ClassificationFlags(ctx), <<>>)
    ELSE IF BaseAmountsFlags(ctx.doc) # {}
    THEN Review(ctx, row, BaseAmountsFlags(ctx.doc), <<>>)
    ELSE PurchaseEntry(ctx, row)

IncomeRule(ctx, row) ==
    IF row.perspective = "emitido"
    THEN IssuedIncome(ctx, row)
    ELSE ReceivedPurchase(ctx, row)
=============================================================================
