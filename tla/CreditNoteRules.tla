--------------------------- MODULE CreditNoteRules ---------------------------
(***************************************************************************)
(* Rows 4.6 to 4.9: a credit note mirrors the row of the one original it   *)
(* corrects, and is never postable by itself.  Translated from             *)
(* contabilidad/rules/credit_notes.py.                                     *)
(*                                                                         *)
(* doc.relaciones is the flat sequence of stated relations, each with its  *)
(* type and UUID; ctx.related maps a UUID to what the archive and the      *)
(* ledger know of it.                                                      *)
(***************************************************************************)
EXTENDS AmountRules

NOTA_CREDITO == "01"

CreditNoteRow(id, perspective, metodo, moneyRole, moneyKey, moneySide, ivaRole, blocking) ==
    [id |-> id, version |-> "1", perspective |-> perspective, metodo |-> metodo,
     moneyRole |-> moneyRole, moneyKey |-> moneyKey, moneySide |-> moneySide,
     ivaRole |-> ivaRole, blocking |-> blocking]

CREDIT_NOTE_ROWS ==
    { CreditNoteRow("4.6", "emitido", "PUE", "clearing", <<"clearing">>, HABER,
                    "iva_trasladado_cobrado", "EGRESO_IVA_EVIDENCE_MISSING"),
      CreditNoteRow("4.7", "emitido", "PPD", "clientes", <<"total">>, HABER,
                    "iva_trasladado_no_cobrado", "EGRESO_PAYMENT_HISTORY_UNAVAILABLE"),
      CreditNoteRow("4.8", "recibido", "PUE", "clearing", <<"clearing">>, DEBE,
                    "iva_acred_pagado", "EGRESO_IVA_EVIDENCE_MISSING"),
      CreditNoteRow("4.9", "recibido", "PPD", "proveedores", <<"total">>, DEBE,
                    "iva_acred_pendiente", "EGRESO_PAYMENT_HISTORY_UNAVAILABLE") }

\* Every UUID stated under TipoRelacion 01, in source order.
CreditNoteUuids(doc) ==
    LET stated == SelectSeq(doc.relaciones, LAMBDA r : r.tipo = NOTA_CREDITO)
    IN  [i \in DOMAIN stated |-> stated[i].uuid]

\* The single resolved original, or None: never the first of several.
CreditNoteOriginal(ctx) ==
    LET uuids == CreditNoteUuids(ctx.doc)
    IN  IF Len(uuids) = 1 /\ uuids[1] \in DOMAIN ctx.related
        THEN ctx.related[uuids[1]]
        ELSE None

\* Mutant: the original's MetodoPago does not tell the rows apart.
CreditNoteClaimsAnyMethod(ctx, row) ==
    /\ ctx.doc.tipo = "E"
    /\ ctx.perspective = row.perspective
    /\ CreditNoteOriginal(ctx) # None

CreditNoteClaims(ctx, row) ==
    /\ ctx.doc.tipo = "E"
    /\ ctx.perspective = row.perspective
    /\ CreditNoteOriginal(ctx) # None
    /\ CreditNoteOriginal(ctx).metodo = row.metodo

\* Why no row claims this note; always a review of the document itself.
CreditNoteReview(ctx) ==
    LET uuids == CreditNoteUuids(ctx.doc)
        flag == CASE Len(uuids) = 0 -> "EGRESO_RELATION_MISSING"
                  [] Len(uuids) > 1 -> "EGRESO_MULTIPLE_ORIGINALS"
                  [] Len(uuids) = 1 /\ CreditNoteOriginal(ctx) = None
                        -> "EGRESO_ORIGINAL_NOT_FOUND"
                  [] OTHER -> "MISSING_SOURCE_FIELD"
    IN  ReviewRequest(None, {flag}, NoAccounts)

UnvaluedCurrency(doc, original) ==
    \/ doc.moneda # NATIONAL_CURRENCY
    \/ original.moneda # None /\ original.moneda # doc.moneda

\* The preconditions of a note, the first that fails.
CreditNoteFlags(ctx, row, original) ==
    IF ~ original.posted THEN {"EGRESO_ORIGINAL_NOT_POSTED"}
    ELSE IF row.perspective = "recibido" /\ ClassificationFlags(ctx) # {}
         THEN ClassificationFlags(ctx)
    ELSE IF BaseAmountsFlags(ctx.doc) # {} THEN BaseAmountsFlags(ctx.doc)
    ELSE IF UnvaluedCurrency(ctx.doc, original) THEN {"AMBIGUOUS_FX"}
    ELSE IF original.total = None THEN {"MISSING_SOURCE_FIELD"}
    ELSE IF ctx.doc.total > original.total THEN {"EGRESO_EXCEEDS_ORIGINAL"}
    ELSE {}

\* Mutant: the IVA is booked on the money's side.
CreditNoteIvaAstray(ctx, row) ==
    LET baseRole == IF row.perspective = "recibido" THEN ctx.classification.role
                                                    ELSE "ingresos"
    IN  <<JournalLine(row.moneyRole, row.moneyKey, row.moneySide, ctx.doc.total),
          JournalLine(baseRole, <<"base">>, Opposite(row.moneySide), NetBase(ctx.doc))>>
        \o IvaLeg(row.ivaRole, row.moneySide, ctx.doc)

\* The mirror of the original's row: the money on one side, base and IVA on
\* the other.
CreditNoteLegs(ctx, row) ==
    LET baseRole == IF row.perspective = "recibido" THEN ctx.classification.role
                                                    ELSE "ingresos"
        baseSide == Opposite(row.moneySide)
    IN  <<JournalLine(row.moneyRole, row.moneyKey, row.moneySide, ctx.doc.total),
          JournalLine(baseRole, <<"base">>, baseSide, NetBase(ctx.doc))>>
        \o IvaLeg(row.ivaRole, baseSide, ctx.doc)

\* Even a sound note is only proposed: the row's blocking flag travels with it.
CreditNote(ctx, row) ==
    LET flags == CreditNoteFlags(ctx, row, CreditNoteOriginal(ctx))
    IN  IF flags # {} THEN Review(ctx, row, flags, <<>>)
        ELSE Review(ctx, row, {row.blocking}, CreditNoteLegs(ctx, row))
=============================================================================
