----------------------------- MODULE AmountRules -----------------------------
(***************************************************************************)
(* The source preconditions every invoice-like rule shares: which base,    *)
(* IVA and total a document states, and why it may state none the engine   *)
(* can book.  Translated from contabilidad/rules/amounts.py and            *)
(* contabilidad/classification.py.                                         *)
(*                                                                         *)
(* A refusal is the set of flag types it raises, so "no refusal" is {}.    *)
(***************************************************************************)
EXTENDS JournalContract

IVA_IMPUESTO == "002"
EXENTO == "Exento"
NATIONAL_CURRENCY == "MXN"

(***************************** Classification ******************************)

POSTABLE_CATEGORIES == {"gasto", "inventario"}

\* Why one concept's ClaveProdServ yields no role.  "" is a blank clave; a
\* table maps the claves the client classified to their category.
ConceptRefusal(clave, table) ==
    IF clave = "" THEN {"MISSING_SOURCE_FIELD"}
    ELSE IF clave \notin DOMAIN table THEN {"UNMAPPED_ACCOUNT"}
    ELSE IF table[clave] \notin POSTABLE_CATEGORIES THEN {"UNSUPPORTED_RULE"}
    ELSE {}

\* The one role all concepts book to, or the flags of the first concept that
\* has none, of an empty document, or of concepts that disagree.
ClassifyDocument(claves, table) ==
    LET refused == {i \in DOMAIN claves : ConceptRefusal(claves[i], table) # {}}
        Answer(role, flags) == [role |-> role, flags |-> flags]
    IN  IF refused # {}
        THEN Answer(None, ConceptRefusal(claves[Min(refused)], table))
        ELSE LET roles == {table[claves[i]] : i \in DOMAIN claves}
             IN  CASE Cardinality(roles) = 0 -> Answer(None, {"MISSING_SOURCE_FIELD"})
                   [] Cardinality(roles) = 1 -> Answer(CHOOSE r \in roles : TRUE, {})
                   [] OTHER -> Answer(None, {"UNSUPPORTED_RULE"})

\* What a received rule refuses with when it reads its classification.
ClassificationFlags(ctx) ==
    IF ctx.classification = None THEN {"MISSING_SOURCE_FIELD"}
    ELSE ctx.classification.flags

\* The use case classifies only received comprobantes that book a base.
ClassificationFor(perspective, doc, chart) ==
    IF perspective = "recibido" /\ doc.tipo \in {"I", "E"}
    THEN ClassifyDocument(doc.claves, chart.classification)
    ELSE None

(******************************* Amounts ***********************************)

\* SubTotal - Descuento, None when the source states no SubTotal.
NetBase(doc) ==
    IF doc.subtotal = None THEN None
    ELSE Minus(doc.subtotal, IF doc.descuento = None THEN 0 ELSE doc.descuento)

LacksImporte(traslado) == traslado.importe = None /\ traslado.factor # EXENTO

\* The traslados summed into the one IVA leg; an exempt one moves nothing.
IvaTraslado(doc) ==
    LET stated(t) == IF t.importe = None THEN 0 ELSE t.importe
    IN  SumAmounts([i \in DOMAIN doc.traslados |-> stated(doc.traslados[i])])

\* Usable on their own, and consistent with the document's own total.
AmountRefusals(base, iva, total) ==
    IF ~ (IsFinite(base) /\ IsFinite(iva) /\ IsFinite(total)) THEN {"INVALID_AMOUNT"}
    ELSE IF base <= 0 \/ total <= 0 \/ iva < 0 THEN {"INVALID_AMOUNT"}
    ELSE IF total # base + iva THEN {"INVALID_AMOUNT"}
    ELSE {}

\* Mutant: the retenciones are not looked at.
UnbookableTrasladosOnly(doc) ==
    IF \E i \in DOMAIN doc.traslados : doc.traslados[i].impuesto # IVA_IMPUESTO
    THEN {"UNSUPPORTED_RULE"} ELSE {}

\* IVA traslados and nothing else; retained IVA on a credit note has its own word.
UnbookableTax(doc) ==
    IF doc.retenciones # {}
    THEN IF IVA_IMPUESTO \in doc.retenciones /\ doc.tipo = "E"
         THEN {"RETENCION_IVA_ADJUSTMENT_REQUIRES_REVIEW"}
         ELSE {"UNSUPPORTED_RULE"}
    ELSE IF \E i \in DOMAIN doc.traslados : doc.traslados[i].impuesto # IVA_IMPUESTO
         THEN {"UNSUPPORTED_RULE"}
         ELSE {}

\* base_amounts: the first precondition that fails, in the code's order.
BaseAmountsFlags(doc) ==
    IF ~ Recordable(doc) THEN RecordabilityFlags(doc)
    ELSE IF UnbookableTax(doc) # {} THEN UnbookableTax(doc)
    ELSE IF NetBase(doc) = None \/ doc.total = None THEN {"MISSING_SOURCE_FIELD"}
    ELSE IF \E i \in DOMAIN doc.traslados : LacksImporte(doc.traslados[i])
         THEN {"MISSING_SOURCE_FIELD"}
    ELSE AmountRefusals(NetBase(doc), IvaTraslado(doc), doc.total)

\* Mutant: the IVA leg is written even when it moves nothing.
IvaLegAlways(role, side, doc) ==
    <<JournalLine(role, <<"iva">>, side, IvaTraslado(doc))>>

\* The IVA leg is dropped, not zeroed, when there is no tax to book.
IvaLeg(role, side, doc) ==
    IF IvaTraslado(doc) > 0
    THEN <<JournalLine(role, <<"iva">>, side, IvaTraslado(doc))>>
    ELSE <<>>
=============================================================================
