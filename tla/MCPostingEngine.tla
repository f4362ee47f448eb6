--------------------------- MODULE MCPostingEngine ---------------------------
(***************************************************************************)
(* Documents for the engine: families that vary a few facts of one base    *)
(* document each, so that every precondition of every rule is met and      *)
(* missed.  Amounts are a handful of cents values.                         *)
(***************************************************************************)
EXTENDS PostingEngine

Tax(impuesto, factor, importe) ==
    [impuesto |-> impuesto, factor |-> factor, importe |-> importe]
Iva(importe) == Tax("002", "Tasa", importe)
Exempt == Tax("002", EXENTO, None)
Ieps == Tax("003", "Tasa", 8)

BaseDoc ==
    [tipo |-> "I", metodo |-> "PUE", fecha |-> 1, uuid |-> "u1", hash |-> "h1",
     moneda |-> "MXN", tipoCambio |-> None, subtotal |-> 100, descuento |-> None,
     total |-> 116, traslados |-> <<Iva(16)>>, retenciones |-> {}, pagos |-> None,
     relaciones |-> <<>>, claves |-> <<"c1">>, flags |-> {}, status |-> "VIGENTE"]

Context(doc, perspective) ==
    [contributor |-> "alice", doc |-> doc, perspective |-> perspective,
     classification |-> None, posted |-> {}, related |-> [u \in {} |-> None],
     previous |-> {}, cancelledOn |-> None]

Sides == {"emitido", "recibido"}
Perspectives == Sides \cup {"undetermined"}

(****************************** Charts *************************************)

IncomeRoles ==
    {"clearing", "clientes", "proveedores", "ingresos", "gasto", "inventario",
     "iva_trasladado_cobrado", "iva_trasladado_no_cobrado",
     "iva_acred_pagado", "iva_acred_pendiente"}

Claves == [c \in {"c1", "c2", "af"} |->
              CASE c = "c1" -> "gasto" [] c = "c2" -> "inventario" [] c = "af" -> "activo_fijo"]

FullChart ==
    [version |-> 1, accounts |-> [r \in IncomeRoles |-> <<1, r>>], classification |-> Claves]
NoIvaChart ==
    [version |-> 2, accounts |-> [r \in {"clearing", "ingresos", "gasto"} |-> <<2, r>>],
     classification |-> [c \in {"c1"} |-> "gasto"]]

MCCharts == {FullChart, NoIvaChart}

(***************************** Families ************************************)

\* Amounts: which of them are stated, usable and consistent.
TaxLists ==
    { <<>>, <<Iva(16)>>, <<Iva(16), Iva(0)>>, <<Iva(8), Iva(8), Exempt>>, <<Exempt>>,
      <<Iva(8), Ieps>>, <<Iva(None)>>, <<Iva(NaN)>>, <<Iva(-4)>> }

Amounts ==
    { Context([BaseDoc EXCEPT !.metodo = m, !.subtotal = s, !.descuento = d,
                              !.total = t, !.traslados = x], p) :
        m \in {"PUE", "PPD"}, s \in {100, 0, NaN, None}, d \in {None, 20, 100},
        t \in {116, 100, 96, 80, 0, NaN, None}, x \in TaxLists, p \in Sides }

Retained ==
    { Context([BaseDoc EXCEPT !.metodo = m, !.retenciones = r, !.claves = c], p) :
        m \in {"PUE", "PPD", None}, r \in {{}, {"001"}, {"002"}}, p \in Perspectives,
        c \in {<<"c1">>, <<"c1", "c2">>, <<"c2", "c2">>, <<"c1", "zz">>, <<"af">>, <<"">>, <<>>} }

\* Identity, date, source state and document kind.
Identity ==
    { Context([BaseDoc EXCEPT !.tipo = k, !.fecha = f, !.uuid = u, !.hash = h,
                              !.flags = g, !.status = s], p) :
        k \in {"I", "E", "P", "N", "T", "R", "?"}, f \in {1, None}, u \in {"u1", None},
        h \in {"h1", ""}, g \in {{}, {"SIGNATURE_INVALID"}}, s \in {"VIGENTE", "UNKNOWN"},
        p \in Perspectives }

\* Foreign currency: a halving rate makes legs round apart and vanish.
Foreign ==
    { Context([BaseDoc EXCEPT !.moneda = "USD", !.tipoCambio = r, !.subtotal = s,
                              !.total = s + i, !.traslados = <<Iva(i)>>], p) :
        r \in {None, NaN, <<17, 1>>, <<1, 2>>, <<1, 500>>, <<0, 1>>, <<-1, 1>>},
        s \in {100, 101, 1}, i \in {0, 15, 16}, p \in Sides }

(* Payment complements. *)
Docto(u, n, pagado, taxes) ==
    [uuid |-> u, parcialidad |-> n, moneda |-> "MXN", pagado |-> pagado,
     anterior |-> None, insoluto |-> None, impuestos |-> taxes]
Taxes(traslados) == [retenciones |-> FALSE, traslados |-> traslados]
Pago(monto, doctos, taxes) ==
    [moneda |-> "MXN", monto |-> monto, doctos |-> doctos, impuestos |-> taxes]

Rep(pagos, posted, p) ==
    [Context([BaseDoc EXCEPT !.tipo = "P", !.metodo = None, !.pagos = pagos], p)
        EXCEPT !.posted = posted]

DoctoTaxes ==
    {None} \cup {Taxes(x) : x \in TaxLists \cup {<<Iva(16), Tax("003", "Tasa", NaN)>>}}
           \cup {[Taxes(<<Iva(16)>>) EXCEPT !.retenciones = TRUE]}
Summaries ==
    {None, Taxes(<<Iva(16)>>), Taxes(<<Iva(8), Tax("003", "Tasa", 8)>>), Taxes(<<Iva(None)>>),
     Taxes(<<Tax("003", "Tasa", NaN)>>), [Taxes(<<Iva(16)>>) EXCEPT !.retenciones = TRUE]}

RepTaxes ==
    { Rep(<<Pago(116, <<Docto("o1", 1, 116, x)>>, y)>>, q, p) :
        x \in DoctoTaxes, y \in Summaries, q \in {{}, {"o1"}}, p \in Sides }

RepBalances ==
    { Rep(<<Pago(m, <<[Docto("o1", 1, a, Taxes(<<Iva(16)>>)) EXCEPT
                         !.anterior = b, !.insoluto = c]>>, None)>>, {"o1"}, p) :
        m \in {116, 100, None, NaN}, a \in {116, 100, 0, -5, NaN, None},
        b \in {None, 116, 100, NaN}, c \in {0, NaN}, p \in Sides }

RepCurrencies ==
    { Rep(<<[Pago(116, <<[Docto("o1", 1, 116, None) EXCEPT !.moneda = d],
                         [Docto("o2", 1, 116, None) EXCEPT !.moneda = e]>>, None)
             EXCEPT !.moneda = m, !.monto = 232]>>, q, p) :
        d \in {"MXN", "USD"}, e \in {"MXN", "USD"}, m \in {"MXN", "USD"},
        q \in SUBSET {"o1", "o2"}, p \in Sides }

RepPayments ==
    LET D(u, n) == Docto(u, n, 116, Taxes(<<Iva(16)>>))
        Payments == { <<Pago(232, <<D(u, 1), D(v, n)>>, None)>> :
                          u \in {"o1"}, v \in {"o1", "o2"}, n \in {1, 2} }
              \cup { <<Pago(116, <<D("o1", 1)>>, None), Pago(116, <<D(v, n)>>, None)>> :
                          v \in {"o1", "o2"}, n \in {1, 2} }
              \cup { <<>>, <<Pago(116, <<>>, None)>>,
                     <<Pago(116, <<D("o1", 1)>>, None), Pago(50, <<>>, None)>> }
    IN  { Rep(x, q, p) : x \in Payments, q \in SUBSET {"o1", "o2"}, p \in Sides }

(* Credit notes. *)
Original(metodo, total, posted, moneda) ==
    [metodo |-> metodo, total |-> total, posted |-> posted, moneda |-> moneda]
Note(doc, related, p) ==
    [Context([doc EXCEPT !.tipo = "E"], p) EXCEPT !.related = [u \in {"o1"} |-> related]]
Relation(tipo, uuid) == [tipo |-> tipo, uuid |-> uuid]

NoteRelations ==
    { Note([BaseDoc EXCEPT !.relaciones = r], Original(m, 200, TRUE, "MXN"), p) :
        r \in { <<>>, <<Relation("01", "o1")>>, <<Relation("01", "o2")>>, <<Relation("04", "o1")>>,
                <<Relation("01", "o1"), Relation("01", "o2")>>,
                <<Relation("04", "o2"), Relation("01", "o1")>> },
        m \in {"PUE", "PPD", None}, p \in Perspectives }

NoteOriginals ==
    { Note([BaseDoc EXCEPT !.relaciones = <<Relation("01", "o1")>>, !.moneda = c,
                           !.descuento = d, !.total = 116 - (IF d = None THEN 0 ELSE d),
                           !.retenciones = r, !.claves = k],
           Original(m, t, b, o), p) :
        c \in {"MXN", "USD"}, d \in {None, 20}, r \in {{}, {"002"}}, k \in {<<"c1">>, <<"zz">>},
        m \in {"PUE", "PPD"}, t \in {116, 100, None}, b \in BOOLEAN, o \in {"MXN", "USD", None},
        p \in Sides }

(* Cancellations: previous holds records the engine itself decided. *)
Recorded(c, chartInForce) ==
    LET answered == [c EXCEPT !.classification =
                        ClassificationFor(c.perspective, c.doc, chartInForce)]
    IN  ToRecord(Verdict(answered, chartInForce), 1)

Histories(c) ==
    LET vigente == Recorded(c, FullChart)
        onNoIva == Recorded(c, NoIvaChart)
        unknown == Recorded([c EXCEPT !.doc.status = "UNKNOWN"], FullChart)
        second == [vigente EXCEPT !.mapping = 3, !.key = [@ EXCEPT ![5] = 3]]
    IN  {{}, {vigente}, {unknown}, {onNoIva}, {vigente, onNoIva}, {vigente, second}}

Booked ==
    { Context([BaseDoc EXCEPT !.metodo = m], p) : m \in {"PUE", "PPD"}, p \in Sides }
    \cup { Rep(<<Pago(232, <<Docto("o1", 1, 116, Taxes(<<Iva(16)>>)),
                             Docto("o1", 2, 116, Taxes(<<Iva(16)>>))>>, None)>>, {"o1"}, p) :
             p \in Sides }

Cancelled ==
    UNION { { [c EXCEPT !.doc.status = "CANCELLED", !.previous = h, !.cancelledOn = d] :
                h \in Histories(c), d \in {5, None} } : c \in Booked }
    \cup { [Context([BaseDoc EXCEPT !.status = "CANCELLED", !.uuid = None], "emitido")
              EXCEPT !.cancelledOn = d] : d \in {5, None} }

MCContexts ==
    UNION { Amounts, Retained, Identity, Foreign, RepTaxes, RepBalances, RepCurrencies,
            RepPayments, NoteRelations, NoteOriginals, Cancelled }

ProviderRate == <<3, 2>>
=============================================================================
