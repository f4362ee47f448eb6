----------------------------- MODULE MCAccounting ----------------------------
(***************************************************************************)
(* Small books for the accounting stage: an invoice on credit, the payment *)
(* that settles it, a credit note against it, the same invoice in the      *)
(* books of the client that received it.                                   *)
(***************************************************************************)
EXTENDS Accounting, TLC

Iva == [impuesto |-> "002", factor |-> "Tasa", importe |-> 16]

Doc ==
    [tipo |-> "I", metodo |-> "PPD", fecha |-> 1, uuid |-> "inv", hash |-> "hi",
     moneda |-> "MXN", tipoCambio |-> None, subtotal |-> 100, descuento |-> None,
     total |-> 116, traslados |-> <<Iva>>, retenciones |-> {}, pagos |-> None,
     relaciones |-> <<>>, claves |-> <<"c1">>, flags |-> {}, status |-> "UNKNOWN"]

Settlement ==
    [moneda |-> "MXN", monto |-> 116, impuestos |-> None,
     doctos |-> <<[uuid |-> "inv", parcialidad |-> 1, moneda |-> "MXN", pagado |-> 116,
                   anterior |-> 116, insoluto |-> 0,
                   impuestos |-> [retenciones |-> FALSE, traslados |-> <<Iva>>]]>>]

Payment ==
    [Doc EXCEPT !.tipo = "P", !.metodo = None, !.uuid = "rep", !.hash = "hp",
                !.pagos = <<Settlement>>]

CreditNoteDoc ==
    [Doc EXCEPT !.tipo = "E", !.metodo = None, !.uuid = "note", !.hash = "hn",
                !.relaciones = <<[tipo |-> "01", uuid |-> "inv"]>>]

InBooks(contributor, perspective, doc) ==
    [contributor |-> contributor, perspective |-> perspective, doc |-> doc]

OneInvoice == {InBooks("alice", "emitido", Doc)}
TwoBooks == OneInvoice \cup {InBooks("bob", "recibido", Doc)}
Collected == OneInvoice \cup {InBooks("alice", "emitido", Payment)}
Settled == Collected \cup {InBooks("alice", "emitido", CreditNoteDoc)}

Roles ==
    {"clientes", "proveedores", "clearing", "ingresos", "gasto",
     "iva_trasladado_no_cobrado", "iva_trasladado_cobrado", "iva_acred_pendiente"}

\* A role's account carries the version, so that charts are told apart.
ChartOf(version) ==
    [version |-> version, accounts |-> [r \in Roles |-> <<version, r>>],
     classification |-> [c \in {"c1"} |-> "gasto"]]

OneChart == {ChartOf(1)}
TwoCharts == {ChartOf(1), ChartOf(2)}

Observed(status, cancelledOn) == [status |-> status, cancelledOn |-> cancelledOn]

MCObservations == {Observed("VIGENTE", None), Observed("CANCELLED", 5)}

WorkerSymmetry == Permutations(Workers)

\* One of two ways through the books: two workers, two charts and a clock over
\* the invoice, of which the second chart is only in force at the first instant,
\* or one worker over all three documents in any order.
OfTheInvoice ==
    /\ archive \subseteq {"inv"}
    /\ \A b \in Books : b[2] # "inv" => snapshots[b] = <<>>
    /\ clock > 0 => \A c \in Contributors : charts[c] \in OneChart \cup {None}

OfOneWorker ==
    /\ clock = 0
    /\ \A b \in Books : b[2] # "inv" => Len(snapshots[b]) <= 1
    /\ \A c \in Contributors : charts[c] \in OneChart \cup {None}
    /\ \A r \in journal : r.mapping = 1
    /\ Cardinality({w \in Workers : workers[w].pc = "idle"}) + 1 >= Cardinality(Workers)

FocusedSpec == Init /\ [][Next /\ (OfTheInvoice \/ OfOneWorker)']_vars

\* The client that received the invoice is told its status once.
ReceiverIsToldOnce == \A b \in Books : b[1] = "bob" => Len(snapshots[b]) <= 1

LiveSpec == Init /\ [][Next /\ ReceiverIsToldOnce']_vars /\ Fairness
=============================================================================
