------------------------------ MODULE MCIntake -------------------------------
(***************************************************************************)
(* Small intakes: two processes that open a database of any version, one   *)
(* of which onboards a client; two onboardings of one client, or one and a *)
(* run; two runs over one document, one of them with a copy of other       *)
(* bytes, with two reviewers; one run over one document of any content.    *)
(***************************************************************************)
EXTENDS Intake

CONSTANTS o1, o2, r1, r2

MCRfcs == {"alice", "bob", "carol", "XAXX010101000"}
MCUuids == {"u1", "u2"}

Invoice ==
    [satcfdi |-> "cfdi", required |-> TRUE, malformed |-> {}, version |-> "4.0", tipo |-> "I",
     moneda |-> "MXN", total |-> 1, rep |-> NONE, uuid |-> "u1", emisor |-> "alice",
     receptor |-> "bob", sellos |-> TRUE, validation |-> "accepted"]

Doubtful == [Invoice EXCEPT !.moneda = "JPY", !.validation = "rejected"]
Twisted == [Invoice EXCEPT !.receptor = "carol"]
Second == [Invoice EXCEPT !.uuid = "u2", !.validation = "unavailable"]
Unsigned == [Invoice EXCEPT !.sellos = FALSE]
Broken == [Invoice EXCEPT !.satcfdi = "not_xml"]

\* Each feature of a document varied, alone or with the one it interacts with.
Variants ==
    {[Invoice EXCEPT !.satcfdi = s, !.required = q] :
        s \in {"cfdi", "refused", "other_root", "not_xml"}, q \in BOOLEAN}
    \cup {[Invoice EXCEPT !.malformed = {m}, !.version = v, !.moneda = c, !.rep = "MXN"] :
        m \in Texts, v \in {"4.0", "3.3"}, c \in {"MXN", "JPY"}}
    \cup {[Invoice EXCEPT !.tipo = "P", !.moneda = c, !.total = n, !.rep = p, !.malformed = m] :
        c \in {"MXN", "XXX"}, n \in {0, 1}, p \in {"MXN", "JPY"}, m \in {{}, {"header"}}}
    \cup {[Invoice EXCEPT !.emisor = e, !.receptor = p] :
        e \in {"alice", "bob"}, p \in {"alice", "bob", "carol", "XAXX010101000"}}
    \cup {[Invoice EXCEPT !.sellos = s, !.validation = v] :
        s \in BOOLEAN, v \in {"accepted", "rejected", "no_path", "unavailable"}}
    \cup {[Invoice EXCEPT !.uuid = u, !.version = v] : u \in {NONE, "u2"}, v \in {"4.0", "3.3"}}

Stored(name, xml) == [name |-> name, stored |-> TRUE, bytes |-> xml]

Batch(client, artifacts) == [client |-> client, artifacts |-> artifacts]

One(xml, name) == Batch("alice", <<Stored(name, xml)>>)

Singles ==
    {One(xml, "u1") : xml \in Variants} \cup {One(Invoice, "notes"), Batch("alice", <<>>)}
    \cup {Batch("XAXX010101000", <<Stored("u1", Invoice)>>),
          Batch("alice", <<[Stored("u1", Invoice) EXCEPT !.stored = FALSE]>>)}

Doubted == Stored("u1", Doubtful)
Copy == Stored("u1", Twisted)
Other == Stored("u2", Second)

\* One document of two clients, of which the second has a copy of other bytes too.
OfAlice == Batch("alice", <<Doubted>>)
OfBoth == Batch("bob", <<Copy, Doubted>>)

UnreadableFirst == Batch("alice", <<Stored("u1", Broken), Other>>)

MCBatches == {UnreadableFirst, OfAlice, OfBoth} \cup Singles

Constancia(sha, rfc, facts, obligations) ==
    [sha |-> sha, readable |-> TRUE, rfc |-> rfc, facts |-> facts, obligations |-> obligations]

Asked(client, cert, csf) == [client |-> client, cert |-> cert, csf |-> csf]

First == Asked("alice", "alice", Constancia("c1", "alice", "f1", 2))
Renewed == Asked("alice", "alice", Constancia("c2", "alice", "f2", 1))
Stranger == Asked("alice", "bob", Constancia("c1", "alice", "f1", 2))
Illegible == Asked("alice", "alice", [Constancia("c3", "alice", "f3", 0) EXCEPT !.readable = FALSE])
OfBob == Asked("bob", "bob", Constancia("c4", "bob", "f4", 0))
OfAnyone == Asked("XAXX010101000", "XAXX010101000", Constancia("c5", "XAXX010101000", "f5", 0))

MCConstancias == {First, Renewed, Stranger, Illegible, OfBob, OfAnyone}

Calls(confirmed, a, b, x, y) ==
    InitWith(SCHEMA_VERSION, SCHEMA_VERSION, [p \in Processes |-> "open"], confirmed,
             [o \in Onboardings |-> IF o = o1 THEN a ELSE b],
             [r \in Runs |-> IF r = r1 THEN x ELSE y])

Onboarded == {First, OfBob, OfAnyone}

NoCalls(processes) == [p \in processes |-> None]

\* o1 and r1 open the database; the others stay away.
Opened(database) ==
    InitWith(database[1], database[2],
             [p \in Processes |-> IF p \in {o1, r1} THEN "closed" ELSE "away"], {},
             [NoCalls(Onboardings) EXCEPT ![o1] = First], NoCalls(Runs))

MCInit ==
    \/ \E database \in Databases : Opened(database)
    \/ \E a \in {First, Renewed, Stranger, Illegible} : Calls({}, First, a, None, None)
    \/ Calls({}, First, None, One(Invoice, "u1"), None)
    \/ Calls(Onboarded, None, None, OfAlice, OfBoth)
    \/ Calls(Onboarded, None, None, One(Invoice, "u1"), One(Invoice, "u1"))
    \/ \E batch \in Singles : Calls(Onboarded, None, None, batch, None)

MCSpec == MCInit /\ [][Next]_vars /\ Fairness

\* The batch that begins with bytes no CFDI can be read from, run again each
\* time its run is over, and nothing else goes wrong.
StartAgain == Start(r1) /\ UNCHANGED <<clock, schemaVars, onboardingVars>>

RunAgain == Work(r1) \/ StartAgain \/ Passes

UnreadableSpec ==
    /\ Calls(Onboarded, None, None, UnreadableFirst, None)
    /\ [][RunAgain]_vars
    /\ WF_vars(Work(r1)) /\ WF_vars(StartAgain)

\* "None of the three stops the batch" (process_documents.py:20): the readable
\* document after an unreadable one is filed in the end.
ReadableIsFiled == <>(documents["u2"] # None)
=============================================================================
