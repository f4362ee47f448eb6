------------------------- MODULE PostingEngineProofs --------------------------
(***************************************************************************)
(* What the engine decides for any document, context and chart.  The       *)
(* invariant says that what it holds is an answer of the rules put through *)
(* the gate; the rest follows the one rule that answers from what it reads *)
(* of the document to the legs it writes: which row claims, what an income *)
(* books, what a credit note and a reversal take back, what a payment      *)
(* complement moves, what a conversion leaves of it; last, that whatever   *)
(* is answered can be constructed and recorded.                            *)
(***************************************************************************)
EXTENDS PostingEngine, PostingProofs, FiniteSetTheorems

(*************************** Who answers alone *****************************)

\* Two rows of one table that claim a document are one row.
LEMMA IncomeClaimsOnce ==
    ASSUME NEW c, NEW r \in INCOME_ROWS, NEW s \in INCOME_ROWS,
           IncomeClaims(c, r), IncomeClaims(c, s)
    PROVE  r = s
<1>1. r.perspective = s.perspective /\ r.metodo = s.metodo
  BY DEF IncomeClaims
<1>2. QED
  BY <1>1, SMTT(60) DEF INCOME_ROWS, IncomeRow

LEMMA RepClaimsOnce ==
    ASSUME NEW c, NEW r \in REP_ROWS, NEW s \in REP_ROWS, RepClaims(c, r), RepClaims(c, s)
    PROVE  r = s
<1>1. r.perspective = s.perspective
  BY DEF RepClaims
<1>2. QED
  BY <1>1, SMTT(60) DEF REP_ROWS, RepRow

LEMMA CreditNoteClaimsOnce ==
    ASSUME NEW c, NEW r \in CREDIT_NOTE_ROWS, NEW s \in CREDIT_NOTE_ROWS,
           CreditNoteClaims(c, r), CreditNoteClaims(c, s)
    PROVE  r = s
<1>1. r.perspective = s.perspective /\ r.metodo = s.metodo
  BY DEF CreditNoteClaims
<1>2. QED
  BY <1>1, SMTT(60) DEF CREDIT_NOTE_ROWS, CreditNoteRow

\* Each table answers for one kind of document.
LEMMA ClaimsByKind ==
    ASSUME NEW c
    PROVE  /\ \A r \in ClaimingRows(c) :
                 \/ c.doc.tipo = "I" /\ r \in INCOME_ROWS /\ IncomeClaims(c, r)
                 \/ c.doc.tipo = "P" /\ r \in REP_ROWS /\ RepClaims(c, r)
                 \/ c.doc.tipo = "E" /\ r \in CREDIT_NOTE_ROWS /\ CreditNoteClaims(c, r)
           /\ OutOfScope(c) => c.doc.tipo \in {"N", "T", "R"}
           /\ Drafted(c) => c.doc.tipo \in {"N", "R"}
<1>1. OutOfScope(c) => c.doc.tipo \in {"N", "T", "R"}
  BY DEF OutOfScope, OUT_OF_SCOPE_RULES, Case, CaseClaims
<1>2. Drafted(c) => c.doc.tipo \in {"N", "R"}
  BY DEF Drafted, DRAFT_RULES, Case, CaseClaims
<1>3. \A r : /\ IncomeClaims(c, r) => c.doc.tipo = "I"
             /\ RepClaims(c, r) => c.doc.tipo = "P"
             /\ CreditNoteClaims(c, r) => c.doc.tipo = "E"
  BY DEF IncomeClaims, RepClaims, CreditNoteClaims
<1>4. QED
  BY <1>1, <1>2, <1>3 DEF ClaimingRows

LEMMA AtMostOneRowClaims ==
    ASSUME NEW c
    PROVE  Cardinality(ClaimingRows(c)) <= 1
<1>1. ASSUME NEW r \in ClaimingRows(c), NEW s \in ClaimingRows(c)
      PROVE  r = s
  BY ClaimsByKind, IncomeClaimsOnce, RepClaimsOnce, CreditNoteClaimsOnce
<1>2. CASE ClaimingRows(c) = {}
  BY <1>2, FS_EmptySet
<1>3. CASE ClaimingRows(c) # {}
  <2>1. PICK r \in ClaimingRows(c) : ClaimingRows(c) = {r}
    BY <1>1, <1>3
  <2>2. QED
    BY <2>1, FS_Singleton
<1>4. QED
  BY <1>2, <1>3

\* A note is no payment and no income: kinds do not meet.
LEMMA SkipsAndDraftsAreApart ==
    ASSUME NEW c
    PROVE  /\ OutOfScope(c) \/ Drafted(c) => ClaimingRows(c) = {}
           /\ ~ (OutOfScope(c) /\ Drafted(c))
<1>1. OutOfScope(c) \/ Drafted(c) => ClaimingRows(c) = {}
  BY ClaimsByKind
<1>2. ~ (OutOfScope(c) /\ Drafted(c))
  BY DEF OutOfScope, Drafted, OUT_OF_SCOPE_RULES, DRAFT_RULES, Case, CaseClaims
<1>3. QED
  BY <1>1, <1>2

(***************************** Turned legs *********************************)

\* The other side of a leg.
Turned(leg) == [leg EXCEPT !.side = Opposite(@)]

LEMMA TurnedLine ==
    ASSUME NEW role, NEW key, NEW side, NEW amount
    PROVE  Turned(JournalLine(role, key, side, amount))
             = JournalLine(role, key, Opposite(side), amount)
BY DEF Turned, JournalLine

LEMMA TurnedPair ==
    ASSUME NEW x, NEW y
    PROVE  {Turned(<<x, y>>[i]) : i \in DOMAIN <<x, y>>} = {Turned(x), Turned(y)}
           /\ ToSet(<<x, y>>) = {x, y}
<1>1. DOMAIN <<x, y>> = 1..2 /\ <<x, y>>[1] = x /\ <<x, y>>[2] = y
  OBVIOUS
<1>2. 1..2 = {1, 2}
  OBVIOUS
<1> DEFINE s == <<x, y>>
<1> HIDE DEF s
<1>3. {Turned(s[i]) : i \in DOMAIN s} = {Turned(x), Turned(y)} /\ ToSet(s) = {x, y}
  BY <1>1, <1>2 DEF ToSet, s
<1>4. QED
  BY <1>3 DEF s

LEMMA TurnedTriple ==
    ASSUME NEW x, NEW y, NEW z
    PROVE  {Turned(<<x, y, z>>[i]) : i \in DOMAIN <<x, y, z>>} = {Turned(x), Turned(y), Turned(z)}
           /\ ToSet(<<x, y, z>>) = {x, y, z}
<1>1. /\ DOMAIN <<x, y, z>> = 1..3
      /\ <<x, y, z>>[1] = x /\ <<x, y, z>>[2] = y /\ <<x, y, z>>[3] = z
  OBVIOUS
<1>2. 1..3 = {1, 2, 3}
  OBVIOUS
<1> DEFINE s == <<x, y, z>>
<1>3. DOMAIN s = {1, 2, 3} /\ s[1] = x /\ s[2] = y /\ s[3] = z
  BY <1>1, <1>2
<1> HIDE DEF s
<1>4. {Turned(s[i]) : i \in DOMAIN s} = {Turned(x), Turned(y), Turned(z)} /\ ToSet(s) = {x, y, z}
  BY <1>3 DEF ToSet
<1>5. QED
  BY <1>4 DEF s

(*************************** The credit notes ******************************)

LEMMA CreditNoteIds ==
    ASSUME NEW r \in CREDIT_NOTE_ROWS, NEW s \in CREDIT_NOTE_ROWS, r.id = s.id
    PROVE  r = s
BY SMTT(60) DEF CREDIT_NOTE_ROWS, CreditNoteRow

\* A note's row and the income row it mirrors name the same accounts, and move
\* the money on opposite sides.
LEMMA MirrorOfRow ==
    ASSUME NEW note \in CREDIT_NOTE_ROWS
    PROVE  LET row == MirroredRow(note)
           IN  /\ row.perspective = note.perspective
               /\ row.moneyRole = note.moneyRole /\ row.moneyKey = note.moneyKey
               /\ row.ivaRole = note.ivaRole
               /\ note.moneySide = IF note.perspective = "emitido" THEN HABER ELSE DEBE
               /\ note.perspective \in {"emitido", "recibido"}
<1>1. \E r \in INCOME_ROWS : r.perspective = note.perspective /\ r.metodo = note.metodo
  BY SMTT(60) DEF INCOME_ROWS, IncomeRow, CREDIT_NOTE_ROWS, CreditNoteRow
<1>2. ASSUME NEW r \in INCOME_ROWS, r.perspective = note.perspective, r.metodo = note.metodo
      PROVE  /\ r.moneyRole = note.moneyRole /\ r.moneyKey = note.moneyKey
             /\ r.ivaRole = note.ivaRole
  BY <1>2, SMTT(60) DEF INCOME_ROWS, IncomeRow, CREDIT_NOTE_ROWS, CreditNoteRow
<1>3. /\ note.moneySide = IF note.perspective = "emitido" THEN HABER ELSE DEBE
      /\ note.perspective \in {"emitido", "recibido"}
  BY SMTT(60) DEF CREDIT_NOTE_ROWS, CreditNoteRow, HABER, DEBE
<1>4. QED
  BY <1>1, <1>2, <1>3 DEF MirroredRow

\* The legs of a note are the legs its income row would write, turned round.
LEMMA NoteLegsAreTurned ==
    ASSUME NEW c, NEW note \in CREDIT_NOTE_ROWS
    PROVE  LET row == MirroredRow(note)
               original == IF row.perspective = "emitido" THEN IssuedEntry(c, row)
                                                          ELSE PurchaseEntry(c, row)
               legs == original.entry.lines
           IN  ToSet(CreditNoteLegs(c, note)) = {Turned(legs[i]) : i \in DOMAIN legs}
<1> DEFINE row == MirroredRow(note)
           original == IF row.perspective = "emitido" THEN IssuedEntry(c, row)
                                                      ELSE PurchaseEntry(c, row)
           legs == original.entry.lines
           role == IF note.perspective = "recibido" THEN c.classification.role ELSE "ingresos"
           money(side) == JournalLine(note.moneyRole, note.moneyKey, side, c.doc.total)
           base(side) == JournalLine(role, <<"base">>, side, NetBase(c.doc))
           iva(side) == JournalLine(note.ivaRole, <<"iva">>, side, IvaTraslado(c.doc))
           taxed == IvaTraslado(c.doc) > 0
           noteLegs == CreditNoteLegs(c, note)
<1>1. /\ Opposite(DEBE) = HABER /\ Opposite(HABER) = DEBE /\ HABER # DEBE
  BY DEF Opposite, DEBE, HABER
<1>2. /\ row.perspective = note.perspective
      /\ row.moneyRole = note.moneyRole /\ row.moneyKey = note.moneyKey
      /\ row.ivaRole = note.ivaRole
      /\ note.moneySide = IF note.perspective = "emitido" THEN HABER ELSE DEBE
      /\ note.perspective \in {"emitido", "recibido"}
  BY MirrorOfRow, Zenon
<1> HIDE DEF row
<1>3. \A side : /\ Turned(money(side)) = money(Opposite(side))
                /\ Turned(base(side)) = base(Opposite(side))
                /\ Turned(iva(side)) = iva(Opposite(side))
  <2>1. TAKE side
  <2>2. Turned(money(side)) = money(Opposite(side))
    BY TurnedLine
  <2>3. Turned(base(side)) = base(Opposite(side))
    BY TurnedLine
  <2>4. Turned(iva(side)) = iva(Opposite(side))
    BY TurnedLine
  <2>5. QED
    BY <2>2, <2>3, <2>4
<1>4. \A side : IvaLeg(note.ivaRole, side, c.doc) = IF taxed THEN <<iva(side)>> ELSE <<>>
  BY DEF IvaLeg
<1>5. CASE note.perspective = "emitido"
  <2>1. noteLegs = <<money(HABER), base(DEBE)>> \o IvaLeg(note.ivaRole, DEBE, c.doc)
    BY <1>1, <1>2, <1>5 DEF CreditNoteLegs
  <2>2. legs = <<money(DEBE), base(HABER)>> \o IvaLeg(note.ivaRole, HABER, c.doc)
    BY <1>2, <1>5 DEF IssuedEntry, IncomeEntry, Propose, ProposedJournalEntry
  <2> HIDE DEF noteLegs, legs, money, base, iva, taxed
  <2>3. CASE taxed
    <3>1. /\ noteLegs = <<money(HABER), base(DEBE), iva(DEBE)>>
          /\ legs = <<money(DEBE), base(HABER), iva(HABER)>>
      BY <1>4, <2>1, <2>2, <2>3, Appended
    <3>2. ToSet(noteLegs) = {money(HABER), base(DEBE), iva(DEBE)}
      BY <3>1, TurnedTriple
    <3>3. {Turned(legs[i]) : i \in DOMAIN legs}
            = {Turned(money(DEBE)), Turned(base(HABER)), Turned(iva(HABER))}
      BY <3>1, TurnedTriple
    <3>4. QED
      BY <1>1, <1>3, <3>2, <3>3 DEF noteLegs, legs, row
  <2>4. CASE ~ taxed
    <3>1. /\ noteLegs = <<money(HABER), base(DEBE)>>
          /\ legs = <<money(DEBE), base(HABER)>>
      BY <1>4, <2>1, <2>2, <2>4, NothingAfterTwo
    <3>2. ToSet(noteLegs) = {money(HABER), base(DEBE)}
      BY <3>1, TurnedPair
    <3>3. {Turned(legs[i]) : i \in DOMAIN legs} = {Turned(money(DEBE)), Turned(base(HABER))}
      BY <3>1, TurnedPair
    <3>4. QED
      BY <1>1, <1>3, <3>2, <3>3 DEF noteLegs, legs, row
  <2>5. QED
    BY <2>3, <2>4
<1>6. CASE note.perspective = "recibido"
  <2>1. noteLegs = <<money(DEBE), base(HABER)>> \o IvaLeg(note.ivaRole, HABER, c.doc)
    BY <1>1, <1>2, <1>6 DEF CreditNoteLegs
  <2>2. legs = <<base(DEBE)>> \o IvaLeg(note.ivaRole, DEBE, c.doc) \o <<money(HABER)>>
    BY <1>2, <1>6 DEF PurchaseEntry, IncomeEntry, Propose, ProposedJournalEntry
  <2> HIDE DEF noteLegs, legs, money, base, iva, taxed
  <2>3. CASE taxed
    <3>1. /\ noteLegs = <<money(DEBE), base(HABER), iva(HABER)>>
          /\ legs = <<base(DEBE), iva(DEBE), money(HABER)>>
      <4>1. <<base(DEBE)>> \o <<iva(DEBE)>> = <<base(DEBE), iva(DEBE)>>
        BY Joined
      <4>2. legs = <<base(DEBE), iva(DEBE)>> \o <<money(HABER)>>
        BY <1>4, <2>2, <2>3, <4>1
      <4>3. <<base(DEBE), iva(DEBE)>> \o <<money(HABER)>> = <<base(DEBE), iva(DEBE), money(HABER)>>
        BY Appended
      <4>4. noteLegs = <<money(DEBE), base(HABER)>> \o <<iva(HABER)>>
        BY <1>4, <2>1, <2>3
      <4>5. <<money(DEBE), base(HABER)>> \o <<iva(HABER)>> = <<money(DEBE), base(HABER), iva(HABER)>>
        BY Appended
      <4>6. QED
        BY <4>2, <4>3, <4>4, <4>5
    <3>2. ToSet(noteLegs) = {money(DEBE), base(HABER), iva(HABER)}
      BY <3>1, TurnedTriple
    <3>3. {Turned(legs[i]) : i \in DOMAIN legs}
            = {Turned(base(DEBE)), Turned(iva(DEBE)), Turned(money(HABER))}
      BY <3>1, TurnedTriple
    <3>4. QED
      BY <1>1, <1>3, <3>2, <3>3 DEF noteLegs, legs, row
  <2>4. CASE ~ taxed
    <3>1. /\ noteLegs = <<money(DEBE), base(HABER)>>
          /\ legs = <<base(DEBE), money(HABER)>>
      <4>1. /\ IvaLeg(note.ivaRole, DEBE, c.doc) = <<>>
            /\ IvaLeg(note.ivaRole, HABER, c.doc) = <<>>
        BY <1>4, <2>4
      <4>2. noteLegs = <<money(DEBE), base(HABER)>>
        BY <2>1, <4>1, NothingAfterTwo
      <4>3. <<base(DEBE)>> \o <<>> = <<base(DEBE)>>
        BY NothingAfterOne
      <4>4. <<base(DEBE)>> \o <<money(HABER)>> = <<base(DEBE), money(HABER)>>
        BY Joined
      <4>5. QED
        BY <2>2, <4>1, <4>2, <4>3, <4>4
    <3>2. ToSet(noteLegs) = {money(DEBE), base(HABER)}
      BY <3>1, TurnedPair
    <3>3. {Turned(legs[i]) : i \in DOMAIN legs} = {Turned(base(DEBE)), Turned(money(HABER))}
      BY <3>1, TurnedPair
    <3>4. QED
      BY <1>1, <1>3, <3>2, <3>3 DEF noteLegs, legs, row
  <2>5. QED
    BY <2>3, <2>4
<1>7. QED
  BY <1>2, <1>5, <1>6

(***************************** One answer **********************************)

\* A cancelled source is answered under the two rules of cancellations.
LEMMA CancellationRule ==
    ASSUME NEW c
    PROVE  UnderRules(Cancellation(c), {"4.15a", "4.15b"})
<1>1. UnderRules(CancellationSkip(c), {"4.15a", "4.15b"})
  <2>1. CASE CancellationFlags(c) # {}
    BY <2>1 DEF CancellationSkip, ReviewRequest, UnderRules
  <2>2. CASE CancellationFlags(c) = {}
    <3>1. UnderRules(CancellationSkip(c), {RULE_4_15A.id})
      BY <2>2, ProposeRule, Zenon DEF CancellationSkip
    <3>2. QED
      BY <3>1, RuleIds DEF UnderRules
  <2>3. QED
    BY <2>1, <2>2
<1>2. ASSUME NEW record
      PROVE  UnderRules(Reversal(c, record), {"4.15a", "4.15b"})
  <2>1. UnderRules(ReviewRequest(None, {"MISSING_SOURCE_FIELD"}, NoAccounts), {"4.15a", "4.15b"})
    BY DEF ReviewRequest, UnderRules
  <2>2. UnderRules(Raise, {"4.15a", "4.15b"})
    BY DEF Raise, UnderRules
  <2>3. UnderRules(ReviewRequest(
            ProposedJournalEntry(RULE_4_15B, c, record.source, record.hash,
                                 c.cancelledOn, ReversedLegs(record.lines), {}),
            {"CANCELLED_AFTER_POSTING"}, HistoricalAccounts(record)), {"4.15a", "4.15b"})
    BY RuleIds DEF ReviewRequest, ProposedJournalEntry, UnderRules
  <2>4. QED
    BY <2>1, <2>2, <2>3, Zenon DEF Reversal
<1>3. UnderRules(Raise, {"4.15a", "4.15b"})
  BY DEF Raise, UnderRules
<1>4. QED
  BY <1>1, <1>2, <1>3, Zenon DEF Cancellation

\* What the engine decided: an answer of the rules, put through the gate.
Answered(c, m, v) ==
    /\ ProposeFor(c).kind \in {"skip", "review", "propose"}
    /\ v = Decide(c, ProposeFor(c), m)

LEMMA DecidedIsAnswered ==
    ASSUME NEW c, NEW m, Verdict(c, m).state # RAISED
    PROVE  Answered(c, m, Verdict(c, m))
<1>1. ProposeFor(c).kind \in {"skip", "review", "raise", "propose"}
  BY ProposalIdentity DEF ProposesAbout
<1>2. ProposeFor(c).kind # "raise"
  BY DEF Verdict
<1>3. QED
  BY <1>1, <1>2 DEF Verdict, Answered

\* An entry is decided under the id of the rule that wrote it, so an entry of a
\* credit note's row is that row's review.
LEMMA NoteDecision ==
    ASSUME NEW c, NEW m, NEW v, Answered(c, m, v), v.entry # None,
           NEW note \in CREDIT_NOTE_ROWS, v.entry.rule = note.id
    PROVE  ProposeFor(c) = CreditNote(c, note) /\ v.state = "PROPOSED"
             /\ v.entry = CreditNote(c, note).entry
<1> DEFINE answer == ProposeFor(c)
<1>1. /\ answer.kind \in {"skip", "review", "propose"}
      /\ v = Decide(c, answer, m) /\ Decide(c, answer, m).entry # None
  BY DEF Answered
<1>2. note.id \in {"4.6", "4.7", "4.8", "4.9"}
  BY RuleIds
<1>3. \A ids : UnderRules(answer, ids) => note.id \in ids
  <2> HIDE DEF answer
  <2>1. QED
    BY <1>1, DecisionKeepsTheRule
<1>4. answer # Cancellation(c)
  BY <1>2, <1>3, CancellationRule
<1>5. ~ UnderRules(answer, OTHER_RULE_IDS)
  BY <1>2, <1>3 DEF OTHER_RULE_IDS
<1>6. ASSUME NEW row \in REP_ROWS
      PROVE  answer # RepRule(c, row)
  <2>1. UnderRules(RepRule(c, row), {row.id})
    BY RowsAnswerAsThemselves
  <2>2. row.id \in {"4.5a", "4.5b"}
    BY RuleIds
  <2>3. QED
    BY <1>2, <1>3, <2>1, <2>2
<1>7. PICK row \in CREDIT_NOTE_ROWS : answer = CreditNote(c, row)
  BY <1>4, <1>5, <1>6, WhoAnswers, Zenon
<1>8. row.id = note.id
  <2>1. UnderRules(answer, {row.id})
    BY <1>7, RowsAnswerAsThemselves
  <2>2. note.id \in {row.id}
    BY <1>3, <2>1
  <2>3. QED
    BY <2>2
<1>9. row = note
  BY <1>8, CreditNoteIds
<1>10. answer.kind = "review" /\ answer = CreditNote(c, note)
  BY <1>7, <1>9, NeverProposed
<1> HIDE DEF answer
<1>11. v.state = "PROPOSED" /\ v.entry = answer.entry
  BY <1>1, <1>10 DEF Decide, DecideReview, PostingDecision
<1>12. QED
  BY <1>10, <1>11 DEF answer

\* A credit note's entry has legs only as the mirror writes them.
LEMMA NoteLines ==
    ASSUME NEW c, NEW note, CreditNote(c, note).entry # None, CreditNote(c, note).entry.lines # <<>>
    PROVE  CreditNote(c, note).entry.lines = CreditNoteLegs(c, note)
<1>1. ASSUME NEW flags, NEW lines, Review(c, note, flags, lines).entry # None
      PROVE  Review(c, note, flags, lines).entry.lines = lines
  BY <1>1 DEF Review, ReviewRequest, ProposedJournalEntry
<1>2. QED
  BY <1>1, Zenon DEF CreditNote

TakesBack(v, c, note) ==
    LET row == MirroredRow(note)
        original == IF row.perspective = "emitido" THEN IssuedEntry(c, row)
                                                   ELSE PurchaseEntry(c, row)
        legs == original.entry.lines
    IN  /\ v.state = "PROPOSED"
        /\ ToSet(v.entry.lines) = {[legs[i] EXCEPT !.side = Opposite(@)] : i \in DOMAIN legs}

LEMMA NoteMirrors ==
    ASSUME NEW c, NEW m, NEW v, Answered(c, m, v), v.entry # None,
           NEW note \in CREDIT_NOTE_ROWS, v.entry.rule = note.id, v.entry.lines # <<>>
    PROVE  TakesBack(v, c, note)
<1>1. v.state = "PROPOSED" /\ v.entry = CreditNote(c, note).entry
  BY NoteDecision, Zenon
<1>2. v.entry.lines = CreditNoteLegs(c, note)
  BY <1>1, NoteLines, Zenon
<1>3. QED
  BY <1>1, <1>2, NoteLegsAreTurned DEF Turned, TakesBack

(************************** The engine's invariant *************************)

\* A verdict is the one the engine gives of the context in hand; the context
\* is one of those asked, with its own document, classified for the chart.
IInv ==
    /\ chart \in Charts
    /\ \E c \in Contexts :
          ctx = [c EXCEPT !.classification = ClassificationFor(c.perspective, c.doc, chart)]
    /\ verdict = None \/ verdict = Verdict(ctx, chart)

LEMMA EngineInvariant == Spec => []IInv
<1>1. Init => IInv
  BY DEF Init, IInv
<1>2. IInv /\ [Next]_vars => IInv'
  BY DEF IInv, Next, Answer, vars
<1>3. QED
  BY <1>1, <1>2, PTL DEF Spec

LEMMA WhatIsDecided ==
    ASSUME IInv, Decided
    PROVE  Answered(ctx, chart, verdict)
BY DecidedIsAnswered DEF IInv, Decided

\* No document is claimed by two rows, or by a row and by a table of skips or
\* drafts, so the order of the registry (posting.py:343) decides nothing.
THEOREM RowsNeverCompete == Spec => []RowsAreDisjoint
<1>1. RowsAreDisjoint
  BY AtMostOneRowClaims, SkipsAndDraftsAreApart, Zenon DEF RowsAreDisjoint
<1>2. QED
  BY <1>1, PTL

\* Whatever a credit note states, the legs it proposes are those of the row of
\* its original, each on the other side (credit_notes.py).
THEOREM NotesMirrorOriginals == Spec => []CreditNoteMirrorsOriginal
<1>1. IInv => CreditNoteMirrorsOriginal
  <2>1. SUFFICES ASSUME IInv, HasEntry, Lines # <<>>,
                        \E r \in CREDIT_NOTE_ROWS : r.id = verdict.entry.rule
                 PROVE  CreditNoteMirrorsOriginal
    BY DEF CreditNoteMirrorsOriginal
  <2> DEFINE note == CHOOSE r \in CREDIT_NOTE_ROWS : r.id = verdict.entry.rule
  <2>2. note \in CREDIT_NOTE_ROWS /\ note.id = verdict.entry.rule
    BY <2>1
  <2>3. Answered(ctx, chart, verdict) /\ verdict.entry # None /\ verdict.entry.lines # <<>>
    BY <2>1, WhatIsDecided DEF HasEntry, Lines
  <2> HIDE DEF note
  <2>4. TakesBack(verdict, ctx, note)
    BY <2>2, <2>3, NoteMirrors, Zenon
  <2>5. QED
    BY <2>4, Zenon DEF CreditNoteMirrorsOriginal, Lines, TakesBack, note
<1>2. QED
  BY <1>1, EngineInvariant, PTL

(*************************** Totals of few legs ****************************)

\* What a leg adds to a side, and what it adds to the roles asked for.
Part(leg, side) == IF leg.side = side THEN leg.amount ELSE 0
OfRoles(leg, roles) ==
    [side |-> leg.side, amount |-> IF leg.role \in roles THEN leg.amount ELSE 0]

LEMMA TwoLegs ==
    ASSUME NEW k, NEW l, NEW side, k.amount \in Amount, l.amount \in Amount
    PROVE  SideTotal(<<k, l>>, side) = Plus(Part(k, side), Part(l, side))
<1> DEFINE lines == <<k, l>>
           parts == [i \in DOMAIN lines |-> IF lines[i].side = side THEN lines[i].amount ELSE 0]
<1>1. parts = <<Part(k, side), Part(l, side)>>
  <2>1. DOMAIN lines = 1..2 /\ lines[1] = k /\ lines[2] = l
    OBVIOUS
  <2>2. \A i \in 1..2 : i = 1 \/ i = 2
    OBVIOUS
  <2> HIDE DEF lines
  <2>3. \A i \in 1..2 : parts[i] = <<Part(k, side), Part(l, side)>>[i]
    BY <2>1, <2>2 DEF Part
  <2>4. QED
    BY <2>1, <2>3
<1>2. Part(k, side) \in Amount /\ Part(l, side) \in Amount
  BY DEF Part, Amount
<1>3. QED
  BY <1>1, <1>2, SumOfTwo DEF SideTotal

LEMMA ThreeLegs ==
    ASSUME NEW j, NEW k, NEW l, NEW side,
           j.amount \in Amount, k.amount \in Amount, l.amount \in Amount
    PROVE  SideTotal(<<j, k, l>>, side)
             = Plus(Plus(Part(j, side), Part(k, side)), Part(l, side))
<1> DEFINE lines == <<j, k, l>>
           parts == [i \in DOMAIN lines |-> IF lines[i].side = side THEN lines[i].amount ELSE 0]
<1>1. parts = <<Part(j, side), Part(k, side), Part(l, side)>>
  <2>1. DOMAIN lines = 1..3 /\ lines[1] = j /\ lines[2] = k /\ lines[3] = l
    OBVIOUS
  <2>2. \A i \in 1..3 : i = 1 \/ i = 2 \/ i = 3
    OBVIOUS
  <2> HIDE DEF lines
  <2>3. \A i \in 1..3 : parts[i] = <<Part(j, side), Part(k, side), Part(l, side)>>[i]
    BY <2>1, <2>2 DEF Part
  <2>4. QED
    BY <2>1, <2>3
<1>2. Part(j, side) \in Amount /\ Part(k, side) \in Amount /\ Part(l, side) \in Amount
  BY DEF Part, Amount
<1>3. QED
  BY <1>1, <1>2, SumOfThree DEF SideTotal

\* The legs of a few roles, as a list of their own.
LEMMA RolesOfTwo ==
    ASSUME NEW k, NEW l, NEW roles, NEW side
    PROVE  RolesTotal(<<k, l>>, roles, side)
             = SideTotal(<<OfRoles(k, roles), OfRoles(l, roles)>>, side)
<1> DEFINE lines == <<k, l>>
           ofRoles == [i \in DOMAIN lines |->
                         [side |-> lines[i].side,
                          amount |-> IF lines[i].role \in roles THEN lines[i].amount ELSE 0]]
<1>1. ofRoles = <<OfRoles(k, roles), OfRoles(l, roles)>>
  <2>1. DOMAIN lines = 1..2 /\ lines[1] = k /\ lines[2] = l
    OBVIOUS
  <2>2. \A i \in 1..2 : i = 1 \/ i = 2
    OBVIOUS
  <2> HIDE DEF lines
  <2>3. \A i \in 1..2 : ofRoles[i] = <<OfRoles(k, roles), OfRoles(l, roles)>>[i]
    BY <2>1, <2>2 DEF OfRoles
  <2>4. QED
    BY <2>1, <2>3
<1>2. QED
  BY <1>1, Zenon DEF RolesTotal

LEMMA RolesOfThree ==
    ASSUME NEW j, NEW k, NEW l, NEW roles, NEW side
    PROVE  RolesTotal(<<j, k, l>>, roles, side)
             = SideTotal(<<OfRoles(j, roles), OfRoles(k, roles), OfRoles(l, roles)>>, side)
<1> DEFINE lines == <<j, k, l>>
           ofRoles == [i \in DOMAIN lines |->
                         [side |-> lines[i].side,
                          amount |-> IF lines[i].role \in roles THEN lines[i].amount ELSE 0]]
<1>1. ofRoles = <<OfRoles(j, roles), OfRoles(k, roles), OfRoles(l, roles)>>
  <2>1. DOMAIN lines = 1..3 /\ lines[1] = j /\ lines[2] = k /\ lines[3] = l
    OBVIOUS
  <2>2. \A i \in 1..3 : i = 1 \/ i = 2 \/ i = 3
    OBVIOUS
  <2> HIDE DEF lines
  <2>3. \A i \in 1..3 :
           ofRoles[i] = <<OfRoles(j, roles), OfRoles(k, roles), OfRoles(l, roles)>>[i]
    BY <2>1, <2>2 DEF OfRoles
  <2>4. QED
    BY <2>1, <2>3
<1>2. QED
  BY <1>1, Zenon DEF RolesTotal

(************************* What an income books ****************************)

\* The legs of the entry an income row writes.
IncomeLines(c, row) ==
    (IF row.perspective = "emitido" THEN IssuedEntry(c, row) ELSE PurchaseEntry(c, row)).entry.lines

MoneyLeg(c, row, side) == JournalLine(row.moneyRole, row.moneyKey, side, c.doc.total)
BaseLeg(role, c, side) == JournalLine(role, <<"base">>, side, NetBase(c.doc))
TaxLeg(c, row, side) == JournalLine(row.ivaRole, <<"iva">>, side, IvaTraslado(c.doc))

\* Money, base and tax are booked to roles of their own.
LEMMA IncomeRoles ==
    ASSUME NEW row \in INCOME_ROWS
    PROVE  LET ivaRoles == {r.ivaRole : r \in INCOME_ROWS}
           IN  /\ row.ivaRole \in ivaRoles /\ row.moneyRole \notin ivaRoles
               /\ "ingresos" \notin ivaRoles /\ POSTABLE_CATEGORIES \cap ivaRoles = {}
               /\ row.perspective \in {"emitido", "recibido"}
<1>1. \A r \in INCOME_ROWS : r.ivaRole \in {"iva_trasladado_cobrado", "iva_trasladado_no_cobrado",
                                             "iva_acred_pagado", "iva_acred_pendiente"}
  BY SMTT(60) DEF INCOME_ROWS, IncomeRow
<1>2. /\ row.moneyRole \in {"clearing", "clientes", "proveedores"}
      /\ row.perspective \in {"emitido", "recibido"}
  BY SMTT(60) DEF INCOME_ROWS, IncomeRow
<1>3. QED
  BY <1>1, <1>2 DEF POSTABLE_CATEGORIES

\* The three amounts of a document that an income row books.
Consistent(doc) ==
    /\ doc.total \in Int /\ NetBase(doc) \in Int /\ IvaTraslado(doc) \in Int
    /\ IvaTraslado(doc) >= 0 /\ doc.total = NetBase(doc) + IvaTraslado(doc)

LEMMA IncomeLegs ==
    ASSUME NEW c, NEW row \in INCOME_ROWS
    PROVE  LET role == c.classification.role
           IN  IncomeLines(c, row) =
                 IF row.perspective = "emitido"
                 THEN IF IvaTraslado(c.doc) > 0
                      THEN <<MoneyLeg(c, row, DEBE), BaseLeg("ingresos", c, HABER), TaxLeg(c, row, HABER)>>
                      ELSE <<MoneyLeg(c, row, DEBE), BaseLeg("ingresos", c, HABER)>>
                 ELSE IF IvaTraslado(c.doc) > 0
                      THEN <<BaseLeg(role, c, DEBE), TaxLeg(c, row, DEBE), MoneyLeg(c, row, HABER)>>
                      ELSE <<BaseLeg(role, c, DEBE), MoneyLeg(c, row, HABER)>>
<1> DEFINE role == c.classification.role
           taxed == IvaTraslado(c.doc) > 0
           issued == <<MoneyLeg(c, row, DEBE), BaseLeg("ingresos", c, HABER)>>
                       \o IvaLeg(row.ivaRole, HABER, c.doc)
           bought == <<BaseLeg(role, c, DEBE)>> \o IvaLeg(row.ivaRole, DEBE, c.doc)
                       \o <<MoneyLeg(c, row, HABER)>>
<1>1. \A lines : IncomeEntry(c, row, lines).entry.lines = lines
  BY DEF IncomeEntry, Propose, ProposedJournalEntry
<1>2. \A side : IvaLeg(row.ivaRole, side, c.doc) = IF taxed THEN <<TaxLeg(c, row, side)>> ELSE <<>>
  BY DEF IvaLeg, TaxLeg
<1>3. CASE row.perspective = "emitido"
  <2>1. IncomeLines(c, row) = issued
    BY <1>1, <1>3 DEF IncomeLines, IssuedEntry, MoneyLeg, BaseLeg
  <2>2. CASE taxed
    BY <1>2, <1>3, <2>1, <2>2, Appended
  <2>3. CASE ~ taxed
    BY <1>2, <1>3, <2>1, <2>3, NothingAfterTwo
  <2>4. QED
    BY <2>2, <2>3
<1>4. CASE row.perspective # "emitido"
  <2>1. IncomeLines(c, row) = bought
    BY <1>1, <1>4 DEF IncomeLines, PurchaseEntry, MoneyLeg, BaseLeg
  <2>2. CASE taxed
    <3> DEFINE x == BaseLeg(role, c, DEBE)
               y == TaxLeg(c, row, DEBE)
               z == MoneyLeg(c, row, HABER)
    <3>1. bought = (<<x>> \o <<y>>) \o <<z>>
      BY <1>2, <2>2
    <3>2. <<x>> \o <<y>> = <<x, y>> /\ <<x, y>> \o <<z>> = <<x, y, z>>
      BY Joined, Appended, Zenon
    <3>3. QED
      BY <1>4, <2>1, <2>2, <3>1, <3>2, Zenon
  <2>3. CASE ~ taxed
    <3> DEFINE x == BaseLeg(role, c, DEBE)
               z == MoneyLeg(c, row, HABER)
    <3>1. bought = (<<x>> \o <<>>) \o <<z>>
      BY <1>2, <2>3
    <3>2. <<x>> \o <<>> = <<x>> /\ <<x>> \o <<z>> = <<x, z>>
      BY NothingAfterOne, Joined, Zenon
    <3>3. QED
      BY <1>4, <2>1, <2>3, <3>1, <3>2, Zenon
  <2>4. QED
    BY <2>2, <2>3
<1>5. QED
  BY <1>3, <1>4

\* The entry moves the total on both sides, and the tax on the tax roles.
LEMMA IncomeBooks ==
    ASSUME NEW c, NEW row \in INCOME_ROWS, Consistent(c.doc),
           row.perspective = "recibido" => c.classification.role \in POSTABLE_CATEGORIES
    PROVE  LET lines == IncomeLines(c, row)
               ivaRoles == {r.ivaRole : r \in INCOME_ROWS}
           IN  /\ SideTotal(lines, DEBE) = c.doc.total
               /\ RolesTotal(lines, ivaRoles, DEBE) + RolesTotal(lines, ivaRoles, HABER)
                    = IvaTraslado(c.doc)
<1> DEFINE ivaRoles == {r.ivaRole : r \in INCOME_ROWS}
           lines == IncomeLines(c, row)
           total == c.doc.total
           base == NetBase(c.doc)
           iva == IvaTraslado(c.doc)
           role == c.classification.role
<1>1. /\ row.ivaRole \in ivaRoles /\ row.moneyRole \notin ivaRoles /\ "ingresos" \notin ivaRoles
      /\ row.perspective \in {"emitido", "recibido"}
      /\ row.perspective = "recibido" => role \notin ivaRoles
  BY IncomeRoles
<1>2. /\ total \in Int /\ base \in Int /\ iva \in Int /\ iva >= 0 /\ total = base + iva
      /\ iva \in Amount /\ base \in Amount /\ total \in Amount /\ 0 \in Amount
  BY DEF Consistent, Amount
<1>3. /\ DEBE # HABER
      /\ \A x \in Int, y \in Int : Plus(x, y) = x + y
  BY Sentinels DEF DEBE, HABER, Plus, IsFinite
<1>4. \A side, r : LET m == MoneyLeg(c, row, side)
                       b == BaseLeg(r, c, side)
                       t == TaxLeg(c, row, side)
                   IN  /\ m.role = row.moneyRole /\ m.side = side /\ m.amount = total
                       /\ b.role = r /\ b.side = side /\ b.amount = base
                       /\ t.role = row.ivaRole /\ t.side = side /\ t.amount = iva
  BY DEF MoneyLeg, BaseLeg, TaxLeg, JournalLine
<1>5. \A k : /\ OfRoles(k, ivaRoles).side = k.side
             /\ OfRoles(k, ivaRoles).amount = IF k.role \in ivaRoles THEN k.amount ELSE 0
  BY DEF OfRoles
<1> HIDE DEF ivaRoles, lines, total, base, iva, role
<1>6. CASE row.perspective = "emitido"
  <2> DEFINE m == MoneyLeg(c, row, DEBE)
             b == BaseLeg("ingresos", c, HABER)
             t == TaxLeg(c, row, HABER)
  <2>1. /\ m.role = row.moneyRole /\ m.side = DEBE /\ m.amount = total
        /\ b.role = "ingresos" /\ b.side = HABER /\ b.amount = base
        /\ t.role = row.ivaRole /\ t.side = HABER /\ t.amount = iva
    BY <1>4
  <2>2. lines = IF iva > 0 THEN <<m, b, t>> ELSE <<m, b>>
    BY <1>6, IncomeLegs DEF lines, iva
  <2> HIDE DEF m, b, t
  <2> DEFINE om == OfRoles(m, ivaRoles)
             ob == OfRoles(b, ivaRoles)
             ot == OfRoles(t, ivaRoles)
  <2>3. /\ om.side = DEBE /\ om.amount = 0 /\ ob.side = HABER /\ ob.amount = 0
        /\ ot.side = HABER /\ ot.amount = iva
    BY <1>1, <1>5, <2>1
  <2> HIDE DEF om, ob, ot
  <2>4. CASE iva > 0
    <3>1. lines = <<m, b, t>>
      BY <2>2, <2>4
    <3>2. SideTotal(lines, DEBE) = Plus(Plus(Part(m, DEBE), Part(b, DEBE)), Part(t, DEBE))
      BY <1>2, <2>1, <3>1, ThreeLegs
    <3>3. /\ RolesTotal(lines, ivaRoles, DEBE) = SideTotal(<<om, ob, ot>>, DEBE)
          /\ RolesTotal(lines, ivaRoles, HABER) = SideTotal(<<om, ob, ot>>, HABER)
      BY <3>1, RolesOfThree DEF om, ob, ot
    <3>4. /\ SideTotal(<<om, ob, ot>>, DEBE) = Plus(Plus(Part(om, DEBE), Part(ob, DEBE)), Part(ot, DEBE))
          /\ SideTotal(<<om, ob, ot>>, HABER) = Plus(Plus(Part(om, HABER), Part(ob, HABER)), Part(ot, HABER))
      BY <1>2, <2>3, ThreeLegs
    <3>5. SideTotal(lines, DEBE) = total
      BY <1>2, <1>3, <2>1, <3>2 DEF Part
    <3>6. RolesTotal(lines, ivaRoles, DEBE) + RolesTotal(lines, ivaRoles, HABER) = iva
      BY <1>2, <1>3, <2>3, <3>3, <3>4 DEF Part
    <3>7. QED
      BY <3>5, <3>6 DEF lines, ivaRoles, total, iva
  <2>5. CASE ~ (iva > 0)
    <3>1. lines = <<m, b>> /\ iva = 0
      BY <1>2, <2>2, <2>5
    <3>2. SideTotal(lines, DEBE) = Plus(Part(m, DEBE), Part(b, DEBE))
      BY <1>2, <2>1, <3>1, TwoLegs
    <3>3. /\ RolesTotal(lines, ivaRoles, DEBE) = SideTotal(<<om, ob>>, DEBE)
          /\ RolesTotal(lines, ivaRoles, HABER) = SideTotal(<<om, ob>>, HABER)
      BY <3>1, RolesOfTwo DEF om, ob
    <3>4. /\ SideTotal(<<om, ob>>, DEBE) = Plus(Part(om, DEBE), Part(ob, DEBE))
          /\ SideTotal(<<om, ob>>, HABER) = Plus(Part(om, HABER), Part(ob, HABER))
      BY <1>2, <2>3, TwoLegs
    <3>5. QED
      BY <1>2, <1>3, <2>1, <2>3, <3>1, <3>2, <3>3, <3>4 DEF Part, lines, ivaRoles, total, iva
  <2>6. QED
    BY <2>4, <2>5
<1>7. CASE row.perspective = "recibido"
  <2> DEFINE b == BaseLeg(role, c, DEBE)
             t == TaxLeg(c, row, DEBE)
             m == MoneyLeg(c, row, HABER)
  <2>1. /\ m.role = row.moneyRole /\ m.side = HABER /\ m.amount = total
        /\ b.role = role /\ b.side = DEBE /\ b.amount = base
        /\ t.role = row.ivaRole /\ t.side = DEBE /\ t.amount = iva
    BY <1>4
  <2>2. lines = IF iva > 0 THEN <<b, t, m>> ELSE <<b, m>>
    BY <1>7, IncomeLegs DEF lines, iva, role
  <2> HIDE DEF m, b, t
  <2> DEFINE om == OfRoles(m, ivaRoles)
             ob == OfRoles(b, ivaRoles)
             ot == OfRoles(t, ivaRoles)
  <2>3. /\ om.side = HABER /\ om.amount = 0 /\ ob.side = DEBE /\ ob.amount = 0
        /\ ot.side = DEBE /\ ot.amount = iva
    BY <1>1, <1>5, <1>7, <2>1
  <2> HIDE DEF om, ob, ot
  <2>4. CASE iva > 0
    <3>1. lines = <<b, t, m>>
      BY <2>2, <2>4
    <3>2. SideTotal(lines, DEBE) = Plus(Plus(Part(b, DEBE), Part(t, DEBE)), Part(m, DEBE))
      BY <1>2, <2>1, <3>1, ThreeLegs
    <3>3. /\ RolesTotal(lines, ivaRoles, DEBE) = SideTotal(<<ob, ot, om>>, DEBE)
          /\ RolesTotal(lines, ivaRoles, HABER) = SideTotal(<<ob, ot, om>>, HABER)
      BY <3>1, RolesOfThree DEF om, ob, ot
    <3>4. /\ SideTotal(<<ob, ot, om>>, DEBE) = Plus(Plus(Part(ob, DEBE), Part(ot, DEBE)), Part(om, DEBE))
          /\ SideTotal(<<ob, ot, om>>, HABER) = Plus(Plus(Part(ob, HABER), Part(ot, HABER)), Part(om, HABER))
      BY <1>2, <2>3, ThreeLegs
    <3>5. SideTotal(lines, DEBE) = total
      BY <1>2, <1>3, <2>1, <3>2 DEF Part
    <3>6. RolesTotal(lines, ivaRoles, DEBE) + RolesTotal(lines, ivaRoles, HABER) = iva
      BY <1>2, <1>3, <2>3, <3>3, <3>4 DEF Part
    <3>7. QED
      BY <3>5, <3>6 DEF lines, ivaRoles, total, iva
  <2>5. CASE ~ (iva > 0)
    <3>1. lines = <<b, m>> /\ iva = 0
      BY <1>2, <2>2, <2>5
    <3>2. SideTotal(lines, DEBE) = Plus(Part(b, DEBE), Part(m, DEBE))
      BY <1>2, <2>1, <3>1, TwoLegs
    <3>3. /\ RolesTotal(lines, ivaRoles, DEBE) = SideTotal(<<ob, om>>, DEBE)
          /\ RolesTotal(lines, ivaRoles, HABER) = SideTotal(<<ob, om>>, HABER)
      BY <3>1, RolesOfTwo DEF om, ob
    <3>4. /\ SideTotal(<<ob, om>>, DEBE) = Plus(Part(ob, DEBE), Part(om, DEBE))
          /\ SideTotal(<<ob, om>>, HABER) = Plus(Part(ob, HABER), Part(om, HABER))
      BY <1>2, <2>3, TwoLegs
    <3>5. QED
      BY <1>2, <1>3, <2>1, <2>3, <3>1, <3>2, <3>3, <3>4 DEF Part, lines, ivaRoles, total, iva
  <2>6. QED
    BY <2>4, <2>5
<1>8. QED
  BY <1>1, <1>6, <1>7

(************************** What may be posted *****************************)

\* What the rules read of a document, typed.
TypedDoc(d) ==
    /\ d.subtotal \in Amount \cup {None} /\ d.descuento \in Amount \cup {None}
    /\ d.total \in Amount \cup {None}
    /\ d.traslados \in Seq(ToSet(d.traslados))
    /\ \A t \in ToSet(d.traslados) : t.importe \in Amount \cup {None}
    /\ d.claves \in Seq(ToSet(d.claves))
    /\ d.pagos # None => /\ d.pagos \in Seq(ToSet(d.pagos))
                         /\ \A p \in ToSet(d.pagos) : TypedPago(p)
    /\ d.tipoCambio \in {None, NaN} \/ d.tipoCambio \in Int \X (Nat \ {0})

TypedContext(c, m) ==
    /\ TypedDoc(c.doc)
    /\ c.classification = ClassificationFor(c.perspective, c.doc, m)
    /\ \A r \in PostedEntries(c) : PostedRecord(r)

LEMMA ContextIsTyped ==
    ASSUME IInv
    PROVE  TypedContext(ctx, chart)
<1>1. PICK c \in Contexts :
         ctx = [c EXCEPT !.classification = ClassificationFor(c.perspective, c.doc, chart)]
  BY DEF IInv
<1>2. {"doc", "perspective", "classification", "previous", "cancelledOn"} \subseteq DOMAIN c
  BY ContextAssumption
<1>3. /\ ctx.doc = c.doc /\ ctx.perspective = c.perspective /\ ctx.previous = c.previous
      /\ ctx.classification = ClassificationFor(c.perspective, c.doc, chart)
  BY <1>1, <1>2
<1>4. TypedDoc(c.doc)
  BY ContextAssumption DEF TypedDoc, TypedTaxes
<1>5. PostedEntries(ctx) = PostedEntries(c)
  BY <1>3 DEF PostedEntries
<1>6. \A r \in PostedEntries(c) : PostedRecord(r)
  BY ContextAssumption
<1>7. QED
  BY <1>3, <1>4, <1>5, <1>6 DEF TypedContext

\* A document that is no payment is proposed by the income row that claims it,
\* and only when nothing it states refuses.
LEMMA ProposedIncome ==
    ASSUME NEW c, ProposeFor(c).kind = "propose", c.doc.tipo # "P"
    PROVE  \E row \in INCOME_ROWS :
              /\ IncomeClaims(c, row) /\ BaseAmountsFlags(c.doc) = {}
              /\ row.perspective # "emitido" => ClassificationFlags(c) = {}
              /\ ProposeFor(c) = IF row.perspective = "emitido" THEN IssuedEntry(c, row)
                                                                ELSE PurchaseEntry(c, row)
<1>1. c.doc.status # "CANCELLED"
  <2>1. Cancellation(c).kind # "propose"
    BY NeverProposed
  <2>2. QED
    BY <2>1 DEF ProposeFor
<1>2. ProposeFor(c) = RowAnswer(c)
  <2>1. OutOfScopeSkip(c).kind # "propose"
    BY DEF OutOfScopeSkip, Skip
  <2>2. Draft(c).kind # "propose"
    BY ReviewAnswer DEF Draft
  <2>3. QED
    BY <1>1, <2>1, <2>2 DEF ProposeFor
<1>3. \A row : RepClaims(c, row) => c.doc.tipo = "P"
  BY DEF RepClaims
<1>4. PICK row \in INCOME_ROWS : IncomeClaims(c, row) /\ RowAnswer(c) = IncomeRule(c, row)
  BY <1>2, <1>3, NeverProposed DEF RowAnswer
<1>5. \A flags : Review(c, row, flags, <<>>).kind # "propose"
  BY ReviewAnswer
<1>6. QED
  BY <1>2, <1>4, <1>5 DEF IncomeRule, IssuedIncome, ReceivedPurchase

\* A document that passes base_amounts states amounts that agree, and no tax
\* an income row would leave out.
LEMMA NothingLeftOut ==
    ASSUME NEW d, TypedDoc(d), BaseAmountsFlags(d) = {}
    PROVE  Consistent(d) /\ d.retenciones = {}
<1>1. /\ Recordable(d) /\ UnbookableTax(d) = {}
      /\ NetBase(d) # None /\ d.total # None
      /\ \A i \in DOMAIN d.traslados : ~ LacksImporte(d.traslados[i])
      /\ AmountRefusals(NetBase(d), IvaTraslado(d), d.total) = {}
  <2>1. Recordable(d)
    <3>1. ~ Recordable(d) => RecordabilityFlags(d) # {}
      <4>1. ~ Recordable(d) => \/ "MISSING_SOURCE_FIELD" \in RecordabilityFlags(d)
                               \/ "MISSING_POSTING_IDENTITY" \in RecordabilityFlags(d)
        BY DEF Recordable, RecordabilityFlags
      <4>2. QED
        BY <4>1
    <3>2. QED
      BY <3>1 DEF BaseAmountsFlags
  <2>2. QED
    BY <2>1 DEF BaseAmountsFlags
<1>2. d.retenciones = {}
  BY <1>1 DEF UnbookableTax
<1>3. NetBase(d) \in Amount
  BY <1>1, Sentinels DEF TypedDoc, NetBase, Minus, IsFinite, Amount
<1>4. IvaTraslado(d) \in Amount
  <2> DEFINE stated(t) == IF t.importe = None THEN 0 ELSE t.importe
             list == [i \in DOMAIN d.traslados |-> stated(d.traslados[i])]
  <2>1. d.traslados \in Seq(ToSet(d.traslados))
    BY DEF TypedDoc
  <2>2. \A i \in DOMAIN d.traslados : stated(d.traslados[i]) \in Amount
    <3>1. \A i \in DOMAIN d.traslados : d.traslados[i].importe \in Amount \cup {None}
      BY DEF TypedDoc, ToSet
    <3>2. QED
      BY <3>1 DEF Amount
  <2>3. list \in Seq(Amount)
    <3> HIDE DEF stated
    <3>1. DOMAIN d.traslados = 1..Len(d.traslados) /\ Len(d.traslados) \in Nat
      BY <2>1
    <3>2. QED
      BY <2>2, <3>1
  <2>4. SumAmounts(list) \in Amount
    <3> HIDE DEF list
    <3>1. QED
      BY <2>3, SumIsAmount
  <2>5. QED
    BY <2>4 DEF IvaTraslado
<1>5. /\ IsFinite(NetBase(d)) /\ IsFinite(IvaTraslado(d)) /\ IsFinite(d.total)
      /\ IvaTraslado(d) >= 0 \/ ~ (IvaTraslado(d) \in Int)
      /\ d.total = NetBase(d) + IvaTraslado(d)
  BY <1>1 DEF AmountRefusals
<1>6. /\ NetBase(d) \in Int /\ IvaTraslado(d) \in Int /\ d.total \in Int
  BY <1>1, <1>3, <1>4, <1>5 DEF TypedDoc, IsFinite, Amount
<1>7. QED
  BY <1>2, <1>5, <1>6 DEF Consistent

\* A purchase that is classified is classified to a role that books.
LEMMA ClassifiedRole ==
    ASSUME NEW d, NEW table, TypedDoc(d), ClassifyDocument(d.claves, table).flags = {}
    PROVE  ClassifyDocument(d.claves, table).role \in POSTABLE_CATEGORIES
<1> DEFINE claves == d.claves
           refused == {i \in DOMAIN claves : ConceptRefusal(claves[i], table) # {}}
           roles == {table[claves[i]] : i \in DOMAIN claves}
           answer == ClassifyDocument(claves, table)
<1>1. refused = {}
  <2>1. SUFFICES ASSUME refused # {} PROVE FALSE
    OBVIOUS
  <2>2. refused \subseteq Nat
    <3>1. claves \in Seq(ToSet(claves))
      BY DEF TypedDoc
    <3>2. QED
      BY <3>1
  <2>3. Min(refused) \in refused
    <3> HIDE DEF refused
    <3>1. PICK k \in refused : \A n \in refused : ~ (<<n, k>> \in OpToRel(<, Nat))
      BY <2>1, <2>2, WFMin, NatLessThanWellFounded, Zenon
    <3>2. \A n \in refused : ~ (n < k)
      BY <2>2, <3>1, Zenon DEF OpToRel
    <3>3. \A n \in refused : k <= n
      BY <2>2, <3>2
    <3>4. QED
      BY <3>3, Zenon DEF Min
  <2>4. answer.flags = ConceptRefusal(claves[Min(refused)], table)
    BY <2>1 DEF ClassifyDocument
  <2>5. QED
    BY <2>3, <2>4
<1>2. roles \subseteq POSTABLE_CATEGORIES
  BY <1>1 DEF ConceptRefusal
<1>3. answer = CASE Cardinality(roles) = 0 -> [role |-> None, flags |-> {"MISSING_SOURCE_FIELD"}]
                 [] Cardinality(roles) = 1 -> [role |-> CHOOSE r \in roles : TRUE, flags |-> {}]
                 [] OTHER -> [role |-> None, flags |-> {"UNSUPPORTED_RULE"}]
  BY <1>1 DEF ClassifyDocument
<1>4. answer.flags = {}
  OBVIOUS
<1> HIDE DEF answer, roles
<1>5. Cardinality(roles) = 1 /\ answer.role = CHOOSE r \in roles : TRUE
  <2>1. Cardinality(roles) # 0
    BY <1>3, <1>4
  <2>2. Cardinality(roles) = 1
    BY <1>3, <1>4, <2>1
  <2>3. QED
    BY <1>3, <2>2
<1>6. roles # {}
  BY <1>5, FS_EmptySet
<1>7. QED
  BY <1>2, <1>5, <1>6 DEF answer

\* What a posted decision was made of.
LEMMA PostedWas ==
    ASSUME NEW c, NEW m, NEW v, Answered(c, m, v), v.state = "POSTED"
    PROVE  LET entry == ProposeFor(c).entry
               valued == ValueEntry(entry, c.doc)
           IN  /\ ProposeFor(c).kind = "propose"
               /\ v.entry = IF valued.flags # {} THEN entry ELSE valued.entry
               /\ v.rate = valued.rate
               /\ FxRefusal(c.doc, valued) = {}
<1> DEFINE answer == ProposeFor(c)
           entry == answer.entry
           valued == ValueEntry(entry, c.doc)
           posted == IF valued.flags # {} THEN entry ELSE valued.entry
<1>1. answer.kind \in {"skip", "review", "propose"} /\ v = Decide(c, answer, m)
  BY DEF Answered
<1>2. answer.kind = "propose" /\ v = DecidePost(c, entry, m)
  <2> HIDE DEF answer
  <2>1. answer.kind \notin {"skip", "review"} /\ v = DecidePost(c, answer.entry, m)
    BY <1>1, PostedWasProposed
  <2>2. QED
    BY <1>1, <2>1
<1>3. Refusals(c, posted, m, valued) = {} /\ v.entry = posted /\ v.rate = valued.rate
  <2> HIDE DEF answer
  <2>1. QED
    BY <1>2 DEF DecidePost, Refuse, PostingDecision
<1>4. FxRefusal(c.doc, valued) = {}
  BY <1>3 DEF Refusals
<1>5. QED
  BY <1>2, <1>3, <1>4

(************************ A posted income is whole *************************)

\* The classification of a received document an income row books.
LEMMA PurchaseRole ==
    ASSUME NEW c, NEW m, TypedContext(c, m), NEW row \in INCOME_ROWS, IncomeClaims(c, row),
           row.perspective = "recibido", ClassificationFlags(c) = {}
    PROVE  c.classification.role \in POSTABLE_CATEGORIES
<1>1. c.perspective = "recibido" /\ c.doc.tipo = "I"
  BY DEF IncomeClaims
<1>2. c.classification = ClassifyDocument(c.doc.claves, m.classification)
  BY <1>1 DEF TypedContext, ClassificationFor
<1>3. ClassifyDocument(c.doc.claves, m.classification).flags = {}
  BY <1>2 DEF ClassificationFlags
<1>4. QED
  BY <1>2, <1>3, ClassifiedRole DEF TypedContext

\* What is posted of a document that is no payment: an income row's lines,
\* with its amounts agreeing, as they are or at a rate.
LEMMA PostedIncome ==
    ASSUME NEW c, NEW m, NEW v, TypedContext(c, m), Answered(c, m, v), v.state = "POSTED",
           c.doc.tipo # "P"
    PROVE  \E row \in INCOME_ROWS :
              /\ ProposeFor(c).entry.lines = IncomeLines(c, row)
              /\ Consistent(c.doc) /\ c.doc.retenciones = {}
              /\ row.perspective = "recibido" => c.classification.role \in POSTABLE_CATEGORIES
<1>1. ProposeFor(c).kind = "propose"
  BY PostedWas
<1>2. PICK row \in INCOME_ROWS :
              /\ IncomeClaims(c, row) /\ BaseAmountsFlags(c.doc) = {}
              /\ row.perspective # "emitido" => ClassificationFlags(c) = {}
              /\ ProposeFor(c) = IF row.perspective = "emitido" THEN IssuedEntry(c, row)
                                                                ELSE PurchaseEntry(c, row)
  BY <1>1, ProposedIncome
<1>3. Consistent(c.doc) /\ c.doc.retenciones = {}
  BY <1>2, NothingLeftOut DEF TypedContext
<1>4. row.perspective = "recibido" => c.classification.role \in POSTABLE_CATEGORIES
  BY <1>2, PurchaseRole
<1>5. QED
  BY <1>2, <1>3, <1>4, Zenon DEF IncomeLines

LEMMA PostedIncomeIsWhole ==
    ASSUME NEW c, NEW m, NEW v, TypedContext(c, m), Answered(c, m, v), v.state = "POSTED",
           c.doc.tipo = "I", c.doc.moneda = NATIONAL_CURRENCY
    PROVE  LET ivaRoles == {r.ivaRole : r \in INCOME_ROWS}
           IN  /\ SideTotal(v.entry.lines, DEBE) = c.doc.total
               /\ c.doc.retenciones = {}
               /\ RolesTotal(v.entry.lines, ivaRoles, DEBE) + RolesTotal(v.entry.lines, ivaRoles, HABER)
                    = IvaTraslado(c.doc)
<1>1. PICK row \in INCOME_ROWS :
              /\ ProposeFor(c).entry.lines = IncomeLines(c, row)
              /\ Consistent(c.doc) /\ c.doc.retenciones = {}
              /\ row.perspective = "recibido" => c.classification.role \in POSTABLE_CATEGORIES
  BY PostedIncome
<1>2. v.entry.lines = IncomeLines(c, row)
  <2> DEFINE entry == ProposeFor(c).entry
  <2>1. ValueEntry(entry, c.doc) = Valued(entry, None)
    BY DEF ValueEntry
  <2>2. v.entry = IF ValueEntry(entry, c.doc).flags # {} THEN entry ELSE ValueEntry(entry, c.doc).entry
    BY PostedWas
  <2>3. Valued(entry, None).entry = entry /\ Valued(entry, None).flags = {}
    BY DEF Valued
  <2>4. v.entry = entry
    BY <2>1, <2>2, <2>3, Zenon
  <2>5. QED
    BY <1>1, <2>4
<1>3. QED
  BY <1>1, <1>2, IncomeBooks

\* A posted income comprobante books its whole document: its total on both
\* sides, every tax it states on the tax accounts, and it withholds nothing
\* (amounts.base_amounts and the rows of posting.py).
THEOREM WholeDocumentIsBooked == Spec => []PostedBooksWholeDocument
<1>1. IInv => PostedBooksWholeDocument
  <2>1. SUFFICES ASSUME IInv, Posted, ctx.doc.tipo = "I", ctx.doc.moneda = NATIONAL_CURRENCY
                 PROVE  PostedBooksWholeDocument
    BY DEF PostedBooksWholeDocument
  <2>2. TypedContext(ctx, chart) /\ Answered(ctx, chart, verdict) /\ verdict.state = "POSTED"
    BY <2>1, ContextIsTyped, WhatIsDecided DEF Posted
  <2> DEFINE ivaRoles == {r.ivaRole : r \in INCOME_ROWS}
  <2>3. /\ SideTotal(Lines, DEBE) = ctx.doc.total
        /\ ctx.doc.retenciones = {}
        /\ RolesTotal(Lines, ivaRoles, DEBE) + RolesTotal(Lines, ivaRoles, HABER)
             = IvaTraslado(ctx.doc)
    BY <2>1, <2>2, PostedIncomeIsWhole DEF Lines
  <2>4. QED
    BY <2>3, Zenon DEF PostedBooksWholeDocument, IvaTraslado
<1>2. QED
  BY <1>1, EngineInvariant, PTL

(**************************** Another currency *****************************)

\* Rounding half up is off by at most half.
LEMMA Rounded ==
    ASSUME NEW n \in Int, NEW d \in Nat \ {0}
    PROVE  LET q == (2 * n + d) \div (2 * d)
           IN  q \in Int /\ 2 * (q * d - n) <= d /\ 0 - 2 * (q * d - n) <= d
<1> DEFINE a == 2 * n + d
           b == 2 * d
           q == a \div b
<1>1. a \in Int /\ b \in Int /\ b > 0
  OBVIOUS
<1> HIDE DEF a, b
<1>2. q \in Int /\ b * q <= a /\ a < b * q + b
  BY <1>1
<1> HIDE DEF q
<1>3. b * q = 2 * (q * d)
  BY <1>2 DEF b
<1>4. q * d \in Int
  BY <1>2
<1> DEFINE p == q * d
<1>5. p \in Int /\ 2 * p <= 2 * n + d /\ 2 * n + d < 2 * p + 2 * d
  BY <1>2, <1>3, <1>4 DEF a, b
<1> HIDE DEF p
<1>6. 2 * (p - n) <= d /\ 0 - 2 * (p - n) <= d
  BY <1>5
<1>7. QED
  BY <1>2, <1>6 DEF p, q, a, b

\* The legs of an income entry move whole cents.
LEMMA IncomeAmounts ==
    ASSUME NEW c, NEW row \in INCOME_ROWS, Consistent(c.doc)
    PROVE  LET lines == IncomeLines(c, row)
           IN  \A i \in DOMAIN lines :
                  /\ lines[i].amount \in Int
                  /\ DOMAIN lines[i] = {"role", "key", "side", "amount"}
<1> DEFINE Sound(k) == k.amount \in Int /\ DOMAIN k = {"role", "key", "side", "amount"}
<1>1. \A role, side : /\ Sound(MoneyLeg(c, row, side)) /\ Sound(BaseLeg(role, c, side))
                      /\ Sound(TaxLeg(c, row, side))
  BY DEF Consistent, MoneyLeg, BaseLeg, TaxLeg, JournalLine
<1> HIDE DEF Sound
<1>2. \A x, y : Sound(x) /\ Sound(y) => \A i \in DOMAIN <<x, y>> : Sound(<<x, y>>[i])
  <2>1. TAKE x, y
  <2>2. DOMAIN <<x, y>> = 1..2 /\ <<x, y>>[1] = x /\ <<x, y>>[2] = y
    OBVIOUS
  <2>3. \A i \in 1..2 : i = 1 \/ i = 2
    OBVIOUS
  <2>4. QED
    BY <2>2, <2>3, Zenon
<1>3. \A x, y, z : Sound(x) /\ Sound(y) /\ Sound(z) =>
                      \A i \in DOMAIN <<x, y, z>> : Sound(<<x, y, z>>[i])
  <2>1. TAKE x, y, z
  <2>2. /\ DOMAIN <<x, y, z>> = 1..3
        /\ <<x, y, z>>[1] = x /\ <<x, y, z>>[2] = y /\ <<x, y, z>>[3] = z
    OBVIOUS
  <2>3. \A i \in 1..3 : i = 1 \/ i = 2 \/ i = 3
    OBVIOUS
  <2>4. QED
    BY <2>2, <2>3, Zenon
<1>4. \A i \in DOMAIN IncomeLines(c, row) : Sound(IncomeLines(c, row)[i])
  <2>1. PICK x, y, z : /\ Sound(x) /\ Sound(y) /\ Sound(z)
                       /\ IncomeLines(c, row) = <<x, y, z>> \/ IncomeLines(c, row) = <<x, y>>
    BY <1>1, IncomeLegs, Zenon
  <2>2. QED
    BY <1>2, <1>3, <2>1, Zenon
<1>5. QED
  BY <1>4 DEF Sound

\* A posted entry of another currency was converted, at one of the two rates.
LEMMA PostedWasConverted ==
    ASSUME NEW c, NEW m, NEW v, TypedContext(c, m), Answered(c, m, v), v.state = "POSTED",
           c.doc.tipo # "P", c.doc.moneda # NATIONAL_CURRENCY
    PROVE  LET entry == ProposeFor(c).entry
               rate == IF c.doc.tipoCambio = None THEN ConfiguredRate ELSE c.doc.tipoCambio
           IN  /\ rate \in Int \X (Nat \ {0}) /\ v.rate = rate
               /\ v.entry.lines = [i \in DOMAIN entry.lines |->
                                     [entry.lines[i] EXCEPT !.amount = InPesos(@, rate)]]
<1> DEFINE entry == ProposeFor(c).entry
           valued == ValueEntry(entry, c.doc)
           rate == IF c.doc.tipoCambio = None THEN ConfiguredRate ELSE c.doc.tipoCambio
           legs == [i \in DOMAIN entry.lines |->
                      [entry.lines[i] EXCEPT !.amount = InPesos(@, rate)]]
<1>1. /\ v.entry = IF valued.flags # {} THEN entry ELSE valued.entry
      /\ v.rate = valued.rate /\ FxRefusal(c.doc, valued) = {}
      /\ ProposeFor(c).kind = "propose"
  BY PostedWas
<1>2. valued.flags = {}
  BY <1>1 DEF FxRefusal
<1>3. \A flag \in {"AMBIGUOUS_FX", "INVALID_AMOUNT", "UNBALANCED_ENTRY"} : valued # Refused(flag)
  BY <1>2 DEF Refused
<1>4. valued = Converted(entry, rate) /\ rate \in Int \X (Nat \ {0})
  <2>1. CASE c.doc.tipoCambio = None
    BY <1>3, <2>1, RateAssumption DEF ValueEntry
  <2>2. CASE c.doc.tipoCambio # None
    BY <1>3, <2>2 DEF ValueEntry, UsableRate, TypedContext, TypedDoc
  <2>3. QED
    BY <2>1, <2>2
<1> HIDE DEF rate
<1>5. valued = Valued([entry EXCEPT !.lines = legs], rate)
  BY <1>3, <1>4 DEF Converted
<1>6. "lines" \in DOMAIN entry
  <2>1. ProposesAbout(ProposeFor(c), c) /\ ProposeFor(c).kind = "propose"
    BY <1>1, ProposalIdentity
  <2>2. QED
    BY <2>1 DEF ProposesAbout, AboutContext
<1>7. valued.flags = {} /\ valued.rate = rate /\ valued.entry.lines = legs
  BY <1>5, <1>6 DEF Valued
<1>8. v.rate = rate /\ v.entry.lines = legs
  <2> HIDE DEF valued, legs, entry
  <2>1. QED
    BY <1>1, <1>7 DEF valued, entry
<1>9. QED
  BY <1>4, <1>8 DEF rate

LEMMA PostedForeign ==
    ASSUME NEW c, NEW m, NEW v, TypedContext(c, m), Answered(c, m, v), v.state = "POSTED",
           c.doc.tipo # "P", c.doc.moneda # NATIONAL_CURRENCY
    PROVE  LET proposed == ProposeFor(c).entry.lines
               lines == v.entry.lines
               rate == IF c.doc.tipoCambio = None THEN ConfiguredRate ELSE c.doc.tipoCambio
           IN  /\ v.rate = rate /\ DOMAIN lines = DOMAIN proposed
               /\ \A i \in DOMAIN lines :
                     /\ lines[i].role = proposed[i].role /\ lines[i].key = proposed[i].key
                     /\ lines[i].side = proposed[i].side
                     /\ 2 * (lines[i].amount * rate[2] - proposed[i].amount * rate[1]) <= rate[2]
                     /\ 0 - 2 * (lines[i].amount * rate[2] - proposed[i].amount * rate[1]) <= rate[2]
<1> DEFINE proposed == ProposeFor(c).entry.lines
           lines == v.entry.lines
           rate == IF c.doc.tipoCambio = None THEN ConfiguredRate ELSE c.doc.tipoCambio
<1>1. /\ rate \in Int \X (Nat \ {0}) /\ v.rate = rate
      /\ lines = [i \in DOMAIN proposed |-> [proposed[i] EXCEPT !.amount = InPesos(@, rate)]]
  BY PostedWasConverted
<1>2. \A i \in DOMAIN proposed : /\ proposed[i].amount \in Int
                                 /\ DOMAIN proposed[i] = {"role", "key", "side", "amount"}
  <2>1. PICK row \in INCOME_ROWS : proposed = IncomeLines(c, row) /\ Consistent(c.doc)
    BY PostedIncome
  <2>2. QED
    BY <2>1, IncomeAmounts
<1> HIDE DEF proposed, lines, rate
<1>3. ASSUME NEW i \in DOMAIN proposed
      PROVE  /\ lines[i].role = proposed[i].role /\ lines[i].key = proposed[i].key
             /\ lines[i].side = proposed[i].side
             /\ lines[i].amount = InPesos(proposed[i].amount, rate)
  BY <1>1, <1>2
<1>4. ASSUME NEW i \in DOMAIN proposed
      PROVE  /\ 2 * (lines[i].amount * rate[2] - proposed[i].amount * rate[1]) <= rate[2]
             /\ 0 - 2 * (lines[i].amount * rate[2] - proposed[i].amount * rate[1]) <= rate[2]
  <2> DEFINE n == proposed[i].amount * rate[1]
             d == rate[2]
             q == (2 * n + d) \div (2 * d)
  <2>1. n \in Int /\ d \in Nat \ {0} /\ proposed[i].amount \in Int /\ rate[1] \in Int
    BY <1>1, <1>2
  <2>2. lines[i].amount = q
    <3>1. 2 * proposed[i].amount * rate[1] = 2 * n
      BY <2>1
    <3>2. QED
      BY <1>3, <3>1 DEF InPesos
  <2> HIDE DEF n, d
  <2>3. 2 * (q * d - n) <= d /\ 0 - 2 * (q * d - n) <= d
    BY <2>1, Rounded
  <2> HIDE DEF q
  <2>4. QED
    BY <2>2, <2>3 DEF n, d
<1>5. DOMAIN lines = DOMAIN proposed
  BY <1>1
<1>6. QED
  BY <1>1, <1>3, <1>4, <1>5 DEF proposed, lines, rate

\* A posted comprobante in another currency was booked at the rate it states,
\* at the configured one where it states none: leg for leg as proposed, each
\* within half a cent (fx.py, valuation.py).
THEOREM ForeignAtItsRate == Spec => []ForeignPostsAtStatedRate
<1>1. IInv => ForeignPostsAtStatedRate
  <2>1. SUFFICES ASSUME IInv, Posted, ctx.doc.moneda # NATIONAL_CURRENCY, ctx.doc.tipo # "P"
                 PROVE  ForeignPostsAtStatedRate
    BY DEF ForeignPostsAtStatedRate
  <2>2. TypedContext(ctx, chart) /\ Answered(ctx, chart, verdict) /\ verdict.state = "POSTED"
    BY <2>1, ContextIsTyped, WhatIsDecided DEF Posted
  <2> DEFINE proposed == ProposeFor(ctx).entry.lines
             rate == IF ctx.doc.tipoCambio = None THEN ConfiguredRate ELSE ctx.doc.tipoCambio
  <2>3. /\ verdict.rate = rate /\ DOMAIN Lines = DOMAIN proposed
        /\ \A i \in DOMAIN Lines :
              /\ Lines[i].role = proposed[i].role /\ Lines[i].key = proposed[i].key
              /\ Lines[i].side = proposed[i].side
              /\ 2 * (Lines[i].amount * rate[2] - proposed[i].amount * rate[1]) <= rate[2]
              /\ 0 - 2 * (Lines[i].amount * rate[2] - proposed[i].amount * rate[1]) <= rate[2]
    BY <2>1, <2>2, PostedForeign DEF Lines
  <2>4. QED
    BY <2>3, Zenon DEF ForeignPostsAtStatedRate
<1>2. QED
  BY <1>1, EngineInvariant, PTL

(************************ A reversal comes to nothing **********************)

\* A decision under the reversal's rule is the reversal of the one record
\* that is posted.
LEMMA ReversalDecision ==
    ASSUME NEW c, NEW m, NEW v, Answered(c, m, v), v.entry # None, v.entry.rule = RULE_4_15B.id
    PROVE  LET s == CHOOSE r \in PostedEntries(c) : TRUE
           IN  /\ s \in PostedEntries(c) /\ HasHistory(s)
               /\ v.entry.lines = ReversedLegs(s.lines) /\ v.accounts = HistoricalAccounts(s)
<1> DEFINE answer == ProposeFor(c)
           s == CHOOSE r \in PostedEntries(c) : TRUE
<1>1. /\ answer.kind \in {"skip", "review", "propose"}
      /\ v = Decide(c, answer, m) /\ Decide(c, answer, m).entry # None
  BY DEF Answered
<1>2. \A ids : UnderRules(answer, ids) => "4.15b" \in ids
  <2> HIDE DEF answer
  <2>1. v.entry.rule = "4.15b"
    BY RuleIds
  <2>2. QED
    BY <1>1, <2>1, DecisionKeepsTheRule
<1>3. answer = Cancellation(c)
  <2>1. ~ UnderRules(answer, OTHER_RULE_IDS)
    BY <1>2 DEF OTHER_RULE_IDS
  <2>2. ASSUME NEW row \in REP_ROWS PROVE answer # RepRule(c, row)
    <3>1. UnderRules(RepRule(c, row), {row.id}) /\ row.id \in {"4.5a", "4.5b"}
      BY RowsAnswerAsThemselves, RuleIds
    <3>2. QED
      BY <1>2, <3>1
  <2>3. ASSUME NEW row \in CREDIT_NOTE_ROWS PROVE answer # CreditNote(c, row)
    <3>1. UnderRules(CreditNote(c, row), {row.id}) /\ row.id \in {"4.6", "4.7", "4.8", "4.9"}
      BY RowsAnswerAsThemselves, RuleIds
    <3>2. QED
      BY <1>2, <3>1
  <2>4. QED
    BY <2>1, <2>2, <2>3, WhoAnswers, Zenon
<1>4. PostedEntries(c) # {} /\ answer = Reversal(c, s)
  <2>1. ~ UnderRules(answer, {"4.15a"})
    BY <1>2
  <2>2. answer # CancellationSkip(c)
    <3>1. UnderRules(ReviewRequest(None, CancellationFlags(c), NoAccounts), {"4.15a"})
      BY DEF ReviewRequest, UnderRules
    <3>2. UnderRules(Skip(ProposedJournalEntry(RULE_4_15A, c, c.doc.uuid, c.doc.hash,
                                               c.cancelledOn, <<>>, {})), {RULE_4_15A.id})
      BY ProposeRule
    <3>3. QED
      BY <2>1, <3>1, <3>2, RuleIds DEF CancellationSkip
  <2>3. answer # Raise
    BY <1>1 DEF Raise
  <2>4. QED
    BY <1>3, <2>2, <2>3, Zenon DEF Cancellation
<1>5. s \in PostedEntries(c)
  BY <1>4
<1> DEFINE entry == ProposedJournalEntry(RULE_4_15B, c, s.source, s.hash, c.cancelledOn,
                                         ReversedLegs(s.lines), {})
<1>6. HasHistory(s) /\ answer = ReviewRequest(entry, {"CANCELLED_AFTER_POSTING"}, HistoricalAccounts(s))
  <2>1. answer # Raise
    BY <1>1 DEF Raise
  <2>2. answer # ReviewRequest(None, {"MISSING_SOURCE_FIELD"}, NoAccounts)
    <3>1. UnderRules(ReviewRequest(None, {"MISSING_SOURCE_FIELD"}, NoAccounts), {})
      BY DEF ReviewRequest, UnderRules
    <3>2. QED
      BY <1>2, <3>1
  <2>3. QED
    BY <1>4, <2>1, <2>2, Zenon DEF Reversal
<1>7. v.entry = entry /\ v.accounts = HistoricalAccounts(s)
  <2>1. answer.kind = "review" /\ answer.entry = entry /\ answer.accounts = HistoricalAccounts(s)
    BY <1>6 DEF ReviewRequest
  <2> HIDE DEF answer, entry, s
  <2>2. QED
    BY <1>1, <2>1 DEF Decide, DecideReview, PostingDecision
<1>8. entry.lines = ReversedLegs(s.lines)
  BY DEF ProposedJournalEntry
<1>9. QED
  BY <1>5, <1>6, <1>7, <1>8

\* What the legs of one account move on a side, leg by leg.
Moves(lines, a, side) ==
    [i \in DOMAIN lines |-> IF lines[i].account = a /\ lines[i].side = side
                            THEN lines[i].amount ELSE 0]

\* The second list is the first one on the other sides.
Undoes(lines, posted) ==
    /\ DOMAIN lines = DOMAIN posted
    /\ \A i \in DOMAIN posted :
          /\ lines[i].account = posted[i].account /\ lines[i].amount = posted[i].amount
          /\ lines[i].side = Opposite(posted[i].side)

LEMMA ListOfValues ==
    ASSUME NEW T, NEW q \in Nat, NEW f, f = [i \in 1..q |-> f[i]], \A i \in 1..q : f[i] \in T
    PROVE  f \in Seq(T)
OBVIOUS

\* The legs of one account, the others moving nothing.
OfAccount(lines, a) ==
    [i \in DOMAIN lines |-> [side |-> lines[i].side,
                             amount |-> IF lines[i].account = a THEN lines[i].amount ELSE 0]]

LEMMA MovesOfBoth ==
    ASSUME NEW k, NEW l, k \in Seq(ToSet(k)), l \in Seq(ToSet(l)), NEW a
    PROVE  \A side : SideTotal(OfAccount(k \o l, a), side)
                        = SumAmounts(Moves(k, a, side) \o Moves(l, a, side))
<1> TAKE side
<1> DEFINE both == k \o l
           moved == OfAccount(both, a)
           parts == [i \in DOMAIN moved |-> IF moved[i].side = side THEN moved[i].amount ELSE 0]
           x == Moves(k, a, side)
           y == Moves(l, a, side)
           S == ToSet(k) \cup ToSet(l)
           n == Len(k)
           j == Len(l)
<1>1. /\ k \in Seq(S) /\ l \in Seq(S)
      /\ n \in Nat /\ j \in Nat /\ DOMAIN k = 1..n /\ DOMAIN l = 1..j
  OBVIOUS
<1>2. /\ both \in Seq(S) /\ DOMAIN both = 1..n + j
      /\ \A i \in 1..n + j : both[i] = IF i <= n THEN k[i] ELSE l[i - n]
  <2> HIDE DEF S
  <2>1. QED
    BY <1>1, ConcatProperties
<1> DEFINE T == {x[i] : i \in DOMAIN k} \cup {y[i] : i \in DOMAIN l}
<1>3. /\ x \in Seq(T) /\ Len(x) = n /\ \A i \in 1..n : x[i] = IF k[i].account = a /\ k[i].side = side
                                                             THEN k[i].amount ELSE 0
      /\ y \in Seq(T) /\ Len(y) = j /\ \A i \in 1..j : y[i] = IF l[i].account = a /\ l[i].side = side
                                                             THEN l[i].amount ELSE 0
  <2>1. DOMAIN x = 1..n /\ DOMAIN y = 1..j
    BY <1>1 DEF Moves
  <2>2. /\ \A i \in 1..n : x[i] = IF k[i].account = a /\ k[i].side = side THEN k[i].amount ELSE 0
        /\ \A i \in 1..j : y[i] = IF l[i].account = a /\ l[i].side = side THEN l[i].amount ELSE 0
    BY <1>1 DEF Moves
  <2>3. x = [i \in 1..n |-> x[i]] /\ y = [i \in 1..j |-> y[i]]
    BY <1>1 DEF Moves
  <2>4. (\A i \in 1..n : x[i] \in T) /\ (\A i \in 1..j : y[i] \in T)
    BY <1>1
  <2> HIDE DEF x, y, n, j, T
  <2>5. \A q \in Nat : \A f : f = [i \in 1..q |-> f[i]] /\ (\A i \in 1..q : f[i] \in T) => f \in Seq(T)
    BY ListOfValues, Zenon
  <2>6. n \in Nat /\ j \in Nat
    BY <1>1 DEF n, j
  <2>7. x \in Seq(T)
    BY <2>3, <2>4, <2>5, <2>6, Zenon
  <2>8. y \in Seq(T)
    BY <2>3, <2>4, <2>5, <2>6, Zenon
  <2>9. Len(x) = n /\ Len(y) = j
    BY <2>1, <2>6, <2>7, <2>8
  <2>10. QED
    BY <2>2, <2>7, <2>8, <2>9
<1>4. /\ DOMAIN parts = 1..n + j
      /\ \A i \in 1..n + j : parts[i] = IF both[i].account = a /\ both[i].side = side
                                        THEN both[i].amount ELSE 0
  BY <1>2 DEF OfAccount
<1> DEFINE w == x \o y
<1> HIDE DEF x, y, n, j, both, S, T, parts
<1>5. /\ w \in Seq(T) /\ Len(w) = n + j
      /\ \A i \in 1..n + j : w[i] = IF i <= n THEN x[i] ELSE y[i - n]
  <2>1. /\ w \in Seq(T) /\ Len(w) = Len(x) + Len(y)
        /\ \A i \in 1..Len(x) + Len(y) : w[i] = IF i <= Len(x) THEN x[i] ELSE y[i - Len(x)]
    BY <1>3, ConcatProperties, Zenon
  <2> HIDE DEF w
  <2>2. QED
    BY <1>3, <2>1
<1> HIDE DEF w
<1>6. \A i \in 1..n + j : parts[i] = w[i]
  <2>1. TAKE i \in 1..n + j
  <2>2. CASE i <= n
    <3>1. i \in 1..n
      BY <1>1, <2>2
    <3>2. parts[i] = IF k[i].account = a /\ k[i].side = side THEN k[i].amount ELSE 0
      BY <1>2, <1>4, <2>2
    <3>3. QED
      BY <1>3, <1>5, <2>2, <3>1, <3>2
  <2>3. CASE ~ (i <= n)
    <3>1. i - n \in 1..j
      BY <1>1, <2>3
    <3>2. parts[i] = IF l[i - n].account = a /\ l[i - n].side = side THEN l[i - n].amount ELSE 0
      BY <1>2, <1>4, <2>3
    <3>3. QED
      BY <1>3, <1>5, <2>3, <3>1, <3>2
  <2>4. QED
    BY <2>2, <2>3
<1>7. parts = w
  <2>1. parts = [i \in 1..n + j |-> parts[i]]
    BY <1>4 DEF parts
  <2>2. w = [i \in 1..n + j |-> w[i]]
    BY <1>5
  <2>3. QED
    BY <1>6, <2>1, <2>2
<1>8. QED
  BY <1>7, Zenon DEF SideTotal, parts, w, both, x, y

LEMMA UndoneIsBalanced ==
    ASSUME NEW posted, NEW lines, NEW a, posted \in Seq(ToSet(posted)), Undoes(lines, posted),
           \A leg \in ToSet(posted) : leg.side \in {DEBE, HABER} /\ leg.amount \in Amount,
           lines \in Seq(ToSet(lines))
    PROVE  IsBalanced(OfAccount(posted \o lines, a))
<1> DEFINE moved == OfAccount(posted \o lines, a)
           debe == Moves(posted, a, DEBE)
           haber == Moves(posted, a, HABER)
<1>1. \A side : SideTotal(moved, side) = SumAmounts(Moves(posted, a, side) \o Moves(lines, a, side))
  BY MovesOfBoth
<1>2. Opposite(DEBE) = HABER /\ Opposite(HABER) = DEBE /\ DEBE # HABER
  BY DEF Opposite, DEBE, HABER
<1>3. \A i \in DOMAIN posted : posted[i].side \in {DEBE, HABER} /\ posted[i].amount \in Amount
  BY DEF ToSet
<1>4. Moves(lines, a, DEBE) = haber /\ Moves(lines, a, HABER) = debe
  <2>1. \A i \in DOMAIN posted : /\ lines[i].side = DEBE <=> posted[i].side = HABER
                                 /\ lines[i].side = HABER <=> posted[i].side = DEBE
    BY <1>2, <1>3 DEF Undoes
  <2>2. QED
    BY <2>1 DEF Moves, Undoes
<1>5. debe \in Seq(Amount) /\ haber \in Seq(Amount)
  <2>1. DOMAIN posted = 1..Len(posted) /\ Len(posted) \in Nat /\ 0 \in Amount
    BY DEF Amount
  <2>2. QED
    BY <1>3, <2>1 DEF Moves
<1> HIDE DEF debe, haber, moved
<1>6. /\ SideTotal(moved, DEBE) = Plus(SumAmounts(debe), SumAmounts(haber))
      /\ SideTotal(moved, HABER) = Plus(SumAmounts(haber), SumAmounts(debe))
  BY <1>1, <1>4, <1>5, SumOfBoth DEF debe, haber
<1>7. SumAmounts(debe) \in Amount /\ SumAmounts(haber) \in Amount
  BY <1>5, SumIsAmount
<1>8. Plus(SumAmounts(debe), SumAmounts(haber)) = Plus(SumAmounts(haber), SumAmounts(debe))
  BY <1>7 DEF Plus, IsFinite, Amount
<1>9. IsBalanced(moved)
  BY <1>6, <1>8 DEF IsBalanced
<1>10. QED
  BY <1>9 DEF moved

\* The reversal's record puts each leg on the account it was posted to.
LEMMA RecordUndoes ==
    ASSUME NEW s, NEW v, NEW t, HasHistory(s), s.lines \in Seq(ToSet(s.lines)),
           v.entry.lines = ReversedLegs(s.lines), v.accounts = HistoricalAccounts(s)
    PROVE  LET lines == ToRecord(v, t).lines
           IN  Undoes(lines, s.lines) /\ lines \in Seq(ToSet(lines))
<1> DEFINE lines == ToRecord(v, t).lines
           legs == v.entry.lines
<1>1. DOMAIN legs = DOMAIN s.lines /\ DOMAIN lines = DOMAIN legs
  BY RecordOf DEF ReversedLegs
<1>2. ASSUME NEW i \in DOMAIN s.lines
      PROVE  /\ lines[i].account = s.lines[i].account /\ lines[i].amount = s.lines[i].amount
             /\ lines[i].side = Opposite(s.lines[i].side)
  <2>1. /\ legs[i].role = s.lines[i].role /\ legs[i].amount = s.lines[i].amount
        /\ legs[i].side = Opposite(s.lines[i].side)
    BY ReversedLeg
  <2>2. s.lines[i].role \in DOMAIN v.accounts /\ v.accounts[s.lines[i].role] = s.lines[i].account
    <3> DEFINE role == s.lines[i].role
               k == CHOOSE k \in DOMAIN s.lines : s.lines[k].role = role
    <3>1. k \in DOMAIN s.lines /\ s.lines[k].role = role
      OBVIOUS
    <3>2. role \in RolesOf(s.lines)
      BY DEF RolesOf
    <3>3. v.accounts[role] = s.lines[k].account /\ role \in DOMAIN v.accounts
      BY <3>2 DEF HistoricalAccounts
    <3> HIDE DEF k
    <3>4. s.lines[k].account = s.lines[i].account
      BY <3>1 DEF HasHistory
    <3>5. QED
      BY <3>3, <3>4
  <2>3. /\ lines[i].side = legs[i].side /\ lines[i].amount = legs[i].amount
        /\ legs[i].role \in DOMAIN v.accounts => lines[i].account = v.accounts[legs[i].role]
    BY <1>1, RecordedLeg
  <2>4. QED
    BY <2>1, <2>2, <2>3
<1>3. lines \in Seq(ToSet(lines))
  <2>1. lines = [i \in DOMAIN legs |-> lines[i]]
    BY DEF ToRecord
  <2>2. DOMAIN lines = 1..Len(s.lines) /\ Len(s.lines) \in Nat
    BY <1>1
  <2> DEFINE n == Len(s.lines)
  <2> HIDE DEF lines, legs, n
  <2>3. lines = [i \in 1..n |-> lines[i]] /\ n \in Nat
    BY <1>1, <2>1, <2>2 DEF n
  <2>4. \A i \in 1..n : lines[i] \in ToSet(lines)
    BY <2>2 DEF ToSet, n
  <2>5. QED
    BY <2>3, <2>4
<1>4. QED
  BY <1>1, <1>2, <1>3 DEF Undoes

\* A reversal and the posting it takes back leave every account at zero, under
\* any chart (cancellation.py and PostingDecision.to_record).
THEOREM ReversalsComeToZero == Spec => []ReversalZeroesPosting
<1>1. IInv => ReversalZeroesPosting
  <2>1. SUFFICES ASSUME IInv, HasEntry, verdict.entry.rule = RULE_4_15B.id
                 PROVE  ReversalZeroesPosting
    BY DEF ReversalZeroesPosting
  <2> DEFINE s == CHOOSE r \in PostedEntries(ctx) : TRUE
             lines == ToRecord(verdict, 0).lines
             both == s.lines \o lines
             AccountsOf(legs) == {legs[i].account : i \in DOMAIN legs}
  <2>2. TypedContext(ctx, chart) /\ Answered(ctx, chart, verdict) /\ verdict.entry # None
    BY <2>1, ContextIsTyped, WhatIsDecided DEF HasEntry
  <2>3. /\ s \in PostedEntries(ctx) /\ HasHistory(s)
        /\ verdict.entry.lines = ReversedLegs(s.lines) /\ verdict.accounts = HistoricalAccounts(s)
    BY <2>1, <2>2, ReversalDecision
  <2>4. /\ s.lines \in Seq(ToSet(s.lines))
        /\ \A leg \in ToSet(s.lines) : leg.side \in {DEBE, HABER} /\ leg.amount \in Amount
    BY <2>2, <2>3 DEF TypedContext, PostedRecord
  <2> HIDE DEF s
  <2>5. Undoes(lines, s.lines) /\ lines \in Seq(ToSet(lines))
    BY <2>3, <2>4, RecordUndoes
  <2> HIDE DEF lines
  <2>6. AccountsOf(lines) = AccountsOf(s.lines)
    BY <2>5 DEF Undoes
  <2>7. \A a : IsBalanced(OfAccount(both, a))
    BY <2>4, <2>5, UndoneIsBalanced, Zenon
  <2>8. QED
    BY <2>6, <2>7, Zenon DEF ReversalZeroesPosting, OfAccount, s, lines
<1>2. QED
  BY <1>1, EngineInvariant, PTL

(*********************** What a payment complement books *******************)

\* The accounts a REP row moves are four of their own.
LEMMA RepRoles ==
    ASSUME NEW row \in REP_ROWS
    PROVE  /\ row.moneyRole # "clearing" /\ row.moneyRole \notin {row.releasedRole, row.realizedRole}
           /\ "clearing" \notin {row.releasedRole, row.realizedRole}
           /\ row.cashSide \in {DEBE, HABER}
BY SMTT(60) DEF REP_ROWS, RepRow

\* A docto ready to be booked: paid and taxed in whole cents, its original posted.
Ready(d, posted) ==
    GetsLegs(d) /\ d.uuid \in posted /\ d.pagado \in Int /\ DoctoIva(d) \in Int

\* What a leg adds to the roles asked for, on the side asked for.
Adds(leg, roles, side) ==
    IF leg.side = side /\ leg.role \in roles THEN leg.amount ELSE 0

PairLegs(row, d) ==
    <<RepLeg("clearing", row.cashSide, d, d.pagado),
      RepLeg(row.moneyRole, Opposite(row.cashSide), d, d.pagado)>>
IvaLegs(row, d) ==
    <<RepLeg(row.releasedRole, row.cashSide, d, DoctoIva(d)),
      RepLeg(row.realizedRole, Opposite(row.cashSide), d, DoctoIva(d))>>

LEMMA SettledLegs ==
    ASSUME NEW row, NEW d
    PROVE  DoctoLegs(row, d, TRUE) = PairLegs(row, d) \o IF DoctoIva(d) > 0 THEN IvaLegs(row, d) ELSE <<>>
BY DEF DoctoLegs, PairLegs, IvaLegs

\* The legs that may be written for these doctos.
LegsOf(row, doctos) ==
    UNION {ToSet(PairLegs(row, d)) \cup ToSet(IvaLegs(row, d)) : d \in ToSet(doctos)}

Adding(row, doctos, roles, side) == [leg \in LegsOf(row, doctos) |-> Adds(leg, roles, side)]

LEMMA LegsOfDocto ==
    ASSUME NEW row, NEW doctos, NEW d \in ToSet(doctos)
    PROVE  /\ RepLeg("clearing", row.cashSide, d, d.pagado) \in LegsOf(row, doctos)
           /\ RepLeg(row.moneyRole, Opposite(row.cashSide), d, d.pagado) \in LegsOf(row, doctos)
           /\ RepLeg(row.releasedRole, row.cashSide, d, DoctoIva(d)) \in LegsOf(row, doctos)
           /\ RepLeg(row.realizedRole, Opposite(row.cashSide), d, DoctoIva(d)) \in LegsOf(row, doctos)
           /\ DoctoLegs(row, d, TRUE) \in Seq(LegsOf(row, doctos))
<1> DEFINE Legs == LegsOf(row, doctos)
           a == RepLeg("clearing", row.cashSide, d, d.pagado)
           b == RepLeg(row.moneyRole, Opposite(row.cashSide), d, d.pagado)
           x == RepLeg(row.releasedRole, row.cashSide, d, DoctoIva(d))
           y == RepLeg(row.realizedRole, Opposite(row.cashSide), d, DoctoIva(d))
<1>1. PairLegs(row, d) = <<a, b>> /\ IvaLegs(row, d) = <<x, y>>
  BY DEF PairLegs, IvaLegs
<1>2. ToSet(PairLegs(row, d)) \subseteq Legs /\ ToSet(IvaLegs(row, d)) \subseteq Legs
  BY DEF LegsOf
<1> HIDE DEF a, b, x, y, Legs
<1>3. \A u, v : u \in ToSet(<<u, v>>) /\ v \in ToSet(<<u, v>>)
  <2>1. TAKE u, v
  <2>2. 1 \in DOMAIN <<u, v>> /\ 2 \in DOMAIN <<u, v>> /\ <<u, v>>[1] = u /\ <<u, v>>[2] = v
    OBVIOUS
  <2>3. QED
    BY <2>2, Zenon DEF ToSet
<1>4. a \in Legs /\ b \in Legs /\ x \in Legs /\ y \in Legs
  BY <1>1, <1>2, <1>3
<1>5. <<a, b>> \in Seq(Legs) /\ <<x, y>> \in Seq(Legs) /\ <<>> \in Seq(Legs)
  BY <1>4
<1>6. DoctoLegs(row, d, TRUE) \in Seq(Legs)
  <2>1. \A s, t \in Seq(Legs) : s \o t \in Seq(Legs)
    OBVIOUS
  <2>2. DoctoLegs(row, d, TRUE) = <<a, b>> \o IF DoctoIva(d) > 0 THEN <<x, y>> ELSE <<>>
    BY <1>1, SettledLegs, Zenon
  <2>3. QED
    BY <1>5, <2>1, <2>2
<1>7. QED
  BY <1>4, <1>6 DEF a, b, x, y, Legs

LEMMA AddingAmounts ==
    ASSUME NEW row, NEW doctos, NEW roles, NEW side,
           \A d \in ToSet(doctos) : d.pagado \in Int /\ DoctoIva(d) \in Int
    PROVE  Adding(row, doctos, roles, side) \in [LegsOf(row, doctos) -> Amount]
<1>1. \A leg \in LegsOf(row, doctos) : leg.amount \in Int
  <2>1. TAKE leg \in LegsOf(row, doctos)
  <2>2. PICK d \in ToSet(doctos) : leg \in ToSet(PairLegs(row, d)) \/ leg \in ToSet(IvaLegs(row, d))
    BY DEF LegsOf
  <2>3. \A i \in DOMAIN PairLegs(row, d) : PairLegs(row, d)[i].amount = d.pagado
    BY DEF PairLegs, RepLeg, JournalLine
  <2>4. \A i \in DOMAIN IvaLegs(row, d) : IvaLegs(row, d)[i].amount = DoctoIva(d)
    BY DEF IvaLegs, RepLeg, JournalLine
  <2>5. leg.amount \in {d.pagado, DoctoIva(d)}
    BY <2>2, <2>3, <2>4 DEF ToSet
  <2>6. QED
    BY <2>5
<1>2. \A leg \in LegsOf(row, doctos) : Adds(leg, roles, side) \in Amount
  BY <1>1 DEF Adds, Amount
<1>3. QED
  BY <1>2 DEF Adding

\* What is written for one docto weighs what its pairs of legs add.
WeighsItsLegs(row, doctos, d, roles, side) ==
    LET cash == Adds(RepLeg("clearing", row.cashSide, d, d.pagado), roles, side)
        money == Adds(RepLeg(row.moneyRole, Opposite(row.cashSide), d, d.pagado), roles, side)
        released == Adds(RepLeg(row.releasedRole, row.cashSide, d, DoctoIva(d)), roles, side)
        realized == Adds(RepLeg(row.realizedRole, Opposite(row.cashSide), d, DoctoIva(d)),
                         roles, side)
    IN  Weight(Adding(row, doctos, roles, side), DoctoLegs(row, d, TRUE))
          = cash + money + IF DoctoIva(d) > 0 THEN released + realized ELSE 0

LEMMA DoctoWeight ==
    ASSUME NEW row, NEW doctos, NEW d \in ToSet(doctos), NEW roles, NEW side,
           \A e \in ToSet(doctos) : e.pagado \in Int /\ DoctoIva(e) \in Int
    PROVE  WeighsItsLegs(row, doctos, d, roles, side)
<1> DEFINE Legs == LegsOf(row, doctos)
           w == Adding(row, doctos, roles, side)
           a == RepLeg("clearing", row.cashSide, d, d.pagado)
           b == RepLeg(row.moneyRole, Opposite(row.cashSide), d, d.pagado)
           x == RepLeg(row.releasedRole, row.cashSide, d, DoctoIva(d))
           y == RepLeg(row.realizedRole, Opposite(row.cashSide), d, DoctoIva(d))
           legs == DoctoLegs(row, d, TRUE)
<1>1. a \in Legs /\ b \in Legs /\ x \in Legs /\ y \in Legs
  BY LegsOfDocto
<1>2. w \in [Legs -> Amount]
  BY AddingAmounts
<1>3. /\ w[a] = Adds(a, roles, side) /\ w[b] = Adds(b, roles, side)
      /\ w[x] = Adds(x, roles, side) /\ w[y] = Adds(y, roles, side)
  BY <1>1 DEF Adding
<1>4. /\ Adds(a, roles, side) \in Int /\ Adds(b, roles, side) \in Int
      /\ Adds(x, roles, side) \in Int /\ Adds(y, roles, side) \in Int
  BY DEF Adds, RepLeg, JournalLine
<1>5. legs = <<a, b>> \o IF DoctoIva(d) > 0 THEN <<x, y>> ELSE <<>>
  BY SettledLegs, Zenon DEF PairLegs, IvaLegs
<1> HIDE DEF Legs, w, a, b, x, y, legs
<1>6. /\ Weight(w, <<a, b>>) = Plus(w[a], w[b]) /\ Weight(w, <<x, y>>) = Plus(w[x], w[y])
  BY <1>1, <1>2, WeightOfTwo
<1>7. \A p, q \in Int : Plus(p, q) = p + q
  BY Sentinels DEF Plus, IsFinite
<1>8. <<a, b>> \in Seq(Legs) /\ <<x, y>> \in Seq(Legs)
  BY <1>1
<1>9. CASE DoctoIva(d) > 0
  <2>1. Weight(w, legs) = Plus(Weight(w, <<a, b>>), Weight(w, <<x, y>>))
    <3>1. Weight(w, <<a, b>> \o <<x, y>>) = Plus(Weight(w, <<a, b>>), Weight(w, <<x, y>>))
      BY <1>2, <1>8, WeightOfBoth
    <3>2. legs = <<a, b>> \o <<x, y>>
      BY <1>5, <1>9
    <3>3. QED
      BY <3>1, <3>2, Zenon
  <2> DEFINE wa == w[a]
             wb == w[b]
             wx == w[x]
             wy == w[y]
  <2>2. wa \in Int /\ wb \in Int /\ wx \in Int /\ wy \in Int
    BY <1>3, <1>4
  <2>3. Weight(w, legs) = Plus(Plus(wa, wb), Plus(wx, wy))
    BY <1>6, <2>1, Zenon
  <2> HIDE DEF wa, wb, wx, wy
  <2>4. Weight(w, legs) = wa + wb + (wx + wy)
    BY <1>7, <2>2, <2>3
  <2>5. QED
    BY <1>3, <1>9, <2>4 DEF WeighsItsLegs, wa, wb, wx, wy, w, a, b, x, y, legs
<1>10. CASE ~ (DoctoIva(d) > 0)
  <2>1. legs = <<a, b>>
    BY <1>5, <1>10, NothingAfterTwo
  <2> DEFINE wa == w[a]
             wb == w[b]
  <2>2. wa \in Int /\ wb \in Int
    BY <1>3, <1>4
  <2>3. Weight(w, legs) = Plus(wa, wb)
    BY <1>6, <2>1, Zenon
  <2> HIDE DEF wa, wb
  <2>4. Weight(w, legs) = wa + wb + 0
    BY <1>7, <2>2, <2>3
  <2>5. QED
    BY <1>3, <1>10, <2>4 DEF WeighsItsLegs, wa, wb, w, a, b, x, y, legs
<1>11. QED
  BY <1>9, <1>10

\* Written lines move what their legs add.
LEMMA RolesWeigh ==
    ASSUME NEW row, NEW doctos, NEW lines \in Seq(LegsOf(row, doctos)), NEW roles, NEW side
    PROVE  RolesTotal(lines, roles, side) = Weight(Adding(row, doctos, roles, side), lines)
<1> DEFINE ofRoles == [i \in DOMAIN lines |->
                         [side |-> lines[i].side,
                          amount |-> IF lines[i].role \in roles THEN lines[i].amount ELSE 0]]
           left == [i \in DOMAIN ofRoles |->
                      IF ofRoles[i].side = side THEN ofRoles[i].amount ELSE 0]
           right == [i \in DOMAIN lines |-> Adding(row, doctos, roles, side)[lines[i]]]
<1>1. DOMAIN ofRoles = DOMAIN lines /\ \A i \in DOMAIN lines : lines[i] \in LegsOf(row, doctos)
  OBVIOUS
<1>2. \A i \in DOMAIN lines : left[i] = Adds(lines[i], roles, side) /\ right[i] = Adds(lines[i], roles, side)
  BY <1>1 DEF Adds, Adding
<1>3. left = right
  BY <1>1, <1>2
<1>4. RolesTotal(lines, roles, side) = SumAmounts(left)
  BY DEF RolesTotal, SideTotal
<1>5. QED
  BY <1>3, <1>4, Zenon DEF Weight

\* All the lines of a complement move what the legs of each docto do.
LEMMA LinesWeigh ==
    ASSUME NEW row, NEW doctos, doctos \in Seq(ToSet(doctos)), NEW posted, NEW roles, NEW side,
           \A d \in ToSet(doctos) : Ready(d, posted)
    PROVE  RolesTotal(RepLegs(row, doctos, posted), roles, side)
             = SumAmounts([i \in DOMAIN doctos |->
                  Weight(Adding(row, doctos, roles, side), DoctoLegs(row, doctos[i], TRUE))])
<1> DEFINE Legs == LegsOf(row, doctos)
           w == Adding(row, doctos, roles, side)
           lists == [i \in DOMAIN doctos |-> DoctoLegs(row, doctos[i], TRUE)]
           written == [i \in DOMAIN doctos |->
              IF GetsLegs(doctos[i]) THEN DoctoLegs(row, doctos[i], doctos[i].uuid \in posted) ELSE <<>>]
<1>1. \A i \in DOMAIN doctos : doctos[i] \in ToSet(doctos)
  BY DEF ToSet
<1>2. \A d \in ToSet(doctos) : GetsLegs(d) /\ (d.uuid \in posted) = TRUE /\ d.pagado \in Int /\ DoctoIva(d) \in Int
  BY DEF Ready
<1>3. written = lists
  <2>1. \A i \in DOMAIN doctos :
           (IF GetsLegs(doctos[i]) THEN DoctoLegs(row, doctos[i], doctos[i].uuid \in posted) ELSE <<>>)
             = DoctoLegs(row, doctos[i], TRUE)
    <3>1. TAKE i \in DOMAIN doctos
    <3>2. GetsLegs(doctos[i]) /\ (doctos[i].uuid \in posted) = TRUE
      BY <1>1, <1>2
    <3>3. QED
      BY <3>2, Zenon
  <2>2. QED
    BY <2>1, Zenon
<1>4. \A i \in DOMAIN doctos : DoctoLegs(row, doctos[i], TRUE) \in Seq(Legs)
  BY <1>1, LegsOfDocto
<1>5. w \in [Legs -> Amount]
  BY <1>2, AddingAmounts
<1>6. lists \in Seq(Seq(Legs))
  <2>1. DOMAIN doctos = 1..Len(doctos) /\ Len(doctos) \in Nat
    OBVIOUS
  <2> DEFINE T == Seq(Legs)
             n == Len(doctos)
  <2>2. \A i \in 1..n : DoctoLegs(row, doctos[i], TRUE) \in T
    BY <1>4, <2>1
  <2> HIDE DEF T
  <2>3. lists = [i \in 1..n |-> DoctoLegs(row, doctos[i], TRUE)] /\ n \in Nat
    BY <2>1
  <2> HIDE DEF lists, n
  <2>4. lists \in Seq(T)
    <3> DEFINE legs(i) == DoctoLegs(row, doctos[i], TRUE)
    <3>1. \A i \in 1..n : legs(i) \in T
      BY <2>2
    <3>2. lists = [i \in 1..n |-> legs(i)]
      BY <2>3
    <3> HIDE DEF legs
    <3>3. [i \in 1..n |-> legs(i)] \in Seq(T)
      BY <2>3, <3>1
    <3>4. QED
      BY <3>2, <3>3, Zenon
  <2>5. QED
    BY <2>4 DEF T
<1>7. RepLegs(row, doctos, posted) = FlattenSeq(lists)
  BY <1>3, Zenon DEF RepLegs
<1> HIDE DEF Legs, w, lists
<1>8. Weight(w, FlattenSeq(lists)) = SumAmounts([i \in DOMAIN lists |-> Weight(w, lists[i])])
  BY <1>5, <1>6, WeightOfLists
<1>9. FlattenSeq(lists) \in Seq(Legs)
  BY <1>6, FlattenHolds
<1>10. RolesTotal(FlattenSeq(lists), roles, side) = Weight(w, FlattenSeq(lists))
  BY <1>9, RolesWeigh DEF w, Legs
<1>11. [i \in DOMAIN lists |-> Weight(w, lists[i])]
         = [i \in DOMAIN doctos |-> Weight(w, DoctoLegs(row, doctos[i], TRUE))]
  BY DEF lists
<1>12. QED
  BY <1>7, <1>8, <1>10, <1>11, Zenon DEF w

\* What one docto moves, account by account.
LEMMA DoctoMoves ==
    ASSUME NEW row \in REP_ROWS, NEW doctos, NEW posted, NEW d \in ToSet(doctos),
           \A e \in ToSet(doctos) : Ready(e, posted)
    PROVE  LET moves(roles, side) == Weight(Adding(row, doctos, roles, side), DoctoLegs(row, d, TRUE))
               iva == {row.releasedRole, row.realizedRole}
           IN  /\ moves({"clearing"}, row.cashSide) = d.pagado
               /\ moves({"clearing"}, Opposite(row.cashSide)) = 0
               /\ moves({row.moneyRole}, row.cashSide) = 0
               /\ moves({row.moneyRole}, Opposite(row.cashSide)) = d.pagado
               /\ moves(iva, DEBE) = IF DoctoIva(d) > 0 THEN DoctoIva(d) ELSE 0
               /\ moves(iva, HABER) = IF DoctoIva(d) > 0 THEN DoctoIva(d) ELSE 0
<1> DEFINE moves(roles, side) == Weight(Adding(row, doctos, roles, side), DoctoLegs(row, d, TRUE))
           iva == {row.releasedRole, row.realizedRole}
           cash(roles, side) == Adds(RepLeg("clearing", row.cashSide, d, d.pagado), roles, side)
           money(roles, side) == Adds(RepLeg(row.moneyRole, Opposite(row.cashSide), d, d.pagado), roles, side)
           released(roles, side) == Adds(RepLeg(row.releasedRole, row.cashSide, d, DoctoIva(d)), roles, side)
           realized(roles, side) == Adds(RepLeg(row.realizedRole, Opposite(row.cashSide), d, DoctoIva(d)),
                                         roles, side)
<1>1. \A e \in ToSet(doctos) : e.pagado \in Int /\ DoctoIva(e) \in Int
  BY DEF Ready
<1>2. \A roles, side : moves(roles, side)
         = cash(roles, side) + money(roles, side)
             + IF DoctoIva(d) > 0 THEN released(roles, side) + realized(roles, side) ELSE 0
  <2>1. TAKE roles, side
  <2>2. WeighsItsLegs(row, doctos, d, roles, side)
    BY <1>1, DoctoWeight, Zenon
  <2>3. QED
    BY <2>2, Zenon DEF WeighsItsLegs
<1>3. \A roles, side :
         /\ cash(roles, side) = IF row.cashSide = side /\ "clearing" \in roles THEN d.pagado ELSE 0
         /\ money(roles, side) = IF Opposite(row.cashSide) = side /\ row.moneyRole \in roles THEN d.pagado ELSE 0
         /\ released(roles, side) = IF row.cashSide = side /\ row.releasedRole \in roles THEN DoctoIva(d) ELSE 0
         /\ realized(roles, side) = IF Opposite(row.cashSide) = side /\ row.realizedRole \in roles THEN DoctoIva(d) ELSE 0
  BY DEF Adds, RepLeg, JournalLine
<1>4. /\ row.moneyRole # "clearing" /\ row.moneyRole \notin iva /\ "clearing" \notin iva
      /\ row.releasedRole \in iva /\ row.realizedRole \in iva
      /\ row.releasedRole \notin {"clearing", row.moneyRole} /\ row.realizedRole \notin {"clearing", row.moneyRole}
  BY RepRoles
<1>5. /\ \/ row.cashSide = DEBE /\ Opposite(row.cashSide) = HABER
         \/ row.cashSide = HABER /\ Opposite(row.cashSide) = DEBE
      /\ DEBE # HABER
  BY RepRoles DEF Opposite, DEBE, HABER
<1>6. d.pagado \in Int /\ DoctoIva(d) \in Int
  BY <1>1
<1> HIDE DEF moves, cash, money, released, realized, iva
<1>7. /\ moves({"clearing"}, row.cashSide) = d.pagado
      /\ moves({"clearing"}, Opposite(row.cashSide)) = 0
  <2>1. \A side : /\ released({"clearing"}, side) = 0 /\ realized({"clearing"}, side) = 0
                  /\ money({"clearing"}, side) = 0
    BY <1>3, <1>4
  <2>2. cash({"clearing"}, row.cashSide) = d.pagado /\ cash({"clearing"}, Opposite(row.cashSide)) = 0
    BY <1>3, <1>5
  <2>3. QED
    BY <1>2, <1>6, <2>1, <2>2
<1>8. /\ moves({row.moneyRole}, row.cashSide) = 0
      /\ moves({row.moneyRole}, Opposite(row.cashSide)) = d.pagado
  <2>1. \A side : /\ released({row.moneyRole}, side) = 0 /\ realized({row.moneyRole}, side) = 0
                  /\ cash({row.moneyRole}, side) = 0
    BY <1>3, <1>4
  <2>2. money({row.moneyRole}, row.cashSide) = 0 /\ money({row.moneyRole}, Opposite(row.cashSide)) = d.pagado
    BY <1>3, <1>5
  <2>3. QED
    BY <1>2, <1>6, <2>1, <2>2
<1>9. \A side \in {DEBE, HABER} : moves(iva, side) = IF DoctoIva(d) > 0 THEN DoctoIva(d) ELSE 0
  <2>1. TAKE side \in {DEBE, HABER}
  <2>2. cash(iva, side) = 0 /\ money(iva, side) = 0
    BY <1>3, <1>4
  <2>3. released(iva, side) + realized(iva, side) = DoctoIva(d)
    BY <1>3, <1>4, <1>5, <1>6
  <2>4. QED
    BY <1>2, <1>6, <2>2, <2>3
<1>10. QED
  BY <1>7, <1>8, <1>9 DEF moves, iva

\* The whole complement: in cash what was paid, against the receivable or the
\* payable, and the tax it releases is the tax it realizes.
LEMMA RepBooks ==
    ASSUME NEW row \in REP_ROWS, NEW doctos, doctos \in Seq(ToSet(doctos)), NEW posted,
           \A d \in ToSet(doctos) : Ready(d, posted)
    PROVE  LET lines == RepLegs(row, doctos, posted)
               paid == SumAmounts([i \in DOMAIN doctos |-> doctos[i].pagado])
               iva == {row.releasedRole, row.realizedRole}
           IN  /\ paid \in Int
               /\ RolesTotal(lines, {"clearing"}, row.cashSide) = paid
               /\ RolesTotal(lines, {"clearing"}, Opposite(row.cashSide)) = 0
               /\ RolesTotal(lines, {row.moneyRole}, row.cashSide) = 0
               /\ RolesTotal(lines, {row.moneyRole}, Opposite(row.cashSide)) = paid
               /\ RolesTotal(lines, iva, DEBE) \in Int
               /\ RolesTotal(lines, iva, DEBE) = RolesTotal(lines, iva, HABER)
<1> DEFINE lines == RepLegs(row, doctos, posted)
           iva == {row.releasedRole, row.realizedRole}
           moves(d, roles, side) == Weight(Adding(row, doctos, roles, side), DoctoLegs(row, d, TRUE))
           pagados == [i \in DOMAIN doctos |-> doctos[i].pagado]
           nothing == [i \in DOMAIN doctos |-> 0]
           taxes == [i \in DOMAIN doctos |-> IF DoctoIva(doctos[i]) > 0 THEN DoctoIva(doctos[i]) ELSE 0]
           moved(roles, side) == [i \in DOMAIN doctos |-> moves(doctos[i], roles, side)]
<1>1. /\ \A i \in DOMAIN doctos : doctos[i] \in ToSet(doctos)
      /\ DOMAIN doctos = 1..Len(doctos) /\ Len(doctos) \in Nat
  BY DEF ToSet
<1>2. \A roles, side : RolesTotal(lines, roles, side) = SumAmounts(moved(roles, side))
  BY LinesWeigh, Zenon
<1>3. \A i \in DOMAIN doctos :
         LET d == doctos[i]
         IN  /\ moves(d, {"clearing"}, row.cashSide) = d.pagado
             /\ moves(d, {"clearing"}, Opposite(row.cashSide)) = 0
             /\ moves(d, {row.moneyRole}, row.cashSide) = 0
             /\ moves(d, {row.moneyRole}, Opposite(row.cashSide)) = d.pagado
             /\ moves(d, iva, DEBE) = IF DoctoIva(d) > 0 THEN DoctoIva(d) ELSE 0
             /\ moves(d, iva, HABER) = IF DoctoIva(d) > 0 THEN DoctoIva(d) ELSE 0
  <2>1. TAKE i \in DOMAIN doctos
  <2> DEFINE d == doctos[i]
  <2>2. d \in ToSet(doctos)
    BY <1>1
  <2> HIDE DEF d
  <2>3. QED
    BY <2>2, DoctoMoves, Zenon DEF d
<1> HIDE DEF moves
<1>4. /\ moved({"clearing"}, row.cashSide) = pagados /\ moved({"clearing"}, Opposite(row.cashSide)) = nothing
      /\ moved({row.moneyRole}, row.cashSide) = nothing /\ moved({row.moneyRole}, Opposite(row.cashSide)) = pagados
      /\ moved(iva, DEBE) = taxes /\ moved(iva, HABER) = taxes
  <2> HIDE DEF iva
  <2>1. QED
    BY <1>3
<1>5. SumAmounts(nothing) = 0
  <2> DEFINE w == [d \in ToSet(doctos) |-> 0]
  <2>1. w \in [ToSet(doctos) -> Amount] /\ \A d \in ToSet(doctos) : w[d] = 0
    BY DEF Amount
  <2>2. nothing = [i \in DOMAIN doctos |-> w[doctos[i]]]
    BY <1>1
  <2> HIDE DEF w, nothing
  <2>3. Weight(w, doctos) = 0
    BY <2>1, WeightlessList
  <2>4. QED
    BY <2>2, <2>3 DEF Weight
<1>6. \A d \in ToSet(doctos) : d.pagado \in Int /\ DoctoIva(d) \in Int
  BY DEF Ready
<1>7. pagados \in Seq(Int) /\ taxes \in Seq(Int)
  <2>1. \A i \in 1..Len(doctos) : doctos[i].pagado \in Int /\ DoctoIva(doctos[i]) \in Int
    BY <1>1, <1>6
  <2>2. QED
    BY <1>1, <2>1
<1> HIDE DEF pagados, taxes, nothing, moved, lines, iva
<1>8. SumAmounts(pagados) \in Int /\ SumAmounts(taxes) \in Int
  BY <1>7, FiniteSum
<1>9. /\ RolesTotal(lines, {"clearing"}, row.cashSide) = SumAmounts(pagados)
      /\ RolesTotal(lines, {"clearing"}, Opposite(row.cashSide)) = 0
      /\ RolesTotal(lines, {row.moneyRole}, row.cashSide) = 0
      /\ RolesTotal(lines, {row.moneyRole}, Opposite(row.cashSide)) = SumAmounts(pagados)
      /\ RolesTotal(lines, iva, DEBE) = SumAmounts(taxes)
      /\ RolesTotal(lines, iva, HABER) = SumAmounts(taxes)
  BY <1>2, <1>4, <1>5
<1>10. QED
  BY <1>8, <1>9 DEF pagados, lines, iva

\* A payment complement is proposed by the row that claims it, and only when
\* nothing it states refuses or blocks it.
LEMMA ProposedRep ==
    ASSUME NEW c, ProposeFor(c).kind = "propose", c.doc.tipo = "P"
    PROVE  \E row \in REP_ROWS :
              LET pagos == c.doc.pagos
              IN  /\ RepClaims(c, row) /\ pagos # None
                  /\ RepRefusals(pagos) = {} /\ RepBlocking(pagos) = {}
                  /\ Unresolved(pagos, c.posted) = {}
                  /\ ProposeFor(c).entry.lines = RepLegs(row, Doctos(pagos), c.posted)
<1>1. c.doc.status # "CANCELLED"
  <2>1. Cancellation(c).kind # "propose"
    BY NeverProposed
  <2>2. QED
    BY <2>1 DEF ProposeFor
<1>2. ProposeFor(c) = RowAnswer(c)
  <2>1. OutOfScopeSkip(c).kind # "propose"
    BY DEF OutOfScopeSkip, Skip
  <2>2. Draft(c).kind # "propose"
    BY ReviewAnswer DEF Draft
  <2>3. QED
    BY <1>1, <2>1, <2>2 DEF ProposeFor
<1>3. \A row : IncomeClaims(c, row) => c.doc.tipo = "I"
  BY DEF IncomeClaims
<1>4. PICK row \in REP_ROWS : RepClaims(c, row) /\ RowAnswer(c) = RepRule(c, row)
  BY <1>2, <1>3, NeverProposed DEF RowAnswer
<1> DEFINE pagos == c.doc.pagos
           legs == RepLegs(row, Doctos(pagos), c.posted)
           entry == ProposedJournalEntry(row, c, c.doc.uuid, c.doc.hash, c.doc.fecha, legs, {})
<1>5. \A flags, lines : Review(c, row, flags, lines).kind # "propose"
  BY ReviewAnswer
<1>6. RepRule(c, row).kind = "propose"
  BY <1>2, <1>4
<1>7. /\ pagos # None /\ RepRefusals(pagos) = {}
      /\ RepBlocking(pagos) \cup Unresolved(pagos, c.posted) = {}
      /\ RepRule(c, row) = Propose(entry)
  <2> HIDE DEF entry, legs
  <2>1. QED
    BY <1>5, <1>6, Zenon DEF RepRule, entry, legs
<1>8. Propose(entry).entry.lines = legs
  <2> HIDE DEF legs
  <2>1. QED
    BY DEF Propose, ProposedJournalEntry
<1>9. RepBlocking(pagos) = {} /\ Unresolved(pagos, c.posted) = {}
  BY <1>7
<1>10. QED
  BY <1>2, <1>4, <1>7, <1>8, <1>9, Zenon

\* The tax of a docto is a sum of the finite amounts it states.
LEMMA DoctoIvaIsFinite ==
    ASSUME NEW d, TypedTaxes(TaxesOf(d))
    PROVE  DoctoIva(d) \in Int
<1> DEFINE taxes == TaxesOf(d)
           moved(t) == IF IsIva(t) /\ t.importe # None /\ IsFinite(t.importe) THEN t.importe ELSE 0
           amounts == [i \in DOMAIN taxes |-> moved(taxes[i])]
<1>1. DOMAIN taxes = 1..Len(taxes) /\ Len(taxes) \in Nat
  BY DEF TypedTaxes
<1>2. \A t \in ToSet(taxes) : moved(t) \in Int
  BY DEF TypedTaxes, Amount, IsFinite
<1>3. \A i \in 1..Len(taxes) : moved(taxes[i]) \in Int
  <2> HIDE DEF moved
  <2>1. QED
    BY <1>1, <1>2 DEF ToSet
<1>4. amounts \in Seq(Int)
  <2> HIDE DEF moved, taxes
  <2>1. QED
    BY <1>1, <1>3
<1>5. SumAmounts(amounts) \in Int
  <2> HIDE DEF amounts
  <2>1. QED
    BY <1>4, FiniteSum
<1>6. QED
  BY <1>5 DEF DoctoIva

\* The doctos of typed payments are a list of typed doctos, the payments' lists
\* joined.
LEMMA DoctosOf ==
    ASSUME NEW pagos, pagos \in Seq(ToSet(pagos)), \A p \in ToSet(pagos) : TypedPago(p)
    PROVE  LET D == ToSet(Doctos(pagos))
           IN  /\ Doctos(pagos) \in Seq(D)
               /\ \A i \in DOMAIN pagos : pagos[i].doctos \in Seq(D)
               /\ \A d \in D : d.pagado \in Amount \cup {None} /\ DoctoIva(d) \in Int
<1> DEFINE A == UNION {ToSet(p.doctos) : p \in ToSet(pagos)}
           lists == [i \in DOMAIN pagos |-> pagos[i].doctos]
           doctos == Doctos(pagos)
<1>1. /\ DOMAIN pagos = 1..Len(pagos) /\ Len(pagos) \in Nat
      /\ \A i \in DOMAIN pagos : pagos[i] \in ToSet(pagos)
  BY DEF ToSet
<1>2. \A i \in DOMAIN pagos : pagos[i].doctos \in Seq(A)
  <2>1. TAKE i \in DOMAIN pagos
  <2>2. pagos[i].doctos \in Seq(ToSet(pagos[i].doctos))
    BY <1>1 DEF TypedPago
  <2>3. ToSet(pagos[i].doctos) \subseteq A
    BY <1>1
  <2> DEFINE list == pagos[i].doctos
             B == ToSet(list)
  <2>4. list \in Seq(B) /\ B \subseteq A
    BY <2>2, <2>3
  <2> HIDE DEF A, B, list
  <2>5. list \in Seq(A)
    BY <2>4
  <2>6. QED
    BY <2>5 DEF list
<1>3. lists \in Seq(Seq(A)) /\ doctos = FlattenSeq(lists)
  <2>1. doctos = FlattenSeq(lists)
    BY DEF Doctos
  <2> DEFINE T == Seq(A)
  <2>2. \A i \in 1..Len(pagos) : pagos[i].doctos \in T
    BY <1>1, <1>2
  <2> HIDE DEF T, A
  <2>3. lists \in Seq(T)
    BY <1>1, <2>2
  <2>4. QED
    BY <2>1, <2>3 DEF T
<1>4. doctos \in Seq(A) /\ \A i \in DOMAIN pagos : ToSet(pagos[i].doctos) \subseteq ToSet(doctos)
  <2>1. DOMAIN lists = DOMAIN pagos /\ \A i \in DOMAIN pagos : lists[i] = pagos[i].doctos
    OBVIOUS
  <2> HIDE DEF A, lists, doctos
  <2>2. FlattenSeq(lists) \in Seq(A) /\ \A i \in DOMAIN lists : ToSet(lists[i]) \subseteq ToSet(FlattenSeq(lists))
    BY <1>3, FlattenHolds
  <2>3. QED
    BY <1>3, <2>1, <2>2
<1>5. \A d \in A : d.pagado \in Amount \cup {None} /\ DoctoIva(d) \in Int
  <2>1. \A d \in A : d.pagado \in Amount \cup {None} /\ TypedTaxes(TaxesOf(d))
    BY DEF TypedPago
  <2>2. QED
    BY <2>1, DoctoIvaIsFinite
<1> HIDE DEF A, doctos, lists
<1>6. doctos \in Seq(ToSet(doctos)) /\ ToSet(doctos) \subseteq A
  BY <1>4 DEF ToSet
<1>7. \A i \in DOMAIN pagos : pagos[i].doctos \in Seq(ToSet(doctos))
  <2>1. TAKE i \in DOMAIN pagos
  <2> DEFINE list == pagos[i].doctos
             D == ToSet(doctos)
  <2>2. list \in Seq(A) /\ ToSet(list) \subseteq D
    BY <1>2, <1>4
  <2> HIDE DEF list, D
  <2>3. \A k \in DOMAIN list : list[k] \in D
    BY <2>2 DEF ToSet
  <2>4. list \in Seq(D)
    BY <2>2, <2>3
  <2>5. QED
    BY <2>4 DEF list, D
<1>8. QED
  BY <1>5, <1>6, <1>7 DEF doctos

\* What a proposed complement's doctos are, and what its payments moved.
LEMMA DoctosReady ==
    ASSUME NEW pagos, NEW posted, pagos \in Seq(ToSet(pagos)), \A p \in ToSet(pagos) : TypedPago(p),
           RepRefusals(pagos) = {}, RepBlocking(pagos) = {}, Unresolved(pagos, posted) = {}
    PROVE  LET doctos == Doctos(pagos)
           IN  /\ doctos \in Seq(ToSet(doctos))
               /\ \A d \in ToSet(doctos) : Ready(d, posted)
               /\ MovedByPayments(pagos) = SumAmounts([i \in DOMAIN doctos |-> doctos[i].pagado])
<1> DEFINE doctos == Doctos(pagos)
           D == ToSet(doctos)
           lists == [i \in DOMAIN pagos |-> pagos[i].doctos]
<1>1. /\ DOMAIN pagos = 1..Len(pagos) /\ Len(pagos) \in Nat
      /\ \A i \in DOMAIN pagos : pagos[i] \in ToSet(pagos)
  BY DEF ToSet
<1>2. /\ doctos \in Seq(D) /\ \A i \in DOMAIN pagos : pagos[i].doctos \in Seq(D)
      /\ \A d \in D : d.pagado \in Amount \cup {None} /\ DoctoIva(d) \in Int
  BY DoctosOf
<1>3. doctos = FlattenSeq(lists)
  BY DEF Doctos
<1> HIDE DEF doctos, lists
<1>4. ASSUME NEW i \in DOMAIN doctos
      PROVE  /\ doctos[i].pagado # None /\ Usable(doctos[i].pagado)
             /\ GetsLegs(doctos[i]) /\ doctos[i].uuid \in posted
  <2>1. DoctoRefusals(doctos[i]) = {}
    BY DEF RepRefusals, doctos
  <2>2. DoctoBlocking(doctos[i]) = {}
    BY DEF RepBlocking, doctos
  <2>3. doctos[i].pagado # None /\ Usable(doctos[i].pagado)
    BY <2>1 DEF DoctoRefusals
  <2>4. GetsLegs(doctos[i])
    BY <2>2 DEF DoctoBlocking, GetsLegs
  <2>5. doctos[i].uuid \in posted
    BY <2>4 DEF Unresolved, doctos
  <2>6. QED
    BY <2>3, <2>4, <2>5
<1>5. \A d \in D : Ready(d, posted)
  <2>1. TAKE d \in D
  <2>2. PICK i \in DOMAIN doctos : d = doctos[i]
    BY DEF ToSet
  <2>3. d.pagado \in Int
    BY <1>2, <1>4, <2>2 DEF Usable, IsFinite, Amount
  <2>4. QED
    BY <1>2, <1>4, <2>2, <2>3 DEF Ready
<1> DEFINE w == [d \in D |-> d.pagado]
           amounts == [i \in DOMAIN pagos |-> IF pagos[i].doctos = <<>> THEN 0 ELSE pagos[i].monto]
<1>6. w \in [D -> Amount] /\ lists \in Seq(Seq(D))
  <2>1. \A d \in D : d.pagado \in Amount
    BY <1>5 DEF Ready, Amount
  <2> DEFINE T == Seq(D)
  <2>2. \A i \in 1..Len(pagos) : pagos[i].doctos \in T
    BY <1>1, <1>2
  <2>3. w \in [D -> Amount]
    BY <2>1
  <2> HIDE DEF T, D, w
  <2>4. lists \in Seq(T)
    BY <1>1, <2>2 DEF lists
  <2>5. QED
    BY <2>3, <2>4 DEF T
<1>7. ASSUME NEW i \in DOMAIN pagos
      PROVE  Weight(w, pagos[i].doctos) = IF pagos[i].doctos = <<>> THEN 0 ELSE pagos[i].monto
  <2> DEFINE pago == pagos[i]
             paid == [k \in DOMAIN pago.doctos |-> pago.doctos[k].pagado]
  <2>1. PagoRefusals(pago) = {}
    BY DEF RepRefusals
  <2>2. pago.monto # None /\ ~ AppliedDiffers(pago)
    BY <2>1 DEF PagoRefusals
  <2>3. pago.doctos \in Seq(D) /\ \A k \in DOMAIN pago.doctos : pago.doctos[k] \in D
    <3>1. pago.doctos \in Seq(D)
      BY <1>2
    <3> DEFINE list == pago.doctos
    <3> HIDE DEF list, D
    <3>2. list \in Seq(D) => \A k \in DOMAIN list : list[k] \in D
      OBVIOUS
    <3>3. QED
      BY <3>1, <3>2 DEF list
  <2>4. \A k \in DOMAIN pago.doctos : pago.doctos[k].pagado # None /\ Usable(pago.doctos[k].pagado)
    <3>1. TAKE k \in DOMAIN pago.doctos
    <3>2. PICK j \in DOMAIN doctos : pago.doctos[k] = doctos[j]
      BY <2>3 DEF ToSet
    <3>3. QED
      BY <1>4, <3>2
  <2>5. [k \in DOMAIN pago.doctos |-> w[pago.doctos[k]]] = paid
    <3> HIDE DEF pago, D
    <3>1. QED
      BY <2>3
  <2>6. Weight(w, pago.doctos) = SumAmounts(paid)
    <3> HIDE DEF w, paid
    <3>1. QED
      BY <2>5 DEF Weight
  <2>7. CASE pago.doctos = <<>>
    <3>1. paid = <<>>
      BY <2>7
    <3>2. QED
      BY <2>6, <2>7, <3>1, SumOfNone
  <2>8. CASE pago.doctos # <<>>
    <3>1. Len(paid) > 0 /\ DOMAIN paid = DOMAIN pago.doctos
      <4> HIDE DEF pago
      <4>1. Len(pago.doctos) \in Nat /\ Len(pago.doctos) # 0 /\ DOMAIN pago.doctos = 1..Len(pago.doctos)
        BY <2>3, <2>8
      <4>2. QED
        BY <4>1
    <3>2. SumAmounts(paid) = pago.monto
      <4>1. \A k \in DOMAIN paid : paid[k] # None /\ Usable(paid[k])
        BY <2>4
      <4> HIDE DEF paid
      <4>2. QED
        BY <2>2, <3>1, <4>1 DEF AppliedDiffers, Differs, paid
    <3>3. QED
      BY <2>6, <2>8, <3>2
  <2>9. QED
    BY <2>7, <2>8
<1>8. Weight(w, doctos) = SumAmounts([i \in DOMAIN lists |-> Weight(w, lists[i])])
  <2> HIDE DEF w, D
  <2>1. QED
    BY <1>3, <1>6, WeightOfLists, Z3
<1>9. [i \in DOMAIN lists |-> Weight(w, lists[i])] = amounts
  <2> HIDE DEF w
  <2>1. QED
    BY <1>7 DEF lists
<1>10. [i \in DOMAIN doctos |-> w[doctos[i]]] = [i \in DOMAIN doctos |-> doctos[i].pagado]
  BY DEF ToSet
<1>11. MovedByPayments(pagos) = SumAmounts([i \in DOMAIN doctos |-> doctos[i].pagado])
  <2>1. Weight(w, doctos) = SumAmounts([i \in DOMAIN doctos |-> w[doctos[i]]])
    BY DEF Weight
  <2> HIDE DEF w
  <2>2. QED
    BY <1>8, <1>9, <1>10, <2>1 DEF MovedByPayments
<1>12. QED
  BY <1>2, <1>5, <1>11 DEF doctos

\* A posted payment complement conserves cash: it moves on the clearing account
\* what its payments applied, on the receivable or payable the same, and it
\* realizes the IVA it releases (reposting._check, reposting._legs).
THEOREM RepConservesCash == Spec => []PostedRepConservesCash
<1>1. IInv => PostedRepConservesCash
  <2>1. SUFFICES ASSUME IInv, Posted, ctx.doc.tipo = "P"
                 PROVE  PostedRepConservesCash
    BY DEF PostedRepConservesCash
  <2>2. TypedContext(ctx, chart) /\ Answered(ctx, chart, verdict) /\ verdict.state = "POSTED"
    BY <2>1, ContextIsTyped, WhatIsDecided DEF Posted
  <2> DEFINE entry == ProposeFor(ctx).entry
             pagos == ctx.doc.pagos
             doctos == Doctos(pagos)
  <2>3. ProposeFor(ctx).kind = "propose" /\ verdict.entry = entry
    <3>1. ValueEntry(entry, ctx.doc) = Valued(entry, None)
      BY <2>1 DEF ValueEntry
    <3>2. /\ ProposeFor(ctx).kind = "propose"
          /\ verdict.entry = IF ValueEntry(entry, ctx.doc).flags # {} THEN entry
                             ELSE ValueEntry(entry, ctx.doc).entry
      BY <2>2, PostedWas
    <3>3. Valued(entry, None).entry = entry /\ Valued(entry, None).flags = {}
      BY DEF Valued
    <3>4. QED
      BY <3>1, <3>2, <3>3, Zenon
  <2>4. PICK row \in REP_ROWS :
           /\ RepClaims(ctx, row) /\ pagos # None
           /\ RepRefusals(pagos) = {} /\ RepBlocking(pagos) = {}
           /\ Unresolved(pagos, ctx.posted) = {}
           /\ entry.lines = RepLegs(row, doctos, ctx.posted)
    BY <2>1, <2>3, ProposedRep
  <2>5. pagos \in Seq(ToSet(pagos)) /\ \A p \in ToSet(pagos) : TypedPago(p)
    BY <2>2, <2>4 DEF TypedContext, TypedDoc
  <2>6. /\ doctos \in Seq(ToSet(doctos))
        /\ \A d \in ToSet(doctos) : Ready(d, ctx.posted)
        /\ MovedByPayments(pagos) = SumAmounts([i \in DOMAIN doctos |-> doctos[i].pagado])
    <3> HIDE DEF pagos
    <3>1. QED
      BY <2>4, <2>5, DoctosReady
  <2>7. (CHOOSE r \in REP_ROWS : RepClaims(ctx, r)) = row
    BY <2>4, RepClaimsOnce
  <2> DEFINE iva == {row.releasedRole, row.realizedRole}
             moved == MovedByPayments(pagos)
  <2>8. Lines = RepLegs(row, doctos, ctx.posted)
    BY <2>3, <2>4 DEF Lines
  <2>9. /\ moved \in Int
        /\ RolesTotal(Lines, {"clearing"}, row.cashSide) = moved
        /\ RolesTotal(Lines, {"clearing"}, Opposite(row.cashSide)) = 0
        /\ RolesTotal(Lines, {row.moneyRole}, row.cashSide) = 0
        /\ RolesTotal(Lines, {row.moneyRole}, Opposite(row.cashSide)) = moved
        /\ RolesTotal(Lines, iva, DEBE) \in Int
        /\ RolesTotal(Lines, iva, DEBE) = RolesTotal(Lines, iva, HABER)
    <3> HIDE DEF doctos, pagos
    <3>1. QED
      BY <2>6, <2>8, RepBooks
  <2>10. /\ \/ row.cashSide = DEBE /\ Opposite(row.cashSide) = HABER
            \/ row.cashSide = HABER /\ Opposite(row.cashSide) = DEBE
         /\ DEBE # HABER
    BY RepRoles DEF Opposite, DEBE, HABER
  <2> HIDE DEF moved, iva
  <2>11. /\ Net(Lines, {"clearing"}) = IF row.cashSide = DEBE THEN moved ELSE 0 - moved
         /\ Net(Lines, {row.moneyRole}) = 0 - Net(Lines, {"clearing"})
    BY <2>9, <2>10 DEF Net
  <2>12. Net(Lines, iva) = 0
    BY <2>9 DEF Net
  <2>13. QED
    BY <2>7, <2>11, <2>12, Zenon DEF PostedRepConservesCash, moved, iva
<1>2. QED
  BY <1>1, EngineInvariant, PTL

(************************** What can be recorded ***************************)

\* A leg the constructors accept: a positive amount on one side under a key.
SoundLeg(leg) ==
    /\ {"role", "key", "side", "amount"} \subseteq DOMAIN leg
    /\ leg.amount \in Int /\ leg.amount > 0
    /\ leg.side \in {DEBE, HABER}
    /\ TypedKey(leg.key)

\* No two legs share their key.
OwnKeys(lines) == \A i, j \in DOMAIN lines : lines[i].key = lines[j].key => i = j

Sound(lines) ==
    /\ lines \in Seq(ToSet(lines))
    /\ \A i \in DOMAIN lines : SoundLeg(lines[i])
    /\ OwnKeys(lines)

LEMMA SoundIsConstructible ==
    ASSUME NEW lines, Sound(lines)
    PROVE  Constructible(lines)
BY Sentinels DEF Sound, SoundLeg, OwnKeys, Constructible, Usable, IsFinite

LEMMA NothingIsSound == Sound(<<>>)
BY DEF Sound, OwnKeys, ToSet

LEMMA ListOfItsOwn ==
    ASSUME NEW A, NEW s \in Seq(A)
    PROVE  s \in Seq(ToSet(s))
BY DEF ToSet

LEMMA TwoAreSound ==
    ASSUME NEW x, NEW y, SoundLeg(x), SoundLeg(y), x.key # y.key
    PROVE  Sound(<<x, y>>)
<1> DEFINE s == <<x, y>>
<1>1. DOMAIN s = 1..2 /\ s[1] = x /\ s[2] = y /\ s \in Seq({x, y})
  OBVIOUS
<1>2. \A i \in 1..2 : i = 1 \/ i = 2
  OBVIOUS
<1> HIDE DEF s
<1>3. Sound(s)
  BY <1>1, <1>2, ListOfItsOwn, Zenon DEF Sound, OwnKeys
<1>4. QED
  BY <1>3 DEF s

LEMMA ThreeAreSound ==
    ASSUME NEW x, NEW y, NEW z, SoundLeg(x), SoundLeg(y), SoundLeg(z),
           x.key # y.key, y.key # z.key, x.key # z.key
    PROVE  Sound(<<x, y, z>>)
<1> DEFINE s == <<x, y, z>>
<1>1. DOMAIN s = 1..3 /\ s[1] = x /\ s[2] = y /\ s[3] = z /\ s \in Seq({x, y, z})
  OBVIOUS
<1>2. \A i \in 1..3 : i = 1 \/ i = 2 \/ i = 3
  OBVIOUS
<1> HIDE DEF s
<1>3. Sound(s)
  BY <1>1, <1>2, ListOfItsOwn, Zenon DEF Sound, OwnKeys
<1>4. QED
  BY <1>3 DEF s

LEMMA Catenated ==
    ASSUME NEW A, NEW s \in Seq(A), NEW t \in Seq(A)
    PROVE  /\ s \o t \in Seq(A)
           /\ Len(s \o t) = Len(s) + Len(t) /\ DOMAIN (s \o t) = 1..(Len(s) + Len(t))
           /\ \A i \in 1..Len(s) : (s \o t)[i] = s[i]
           /\ \A i \in 1..Len(t) : (s \o t)[Len(s) + i] = t[i]
OBVIOUS

\* Two sound lists whose keys do not meet join into one.
LEMMA JoinedAreSound ==
    ASSUME NEW A, NEW s \in Seq(A), NEW t \in Seq(A), Sound(s), Sound(t),
           \A k \in ToSet(s), l \in ToSet(t) : k.key # l.key
    PROVE  Sound(s \o t)
<1> DEFINE st == s \o t
           n == Len(s)
<1>1. /\ n \in Nat /\ DOMAIN s = 1..n /\ DOMAIN t = 1..Len(t) /\ Len(t) \in Nat
      /\ DOMAIN st = 1..(n + Len(t))
      /\ \A i \in 1..n : st[i] = s[i]
      /\ \A i \in 1..Len(t) : st[n + i] = t[i]
  BY Catenated
<1>2. \A i \in DOMAIN st : \/ i \in DOMAIN s /\ st[i] = s[i]
                           \/ \E k \in DOMAIN t : i = n + k /\ st[i] = t[k]
  <2>1. TAKE i \in DOMAIN st
  <2>2. CASE i \in 1..n
    BY <1>1, <2>2
  <2>3. CASE i \notin 1..n
    <3>1. i - n \in 1..Len(t) /\ i = n + (i - n)
      BY <1>1, <2>3
    <3>2. QED
      BY <1>1, <3>1
  <2>4. QED
    BY <2>2, <2>3
<1> HIDE DEF st, n
<1>3. \A i \in DOMAIN st : SoundLeg(st[i])
  BY <1>2, Zenon DEF Sound
<1>4. ASSUME NEW i \in DOMAIN st, NEW j \in DOMAIN st, st[i].key = st[j].key
      PROVE  i = j
  <2>1. CASE i \in DOMAIN s /\ st[i] = s[i] /\ j \in DOMAIN s /\ st[j] = s[j]
    BY <1>4, <2>1 DEF Sound, OwnKeys
  <2>2. CASE \E k, l \in DOMAIN t : i = n + k /\ st[i] = t[k] /\ j = n + l /\ st[j] = t[l]
    BY <1>4, <2>2 DEF Sound, OwnKeys
  <2>3. \A k \in DOMAIN s, l \in DOMAIN t : s[k].key # t[l].key
    BY DEF ToSet
  <2>4. QED
    BY <1>2, <1>4, <2>1, <2>2, <2>3
<1>5. st \in Seq(ToSet(st))
  BY Catenated, ListOfItsOwn DEF st
<1>6. QED
  BY <1>3, <1>4, <1>5 DEF Sound, OwnKeys, st

\* Sound lists no two of which share a key flatten into a sound one.
LEMMA FlattenIsSound ==
    ASSUME NEW A, NEW lists \in Seq(Seq(A)), \A i \in DOMAIN lists : Sound(lists[i]),
           \A i, j \in DOMAIN lists : i # j =>
              \A k \in ToSet(lists[i]), l \in ToSet(lists[j]) : k.key # l.key
    PROVE  Sound(FlattenSeq(lists))
<1>1. CASE lists = <<>>
  <2>1. FlattenSeq(lists) = <<>>
    BY <1>1 DEF FlattenSeq
  <2>2. QED
    BY <2>1, NothingIsSound, Zenon
<1>2. CASE lists # <<>>
  <2> DEFINE N == Len(lists)
  <2>1. N \in Nat /\ N # 0 /\ DOMAIN lists = 1..N /\ \A n \in 1..N : lists[n] \in Seq(A)
    BY <1>2
  <2>2. PICK f \in [1..N -> Seq(A)] : Joining(lists, f) /\ FlattenSeq(lists) = f[N]
    BY <1>2, FlattenJoins
  <2> HIDE DEF N
  \* What is joined so far is sound, and holds legs of the lists joined only.
  <2> DEFINE Holds(n) == /\ Sound(f[n])
                         /\ \A leg \in ToSet(f[n]) : \E i \in 1..n : leg \in ToSet(lists[i])
             S == {n \in Nat : n + 1 <= N => Holds(n + 1)}
  <2>3. Holds(1)
    <3>1. f[1] = lists[1] /\ 1 \in 1..N /\ 1 \in 1..1
      BY <2>1, <2>2 DEF Joining
    <3>2. QED
      BY <2>1, <3>1
  <2>4. ASSUME NEW n \in 1..N, n + 1 \in 1..N, Holds(n)
        PROVE  Holds(n + 1)
    <3> DEFINE m == n + 1
    <3>1. m \in 2..Len(lists) /\ m - 1 = n /\ m \in 1..m /\ m \notin 1..n /\ 1..n \subseteq 1..m
          /\ 1..m \subseteq 1..N /\ m \in 1..N
      BY <2>1, <2>4 DEF N
    <3> HIDE DEF m
    <3>2. f[m] = f[n] \o lists[m]
      BY <2>2, <3>1 DEF Joining
    <3>3. f[n] \in Seq(A) /\ lists[m] \in Seq(A) /\ Sound(lists[m]) /\ Sound(f[n])
      BY <2>1, <2>4, <3>1
    <3>4. \A k \in ToSet(f[n]), l \in ToSet(lists[m]) : k.key # l.key
      <4>1. TAKE k \in ToSet(f[n]), l \in ToSet(lists[m])
      <4>2. PICK i \in 1..n : k \in ToSet(lists[i])
        BY <2>4
      <4>3. i # m /\ i \in DOMAIN lists /\ m \in DOMAIN lists
        BY <2>1, <3>1, <4>2
      <4>4. QED
        BY <4>1, <4>2, <4>3
    <3>5. Sound(f[n] \o lists[m])
      BY <3>3, <3>4, JoinedAreSound
    <3>6. \A leg \in ToSet(f[n] \o lists[m]) : leg \in ToSet(f[n]) \/ leg \in ToSet(lists[m])
      <4>1. \A s, t \in Seq(A) : \A i \in DOMAIN (s \o t) :
               \/ i \in DOMAIN s /\ (s \o t)[i] = s[i]
               \/ i - Len(s) \in DOMAIN t /\ (s \o t)[i] = t[i - Len(s)]
        OBVIOUS
      <4>2. QED
        BY <3>3, <4>1 DEF ToSet
    <3>7. \A leg \in ToSet(f[m]) : \E i \in 1..m : leg \in ToSet(lists[i])
      <4>1. TAKE leg \in ToSet(f[m])
      <4>2. CASE leg \in ToSet(f[n])
        BY <2>4, <3>1, <4>2
      <4>3. CASE leg \in ToSet(lists[m])
        BY <3>1, <4>3
      <4>4. QED
        BY <3>2, <3>6, <4>2, <4>3
    <3>8. Holds(m)
      BY <3>2, <3>5, <3>7
    <3>9. QED
      BY <3>8 DEF m
  <2> HIDE DEF Holds
  <2>5. 0 \in S
    <3>1. 0 + 1 = 1
      OBVIOUS
    <3>2. QED
      BY <2>3, <3>1
  <2>6. ASSUME NEW n \in S
        PROVE  n + 1 \in S
    <3>1. n \in Nat /\ n + 1 \in Nat
      OBVIOUS
    <3>2. CASE (n + 1) + 1 <= N
      <4>1. n + 1 <= N /\ n + 1 \in 1..N /\ (n + 1) + 1 \in 1..N
        BY <2>1, <3>1, <3>2
      <4>2. Holds(n + 1)
        BY <3>1, <4>1
      <4>3. Holds((n + 1) + 1)
        BY <2>4, <4>1, <4>2
      <4>4. QED
        BY <3>1, <4>3
    <3>3. QED
      BY <3>1, <3>2
  <2> HIDE DEF S
  <2>7. S = Nat
    <3>1. S \subseteq Nat
      BY DEF S
    <3>2. QED
      BY <2>5, <2>6, <3>1, Inductive
  <2>8. Holds(N)
    <3>1. N - 1 \in Nat /\ (N - 1) + 1 = N /\ N <= N
      BY <2>1
    <3>2. QED
      BY <2>7, <3>1 DEF S
  <2>9. QED
    BY <2>2, <2>8 DEF Holds
<1>3. QED
  BY <1>1, <1>2

\* An entry the store can be given: sound legs, a source and a date.
SoundEntry(entry) ==
    /\ {"rule", "source", "date", "lines"} \subseteq DOMAIN entry
    /\ Sound(entry.lines) /\ entry.source # None /\ entry.date # None

\* An answer of the rules that no constructor refuses, and its raise only where
\* the reversal target is ambiguous.
SoundAnswer(a, c) ==
    /\ a.kind = "raise" => Cardinality(PostedEntries(c)) > 1
    /\ a.kind = "review" => a.flags # {} /\ (a.entry # None => SoundEntry(a.entry))
    /\ a.kind = "skip" => SoundEntry(a.entry) /\ a.entry.lines = <<>>
    /\ a.kind = "propose" => SoundEntry(a.entry)

LEMMA ReviewIsSound ==
    ASSUME NEW c, NEW rule, NEW flags, NEW lines, flags # {}, Sound(lines)
    PROVE  SoundAnswer(Review(c, rule, flags, lines), c)
<1> DEFINE a == Review(c, rule, flags, lines)
           entry == ProposedJournalEntry(rule, c, c.doc.uuid, c.doc.hash, c.doc.fecha, lines, {})
<1>1. a.kind = "review" /\ a.flags = flags /\ a.entry = IF Recordable(c.doc) THEN entry ELSE None
  BY DEF Review, ReviewRequest
<1>2. /\ {"rule", "source", "date", "lines"} \subseteq DOMAIN entry
      /\ entry.lines = lines /\ entry.source = c.doc.uuid /\ entry.date = c.doc.fecha
  BY DEF ProposedJournalEntry
<1> HIDE DEF a, entry
<1>3. a.entry # None => SoundEntry(a.entry)
  BY <1>1, <1>2 DEF Recordable, SoundEntry
<1>4. SoundAnswer(a, c)
  BY <1>1, <1>3 DEF SoundAnswer
<1>5. QED
  BY <1>4 DEF a

\* A document no entry is keyed for is flagged itself.
LEMMA FlaggedIsSound ==
    ASSUME NEW c, NEW flags, flags # {}, NEW accounts
    PROVE  SoundAnswer(ReviewRequest(None, flags, accounts), c)
BY DEF SoundAnswer, ReviewRequest

LEMMA EntryIsSound ==
    ASSUME NEW c, NEW rule, NEW source, NEW hash, NEW date, NEW lines, NEW assumptions,
           Sound(lines), source # None, date # None
    PROVE  LET entry == ProposedJournalEntry(rule, c, source, hash, date, lines, assumptions)
           IN  /\ SoundAnswer(Propose(entry), c)
               /\ lines = <<>> => SoundAnswer(Skip(entry), c)
               /\ \A flags, accounts : flags # {} => SoundAnswer(ReviewRequest(entry, flags, accounts), c)
<1> DEFINE entry == ProposedJournalEntry(rule, c, source, hash, date, lines, assumptions)
<1>1. /\ {"rule", "source", "date", "lines"} \subseteq DOMAIN entry
      /\ entry.lines = lines /\ entry.source = source /\ entry.date = date
  BY DEF ProposedJournalEntry
<1> HIDE DEF entry
<1>2. SoundEntry(entry)
  BY <1>1 DEF SoundEntry
<1>3. SoundAnswer(Propose(entry), c)
  BY <1>1, <1>2 DEF SoundAnswer, Propose
<1>4. lines = <<>> => SoundAnswer(Skip(entry), c)
  BY <1>1, <1>2 DEF SoundAnswer, Skip
<1>5. \A flags, accounts : flags # {} => SoundAnswer(ReviewRequest(entry, flags, accounts), c)
  BY <1>1, <1>2 DEF SoundAnswer, ReviewRequest
<1>6. QED
  BY <1>3, <1>4, <1>5 DEF entry

(***************************** Cancellations *******************************)

\* Prefixed keys differ where the keys do.
LEMMA ReversalKeys ==
    ASSUME NEW k, NEW l, TypedKey(k), TypedKey(l)
    PROVE  /\ TypedKey(<<"reversal">> \o k)
           /\ <<"reversal">> \o k = <<"reversal">> \o l => k = l
<1>1. \A m : TypedKey(m) =>
        /\ Len(m) \in Nat /\ DOMAIN m = 1..Len(m) /\ m \in Seq({m[i] : i \in 1..Len(m)})
  BY DEF TypedKey
<1>2. ASSUME NEW m, TypedKey(m)
      PROVE  /\ Len(<<"reversal">> \o m) = 1 + Len(m)
             /\ DOMAIN (<<"reversal">> \o m) = 1..(1 + Len(m))
             /\ \A i \in 1..Len(m) : (<<"reversal">> \o m)[i + 1] = m[i]
             /\ TypedKey(<<"reversal">> \o m)
  <2> DEFINE T == {"reversal"} \cup {m[i] : i \in 1..Len(m)}
             r == <<"reversal">>
  <2>1. m \in Seq(T) /\ r \in Seq(T) /\ Len(r) = 1 /\ Len(m) \in Nat
    <3>1. Len(m) \in Nat /\ m = [i \in 1..Len(m) |-> m[i]] /\ \A i \in 1..Len(m) : m[i] \in T
      BY <1>2 DEF TypedKey
    <3>2. "reversal" \in T
      OBVIOUS
    <3> HIDE DEF T
    <3>3. m \in Seq(T)
      BY <3>1, ListOfValues
    <3>4. r \in Seq(T) /\ Len(r) = 1
      BY <3>2
    <3>5. QED
      BY <3>1, <3>3, <3>4
  <2> HIDE DEF T, r
  <2>2. /\ Len(r \o m) = 1 + Len(m) /\ DOMAIN (r \o m) = 1..(1 + Len(m))
        /\ \A i \in 1..Len(m) : (r \o m)[i + 1] = m[i]
        /\ r \o m \in Seq(T)
    <3>1. \A i \in 1..Len(m) : 1 + i = i + 1
      BY <2>1
    <3>2. QED
      BY <2>1, <3>1, Catenated
  <2>3. TypedKey(r \o m)
    <3>1. \A q \in Seq(T) : Len(q) \in Nat /\ q = [i \in 1..Len(q) |-> q[i]]
      OBVIOUS
    <3>2. QED
      BY <2>2, <3>1, Zenon DEF TypedKey
  <2>4. QED
    BY <2>2, <2>3 DEF r
<1>3. ASSUME <<"reversal">> \o k = <<"reversal">> \o l
      PROVE  k = l
  <2> DEFINE rk == <<"reversal">> \o k
             rl == <<"reversal">> \o l
  <2>1. /\ Len(rk) = 1 + Len(k) /\ Len(rl) = 1 + Len(l) /\ Len(k) \in Nat /\ Len(l) \in Nat
        /\ \A i \in 1..Len(k) : rk[i + 1] = k[i]
        /\ \A i \in 1..Len(l) : rl[i + 1] = l[i]
        /\ rk = rl
    BY <1>1, <1>2, <1>3
  <2> HIDE DEF rk, rl
  <2>2. Len(k) = Len(l)
    BY <2>1
  <2>3. \A i \in 1..Len(k) : k[i] = l[i]
    BY <2>1, <2>2
  <2>4. QED
    BY <2>2, <2>3 DEF TypedKey
<1>4. QED
  BY <1>2, <1>3

LEMMA ReversalIsSound ==
    ASSUME NEW r, PostedRecord(r)
    PROVE  Sound(ReversedLegs(r.lines))
<1> DEFINE lines == r.lines
           legs == ReversedLegs(lines)
<1>1. /\ \A i \in DOMAIN lines : lines[i] \in ToSet(lines)
      /\ DOMAIN legs = DOMAIN lines
  BY DEF ToSet, ReversedLegs
<1>2. legs \in Seq(ToSet(legs))
  <2> DEFINE n == Len(lines)
  <2>1. n \in Nat /\ DOMAIN lines = 1..n
    BY DEF PostedRecord
  <2>2. legs = [i \in 1..n |-> legs[i]]
    BY <1>1, <2>1 DEF ReversedLegs
  <2> HIDE DEF legs, n
  <2>3. \A i \in 1..n : legs[i] \in ToSet(legs)
    BY <1>1, <2>1 DEF ToSet
  <2>4. QED
    BY <2>1, <2>2, <2>3, ListOfValues
<1>3. \A i \in DOMAIN lines : /\ lines[i].side \in {DEBE, HABER} /\ lines[i].amount \in Int
                              /\ lines[i].amount > 0 /\ TypedKey(lines[i].key)
  BY <1>1 DEF PostedRecord, Constructible, Usable, IsFinite, Amount
<1>4. \A i \in DOMAIN lines :
        /\ legs[i].key = <<"reversal">> \o lines[i].key
        /\ legs[i].side = Opposite(lines[i].side) /\ legs[i].amount = lines[i].amount
        /\ {"role", "key", "side", "amount"} \subseteq DOMAIN legs[i]
  BY ReversedLeg DEF ReversedLegs, JournalLine
<1> HIDE DEF legs, lines
<1>5. ASSUME NEW i \in DOMAIN legs
      PROVE  SoundLeg(legs[i])
  <2>1. TypedKey(legs[i].key)
    BY <1>1, <1>3, <1>4, ReversalKeys
  <2>2. QED
    BY <1>1, <1>3, <1>4, <2>1 DEF SoundLeg, Opposite
<1>6. ASSUME NEW i \in DOMAIN legs, NEW j \in DOMAIN legs, legs[i].key = legs[j].key
      PROVE  i = j
  <2>1. lines[i].key = lines[j].key
    <3>1. TypedKey(lines[i].key) /\ TypedKey(lines[j].key)
      BY <1>1, <1>3
    <3>2. <<"reversal">> \o lines[i].key = <<"reversal">> \o lines[j].key
      BY <1>1, <1>4, <1>6
    <3>3. QED
      BY <3>1, <3>2, ReversalKeys
  <2>2. QED
    BY <1>1, <2>1 DEF PostedRecord, Constructible, lines
<1>7. QED
  BY <1>5, <1>6, <1>2 DEF Sound, OwnKeys, legs, lines

LEMMA CancellationIsSound ==
    ASSUME NEW c, \A r \in PostedEntries(c) : PostedRecord(r)
    PROVE  SoundAnswer(Cancellation(c), c)
<1>1. SoundAnswer(CancellationSkip(c), c)
  <2>1. CASE CancellationFlags(c) # {}
    <3>1. CancellationSkip(c) = ReviewRequest(None, CancellationFlags(c), NoAccounts)
      BY <2>1 DEF CancellationSkip
    <3>2. QED
      BY <2>1, <3>1, FlaggedIsSound
  <2>2. CASE CancellationFlags(c) = {}
    <3>1. c.cancelledOn # None /\ c.doc.uuid # None
      <4>1. /\ c.cancelledOn = None => "MISSING_SOURCE_FIELD" \in CancellationFlags(c)
            /\ c.doc.uuid = None => "MISSING_POSTING_IDENTITY" \in CancellationFlags(c)
        BY DEF CancellationFlags
      <4>2. QED
        BY <2>2, <4>1
    <3>2. QED
      BY <2>2, <3>1, NothingIsSound, EntryIsSound, Zenon DEF CancellationSkip
  <2>3. QED
    BY <2>1, <2>2
<1>2. Cardinality(PostedEntries(c)) > 1 => SoundAnswer(Raise, c)
  BY DEF SoundAnswer, Raise
<1>3. ASSUME NEW r \in PostedEntries(c)
      PROVE  SoundAnswer(Reversal(c, r), c)
  <2>1. CASE c.cancelledOn = None
    <3>1. SoundAnswer(ReviewRequest(None, {"MISSING_SOURCE_FIELD"}, NoAccounts), c)
      BY FlaggedIsSound
    <3>2. QED
      BY <2>1, <3>1 DEF Reversal
  <2>2. CASE c.cancelledOn # None
    <3>1. HasHistory(r) /\ r.source # None /\ Sound(ReversedLegs(r.lines))
      BY ReversalIsSound DEF PostedRecord
    <3>2. {"CANCELLED_AFTER_POSTING"} # {}
      OBVIOUS
    <3>3. QED
      BY <2>2, <3>1, <3>2, EntryIsSound, Zenon DEF Reversal
  <2>3. QED
    BY <2>1, <2>2
<1>4. CASE PostedEntries(c) = {}
  BY <1>1, <1>4 DEF Cancellation
<1>5. CASE PostedEntries(c) # {}
  <2>1. (CHOOSE r \in PostedEntries(c) : TRUE) \in PostedEntries(c)
    BY <1>5
  <2>2. QED
    BY <1>2, <1>3, <1>5, <2>1, Zenon DEF Cancellation
<1>6. QED
  BY <1>4, <1>5

(************************ Skips, drafts, no row ****************************)

LEMMA SkipIsSound ==
    ASSUME NEW c, OutOfScope(c)
    PROVE  SoundAnswer(OutOfScopeSkip(c), c)
<1>1. c.doc.fecha # None /\ c.doc.uuid # None
  BY DEF OutOfScope, Recordable
<1>2. QED
  BY <1>1, NothingIsSound, EntryIsSound, Zenon DEF OutOfScopeSkip

LEMMA DraftIsSound ==
    ASSUME NEW c
    PROVE  SoundAnswer(Draft(c), c)
<1> DEFINE case == CHOOSE r \in DRAFT_RULES : CaseClaims(c, r)
<1>1. {case.flag} # {}
  OBVIOUS
<1>2. SoundAnswer(Review(c, case, {case.flag}, <<>>), c)
  BY <1>1, NothingIsSound, ReviewIsSound
<1>3. QED
  BY <1>2, Zenon DEF Draft

LEMMA UnclaimedIsSound ==
    ASSUME NEW c
    PROVE  SoundAnswer(Unclaimed(c), c)
<1>1. \A flag : SoundAnswer(ReviewRequest(None, {flag}, NoAccounts), c)
  <2>1. TAKE flag
  <2>2. {flag} # {}
    OBVIOUS
  <2>3. QED
    BY <2>2, FlaggedIsSound
<1>2. QED
  BY <1>1, Zenon DEF Unclaimed, CreditNoteReview

(*************************** Incomes and notes *****************************)

\* Nothing refuses the amounts of the document only when all three can be legs.
LEMMA AmountsArePositive ==
    ASSUME NEW d, TypedDoc(d), BaseAmountsFlags(d) = {}
    PROVE  /\ Recordable(d)
           /\ d.total \in Int /\ d.total > 0
           /\ NetBase(d) \in Int /\ NetBase(d) > 0
           /\ IvaTraslado(d) \in Int
<1>1. Consistent(d)
  BY NothingLeftOut
<1>2. ~ Recordable(d) => RecordabilityFlags(d) # {}
  <2>1. ~ Recordable(d) => \/ "MISSING_SOURCE_FIELD" \in RecordabilityFlags(d)
                           \/ "MISSING_POSTING_IDENTITY" \in RecordabilityFlags(d)
    BY DEF Recordable, RecordabilityFlags
  <2>2. QED
    BY <2>1
<1>3. Recordable(d) /\ AmountRefusals(NetBase(d), IvaTraslado(d), d.total) = {}
  BY <1>2 DEF BaseAmountsFlags
<1>4. ~ (NetBase(d) <= 0 \/ d.total <= 0)
  BY <1>3 DEF AmountRefusals
<1>5. QED
  BY <1>1, <1>3, <1>4 DEF Consistent

\* Money, base and tax are legs under keys of their own.
LEMMA DocumentLegs ==
    ASSUME NEW d, TypedDoc(d), BaseAmountsFlags(d) = {}, NEW moneyRole, NEW baseRole, NEW ivaRole,
           NEW moneyKey \in {<<"clearing">>, <<"total">>}, NEW s \in {DEBE, HABER},
           NEW t \in {DEBE, HABER}
    PROVE  LET money == JournalLine(moneyRole, moneyKey, s, d.total)
               base == JournalLine(baseRole, <<"base">>, t, NetBase(d))
               iva == JournalLine(ivaRole, <<"iva">>, t, IvaTraslado(d))
           IN  /\ SoundLeg(money) /\ SoundLeg(base)
               /\ IvaTraslado(d) > 0 => SoundLeg(iva)
               /\ money.key # base.key /\ money.key # iva.key /\ base.key # iva.key
<1>1. \A x : TypedKey(<<x>>)
  BY DEF TypedKey
<1>2. /\ d.total \in Int /\ d.total > 0 /\ NetBase(d) \in Int /\ NetBase(d) > 0
      /\ IvaTraslado(d) \in Int
  BY AmountsArePositive
<1>3. \A role, key, side, amount : LET leg == JournalLine(role, key, side, amount)
                                   IN  /\ {"role", "key", "side", "amount"} \subseteq DOMAIN leg
                                       /\ leg.key = key /\ leg.side = side /\ leg.amount = amount
  BY DEF JournalLine
<1>4. \A x, y : <<x>> = <<y>> => x = y
  OBVIOUS
<1>5. TypedKey(moneyKey) /\ moneyKey # <<"base">> /\ moneyKey # <<"iva">> /\ <<"base">> # <<"iva">>
  BY <1>1, <1>4
<1>6. QED
  BY <1>1, <1>2, <1>3, <1>5 DEF SoundLeg

LEMMA MoneyKeys ==
    /\ \A row \in INCOME_ROWS : row.moneyKey \in {<<"clearing">>, <<"total">>}
    /\ \A row \in CREDIT_NOTE_ROWS : /\ row.moneyKey \in {<<"clearing">>, <<"total">>}
                                     /\ row.moneySide \in {DEBE, HABER}
<1>1. \A row \in INCOME_ROWS : row.moneyKey \in {<<"clearing">>, <<"total">>}
  BY SMTT(60) DEF INCOME_ROWS, IncomeRow
<1>2. \A row \in CREDIT_NOTE_ROWS : /\ row.moneyKey \in {<<"clearing">>, <<"total">>}
                                    /\ row.moneySide \in {DEBE, HABER}
  BY SMTT(60) DEF CREDIT_NOTE_ROWS, CreditNoteRow
<1>3. QED
  BY <1>1, <1>2

LEMMA IncomeLinesAreSound ==
    ASSUME NEW c, NEW row \in INCOME_ROWS, TypedDoc(c.doc), BaseAmountsFlags(c.doc) = {}
    PROVE  Sound(IncomeLines(c, row))
<1> DEFINE role == c.classification.role
           issuedBase == BaseLeg("ingresos", c, HABER)
           base == BaseLeg(role, c, DEBE)
<1>1. row.moneyKey \in {<<"clearing">>, <<"total">>}
  BY MoneyKeys
<1>2. /\ SoundLeg(MoneyLeg(c, row, DEBE)) /\ SoundLeg(issuedBase)
      /\ IvaTraslado(c.doc) > 0 => SoundLeg(TaxLeg(c, row, HABER))
      /\ MoneyLeg(c, row, DEBE).key # issuedBase.key
      /\ MoneyLeg(c, row, DEBE).key # TaxLeg(c, row, HABER).key
      /\ issuedBase.key # TaxLeg(c, row, HABER).key
  BY <1>1, DocumentLegs DEF MoneyLeg, BaseLeg, TaxLeg
<1>3. /\ SoundLeg(MoneyLeg(c, row, HABER)) /\ SoundLeg(base)
      /\ IvaTraslado(c.doc) > 0 => SoundLeg(TaxLeg(c, row, DEBE))
      /\ MoneyLeg(c, row, HABER).key # base.key
      /\ MoneyLeg(c, row, HABER).key # TaxLeg(c, row, DEBE).key
      /\ base.key # TaxLeg(c, row, DEBE).key
  BY <1>1, DocumentLegs DEF MoneyLeg, BaseLeg, TaxLeg
<1>4. \/ IncomeLines(c, row) = <<MoneyLeg(c, row, DEBE), issuedBase>>
      \/ IncomeLines(c, row) = <<base, MoneyLeg(c, row, HABER)>>
      \/ IvaTraslado(c.doc) > 0
         /\ IncomeLines(c, row) = <<MoneyLeg(c, row, DEBE), issuedBase, TaxLeg(c, row, HABER)>>
      \/ IvaTraslado(c.doc) > 0
         /\ IncomeLines(c, row) = <<base, TaxLeg(c, row, DEBE), MoneyLeg(c, row, HABER)>>
  BY IncomeLegs, Zenon
<1> HIDE DEF role, issuedBase, base
<1>5. QED
  BY <1>2, <1>3, <1>4, TwoAreSound, ThreeAreSound, Zenon

LEMMA IncomeIsSound ==
    ASSUME NEW c, NEW row \in INCOME_ROWS, TypedDoc(c.doc)
    PROVE  SoundAnswer(IncomeRule(c, row), c)
<1>1. \A flags : flags # {} => SoundAnswer(Review(c, row, flags, <<>>), c)
  BY NothingIsSound, ReviewIsSound
<1>2. ASSUME BaseAmountsFlags(c.doc) = {}
      PROVE  IF row.perspective = "emitido" THEN SoundAnswer(IssuedEntry(c, row), c)
                                            ELSE SoundAnswer(PurchaseEntry(c, row), c)
  <2>1. PICK lines : (IF row.perspective = "emitido" THEN IssuedEntry(c, row) ELSE PurchaseEntry(c, row))
                        = IncomeEntry(c, row, lines)
    BY Zenon DEF IssuedEntry, PurchaseEntry
  <2>2. IncomeEntry(c, row, lines).entry.lines = lines
    BY DEF IncomeEntry, Propose, ProposedJournalEntry
  <2>3. Sound(lines)
    BY <1>2, <2>1, <2>2, IncomeLinesAreSound DEF IncomeLines
  <2>4. c.doc.fecha # None /\ c.doc.uuid # None
    BY <1>2, AmountsArePositive DEF Recordable
  <2>5. SoundAnswer(IncomeEntry(c, row, lines), c)
    BY <2>3, <2>4, EntryIsSound, Zenon DEF IncomeEntry
  <2>6. QED
    BY <2>1, <2>5, Zenon
<1>3. QED
  BY <1>1, <1>2, Zenon DEF IncomeRule, IssuedIncome, ReceivedPurchase

LEMMA NoteIsSound ==
    ASSUME NEW c, NEW row \in CREDIT_NOTE_ROWS, TypedDoc(c.doc)
    PROVE  SoundAnswer(CreditNote(c, row), c)
<1> DEFINE flags == CreditNoteFlags(c, row, CreditNoteOriginal(c))
           legs == CreditNoteLegs(c, row)
<1>1. CASE flags # {}
  <2>1. CreditNote(c, row) = Review(c, row, flags, <<>>)
    BY <1>1 DEF CreditNote
  <2>2. QED
    BY <1>1, <2>1, NothingIsSound, ReviewIsSound
<1>2. CASE flags = {}
  <2>1. BaseAmountsFlags(c.doc) = {}
    BY <1>2, Zenon DEF CreditNoteFlags
  <2> DEFINE side == row.moneySide
             role == IF row.perspective = "recibido" THEN c.classification.role ELSE "ingresos"
             money == JournalLine(row.moneyRole, row.moneyKey, side, c.doc.total)
             base == JournalLine(role, <<"base">>, Opposite(side), NetBase(c.doc))
             iva == JournalLine(row.ivaRole, <<"iva">>, Opposite(side), IvaTraslado(c.doc))
  <2>2. /\ row.moneyKey \in {<<"clearing">>, <<"total">>}
        /\ side \in {DEBE, HABER} /\ Opposite(side) \in {DEBE, HABER}
    BY MoneyKeys DEF Opposite
  <2>3. /\ SoundLeg(money) /\ SoundLeg(base)
        /\ IvaTraslado(c.doc) > 0 => SoundLeg(iva)
        /\ money.key # base.key /\ money.key # iva.key /\ base.key # iva.key
    BY <2>1, <2>2, DocumentLegs, Z3
  <2>4. legs = <<money, base>> \o IF IvaTraslado(c.doc) > 0 THEN <<iva>> ELSE <<>>
    BY DEF CreditNoteLegs, IvaLeg
  <2> HIDE DEF money, base, iva
  <2>5. \/ legs = <<money, base>>
        \/ IvaTraslado(c.doc) > 0 /\ legs = <<money, base, iva>>
    BY <2>4, Appended, NothingAfterTwo
  <2>6. Sound(legs)
    BY <2>3, <2>5, TwoAreSound, ThreeAreSound, Zenon
  <2>7. CreditNote(c, row) = Review(c, row, {row.blocking}, legs) /\ {row.blocking} # {}
    BY <1>2 DEF CreditNote
  <2> HIDE DEF legs
  <2>8. QED
    BY <2>6, <2>7, ReviewIsSound
<1>3. QED
  BY <1>1, <1>2

(************************* Payment complements *****************************)

\* The roles one docto's legs are booked to are apart.
LEMMA RepRolesApart ==
    ASSUME NEW row \in REP_ROWS
    PROVE  /\ row.cashSide \in {DEBE, HABER} /\ Opposite(row.cashSide) \in {DEBE, HABER}
           /\ row.releasedRole # row.realizedRole
           /\ "clearing" \notin {row.moneyRole, UNAPPLIED_ROLE}
           /\ {row.releasedRole, row.realizedRole}
                 \cap {"clearing", row.moneyRole, UNAPPLIED_ROLE} = {}
<1>1. /\ row.cashSide \in {DEBE, HABER}
      /\ row.releasedRole # row.realizedRole
      /\ row.moneyRole \in {"clientes", "proveedores"}
      /\ row.releasedRole \in {"iva_trasladado_no_cobrado", "iva_acred_pendiente"}
      /\ row.realizedRole \in {"iva_trasladado_cobrado", "iva_acred_pagado"}
  BY SMTT(60) DEF REP_ROWS, RepRow
<1>2. QED
  BY <1>1 DEF Opposite, UNAPPLIED_ROLE

\* A leg of a docto is keyed by its role, the docto's uuid and its partialidad.
KeyedBy(leg, docto) == \E role : leg.key = <<role, docto.uuid, docto.parcialidad>>

LEMMA KeysTellDoctosApart ==
    ASSUME NEW k, NEW l, NEW d, NEW e, KeyedBy(k, d), KeyedBy(l, e), k.key = l.key
    PROVE  d.uuid = e.uuid /\ d.parcialidad = e.parcialidad
<1>1. PICK r : k.key = <<r, d.uuid, d.parcialidad>>
  BY DEF KeyedBy
<1>2. PICK s : l.key = <<s, e.uuid, e.parcialidad>>
  BY DEF KeyedBy
<1>3. \A a, b, x, y, z, w : <<a, b, x>> = <<y, z, w>> => b = z /\ x = w
  OBVIOUS
<1>4. <<r, d.uuid, d.parcialidad>> = <<s, e.uuid, e.parcialidad>>
  BY <1>1, <1>2, Zenon
<1>5. QED
  BY <1>3, <1>4, Zenon

LEMMA RepLegIsSound ==
    ASSUME NEW role, NEW side \in {DEBE, HABER}, NEW d, NEW amount \in Int, amount > 0
    PROVE  SoundLeg(RepLeg(role, side, d, amount)) /\ KeyedBy(RepLeg(role, side, d, amount), d)
<1> DEFINE leg == RepLeg(role, side, d, amount)
<1>1. /\ {"role", "key", "side", "amount"} \subseteq DOMAIN leg
      /\ leg.key = <<role, d.uuid, d.parcialidad>>
      /\ leg.side = side /\ leg.amount = amount
  BY DEF RepLeg, JournalLine
<1>2. \A x, y, z : TypedKey(<<x, y, z>>)
  BY DEF TypedKey
<1> HIDE DEF leg
<1>3. SoundLeg(leg)
  BY <1>1, <1>2 DEF SoundLeg
<1>4. KeyedBy(leg, d)
  BY <1>1 DEF KeyedBy
<1>5. QED
  BY <1>3, <1>4 DEF leg

LEMMA RepKeysApart ==
    ASSUME NEW r, NEW s, r # s, NEW x, NEW y, NEW a, NEW b, NEW d
    PROVE  RepLeg(r, x, d, a).key # RepLeg(s, y, d, b).key
<1>1. /\ RepLeg(r, x, d, a).key = <<r, d.uuid, d.parcialidad>>
      /\ RepLeg(s, y, d, b).key = <<s, d.uuid, d.parcialidad>>
  BY DEF RepLeg, JournalLine
<1>2. QED
  BY <1>1

\* What a docto's legs are made of.
Cash(row, d) == RepLeg("clearing", row.cashSide, d, d.pagado)
Against(row, d, settled) ==
    RepLeg(IF settled THEN row.moneyRole ELSE UNAPPLIED_ROLE, Opposite(row.cashSide), d, d.pagado)
Released(row, d) == RepLeg(row.releasedRole, row.cashSide, d, DoctoIva(d))
Realized(row, d) == RepLeg(row.realizedRole, Opposite(row.cashSide), d, DoctoIva(d))

\* A docto's legs are sound, and keyed by it.
LEMMA DoctoIsSound ==
    ASSUME NEW row \in REP_ROWS, NEW d, d.pagado \in Int, d.pagado > 0, DoctoIva(d) \in Int,
           NEW settled \in BOOLEAN
    PROVE  LET legs == DoctoLegs(row, d, settled)
           IN  /\ legs \in Seq(ToSet(legs))
               /\ Sound(legs) /\ \A leg \in ToSet(legs) : KeyedBy(leg, d)
<1> DEFINE taxed == settled /\ DoctoIva(d) > 0
           legs == DoctoLegs(row, d, settled)
           pair == <<Cash(row, d), Against(row, d, settled)>>
           iva == <<Released(row, d), Realized(row, d)>>
           A == {Cash(row, d), Against(row, d, settled), Released(row, d), Realized(row, d)}
<1>1. /\ row.cashSide \in {DEBE, HABER} /\ Opposite(row.cashSide) \in {DEBE, HABER}
      /\ row.releasedRole # row.realizedRole
      /\ "clearing" \notin {row.moneyRole, UNAPPLIED_ROLE}
      /\ {row.releasedRole, row.realizedRole}
            \cap {"clearing", row.moneyRole, UNAPPLIED_ROLE} = {}
  BY RepRolesApart
<1>2. /\ SoundLeg(Cash(row, d)) /\ KeyedBy(Cash(row, d), d)
      /\ SoundLeg(Against(row, d, settled)) /\ KeyedBy(Against(row, d, settled), d)
  BY <1>1, RepLegIsSound DEF Cash, Against
<1>3. taxed => /\ SoundLeg(Released(row, d)) /\ KeyedBy(Released(row, d), d)
               /\ SoundLeg(Realized(row, d)) /\ KeyedBy(Realized(row, d), d)
  BY <1>1, RepLegIsSound DEF Released, Realized
<1>4. /\ Cash(row, d).key # Against(row, d, settled).key
      /\ Released(row, d).key # Realized(row, d).key
      /\ Released(row, d).key # Cash(row, d).key /\ Realized(row, d).key # Cash(row, d).key
      /\ Released(row, d).key # Against(row, d, settled).key
      /\ Realized(row, d).key # Against(row, d, settled).key
  <2> DEFINE role == IF settled THEN row.moneyRole ELSE UNAPPLIED_ROLE
  <2>1. /\ "clearing" # role /\ row.releasedRole # row.realizedRole
        /\ row.releasedRole # "clearing" /\ row.realizedRole # "clearing"
        /\ row.releasedRole # role /\ row.realizedRole # role
    BY <1>1
  <2>2. Against(row, d, settled) = RepLeg(role, Opposite(row.cashSide), d, d.pagado)
    BY DEF Against
  <2> HIDE DEF role
  <2>3. Cash(row, d).key # Against(row, d, settled).key
    BY <2>1, <2>2, RepKeysApart DEF Cash
  <2>4. Released(row, d).key # Realized(row, d).key
    BY <2>1, RepKeysApart DEF Released, Realized
  <2>5. Released(row, d).key # Cash(row, d).key /\ Realized(row, d).key # Cash(row, d).key
    BY <2>1, RepKeysApart DEF Cash, Released, Realized
  <2>6. /\ Released(row, d).key # Against(row, d, settled).key
        /\ Realized(row, d).key # Against(row, d, settled).key
    BY <2>1, <2>2, RepKeysApart DEF Released, Realized
  <2>7. QED
    BY <2>3, <2>4, <2>5, <2>6
<1>5. legs = pair \o IF taxed THEN iva ELSE <<>>
  BY DEF DoctoLegs, Cash, Against, Released, Realized
<1>6. \A x, y : ToSet(<<x, y>>) = {x, y}
  BY TurnedPair
<1>7. pair \in Seq(A) /\ iva \in Seq(A) /\ ToSet(pair) = {Cash(row, d), Against(row, d, settled)}
      /\ ToSet(iva) = {Released(row, d), Realized(row, d)}
  BY <1>6
<1>8. Sound(pair) /\ (taxed => Sound(iva))
  BY <1>2, <1>3, <1>4, TwoAreSound
<1>9. \A k \in ToSet(pair), l \in ToSet(iva) : k.key # l.key
  BY <1>4, <1>7
<1> HIDE DEF legs, pair, iva, A
<1>10. CASE taxed
  <2>1. legs = pair \o iva
    BY <1>5, <1>10
  <2>2. Sound(legs)
    BY <1>7, <1>8, <1>9, <1>10, <2>1, JoinedAreSound
  <2>3. legs \in Seq(A) /\ ToSet(legs) \subseteq A
    BY <1>7, <2>1 DEF ToSet
  <2>4. \A leg \in A : KeyedBy(leg, d)
    BY <1>2, <1>3, <1>10 DEF A
  <2>5. legs \in Seq(ToSet(legs))
    BY <2>3 DEF ToSet
  <2>6. QED
    BY <2>2, <2>3, <2>4, <2>5 DEF legs
<1>11. CASE ~ taxed
  <2>1. legs = pair
    <3>1. pair \o <<>> = pair
      BY <1>7
    <3>2. QED
      BY <1>5, <1>11, <3>1
  <2>2. legs \in Seq(ToSet(legs))
    BY <1>7, <2>1 DEF ToSet
  <2>3. QED
    BY <1>2, <1>7, <1>8, <2>1, <2>2 DEF legs
<1>12. QED
  BY <1>10, <1>11

\* Doctos that can be booked, no partialidad of one stated twice, flatten into
\* sound legs: those in national currency, whatever of them is settled.
LEMMA RepLegsAreSound ==
    ASSUME NEW row \in REP_ROWS, NEW doctos, doctos \in Seq(ToSet(doctos)), NEW posted,
           \A d \in ToSet(doctos) : d.pagado \in Int /\ d.pagado > 0 /\ DoctoIva(d) \in Int,
           ~ PartialidadRepeats(doctos)
    PROVE  Sound(RepLegs(row, doctos, posted))
<1> DEFINE own(d) == IF GetsLegs(d) THEN DoctoLegs(row, d, d.uuid \in posted) ELSE <<>>
           lists == [i \in DOMAIN doctos |-> own(doctos[i])]
           A == UNION {ToSet(own(d)) : d \in ToSet(doctos)}
<1>1. /\ DOMAIN doctos = 1..Len(doctos) /\ Len(doctos) \in Nat
      /\ \A i \in DOMAIN doctos : doctos[i] \in ToSet(doctos)
  BY DEF ToSet
<1>2. ASSUME NEW d \in ToSet(doctos)
      PROVE  /\ own(d) \in Seq(ToSet(own(d))) /\ Sound(own(d))
             /\ \A leg \in ToSet(own(d)) : KeyedBy(leg, d)
  <2>1. CASE GetsLegs(d)
    <3>1. (d.uuid \in posted) \in BOOLEAN
      OBVIOUS
    <3>2. QED
      BY <2>1, <3>1, DoctoIsSound
  <2>2. CASE ~ GetsLegs(d)
    <3>1. own(d) = <<>>
      BY <2>2
    <3>2. <<>> \in Seq(ToSet(<<>>)) /\ \A leg \in ToSet(<<>>) : FALSE
      BY DEF ToSet
    <3>3. QED
      BY <3>1, <3>2, NothingIsSound, Zenon
  <2>3. QED
    BY <2>1, <2>2
<1> HIDE DEF own
<1>3. \A i \in DOMAIN doctos : own(doctos[i]) \in Seq(A)
  <2>1. TAKE i \in DOMAIN doctos
  <2> DEFINE list == own(doctos[i])
             B == ToSet(list)
  <2>2. list \in Seq(B) /\ B \subseteq A
    BY <1>1, <1>2
  <2> HIDE DEF A, B, list
  <2>3. list \in Seq(A)
    BY <2>2
  <2>4. QED
    BY <2>3 DEF list
<1>4. lists \in Seq(Seq(A))
  <2> DEFINE T == Seq(A)
  <2>1. \A i \in 1..Len(doctos) : own(doctos[i]) \in T
    BY <1>1, <1>3
  <2> HIDE DEF T, A
  <2>2. lists \in Seq(T)
    BY <1>1, <2>1
  <2>3. QED
    BY <2>2 DEF T
<1>5. DOMAIN lists = DOMAIN doctos /\ \A i \in DOMAIN doctos : lists[i] = own(doctos[i])
  OBVIOUS
<1> HIDE DEF lists, A
<1>6. \A i \in DOMAIN lists : Sound(lists[i])
  BY <1>1, <1>2, <1>5
<1>7. ASSUME NEW i \in DOMAIN lists, NEW j \in DOMAIN lists, i # j,
             NEW k \in ToSet(lists[i]), NEW l \in ToSet(lists[j])
      PROVE  k.key # l.key
  <2>1. KeyedBy(k, doctos[i]) /\ KeyedBy(l, doctos[j])
    BY <1>1, <1>2, <1>5
  <2>2. ~ (doctos[i].uuid = doctos[j].uuid /\ doctos[i].parcialidad = doctos[j].parcialidad)
    BY <1>5, <1>7 DEF PartialidadRepeats
  <2>3. QED
    BY <2>1, <2>2, KeysTellDoctosApart
<1>8. Sound(FlattenSeq(lists))
  BY <1>4, <1>6, <1>7, FlattenIsSound
<1>9. RepLegs(row, doctos, posted) = FlattenSeq(lists)
  BY Zenon DEF RepLegs, lists, own
<1>10. QED
  BY <1>8, <1>9

LEMMA RepIsSound ==
    ASSUME NEW c, NEW row \in REP_ROWS, TypedDoc(c.doc)
    PROVE  SoundAnswer(RepRule(c, row), c)
<1> DEFINE pagos == c.doc.pagos
           doctos == Doctos(pagos)
           legs == RepLegs(row, doctos, c.posted)
           blocking == RepBlocking(pagos) \cup Unresolved(pagos, c.posted)
<1>1. \A flags : flags # {} => SoundAnswer(Review(c, row, flags, <<>>), c)
  BY NothingIsSound, ReviewIsSound
<1>2. CASE ~ Recordable(c.doc)
  <2>1. RecordabilityFlags(c.doc) # {}
    <3>1. \/ "MISSING_SOURCE_FIELD" \in RecordabilityFlags(c.doc)
          \/ "MISSING_POSTING_IDENTITY" \in RecordabilityFlags(c.doc)
      BY <1>2 DEF Recordable, RecordabilityFlags
    <3>2. QED
      BY <3>1
  <2>2. RepRule(c, row) = Review(c, row, RecordabilityFlags(c.doc), <<>>)
    BY <1>2 DEF RepRule
  <2>3. QED
    BY <1>1, <2>1, <2>2
<1>3. CASE Recordable(c.doc) /\ (pagos = None \/ pagos = <<>>)
  <2>1. RepRule(c, row) = Review(c, row, {"MISSING_SOURCE_FIELD"}, <<>>)
    BY <1>3 DEF RepRule
  <2>2. {"MISSING_SOURCE_FIELD"} # {}
    OBVIOUS
  <2>3. QED
    BY <1>1, <2>1, <2>2
<1>4. CASE Recordable(c.doc) /\ ~ (pagos = None \/ pagos = <<>>) /\ RepRefusals(pagos) # {}
  <2>1. RepRule(c, row) = Review(c, row, RepRefusals(pagos), <<>>)
    BY <1>4 DEF RepRule
  <2>2. QED
    BY <1>1, <1>4, <2>1
<1>5. CASE Recordable(c.doc) /\ ~ (pagos = None \/ pagos = <<>>) /\ RepRefusals(pagos) = {}
  <2>1. /\ doctos \in Seq(ToSet(doctos))
        /\ \A d \in ToSet(doctos) : d.pagado \in Amount \cup {None} /\ DoctoIva(d) \in Int
    <3>1. pagos \in Seq(ToSet(pagos)) /\ \A p \in ToSet(pagos) : TypedPago(p)
      BY <1>5 DEF TypedDoc
    <3> HIDE DEF pagos
    <3>2. QED
      BY <3>1, DoctosOf
  <2>2. ~ PartialidadRepeats(doctos) /\ \A i \in DOMAIN doctos : DoctoRefusals(doctos[i]) = {}
    BY <1>5 DEF RepRefusals
  <2> HIDE DEF doctos, pagos
  <2>3. \A d \in ToSet(doctos) : d.pagado \in Int /\ d.pagado > 0 /\ DoctoIva(d) \in Int
    <3>1. TAKE d \in ToSet(doctos)
    <3>2. DoctoRefusals(d) = {}
      BY <2>2 DEF ToSet
    <3>3. d.pagado # None /\ Usable(d.pagado)
      BY <3>2 DEF DoctoRefusals
    <3>4. QED
      BY <2>1, <3>3 DEF Usable, IsFinite, Amount
  <2>4. Sound(legs)
    BY <2>1, <2>2, <2>3, RepLegsAreSound
  <2>5. c.doc.uuid # None /\ c.doc.fecha # None
    BY <1>5 DEF Recordable
  <2> HIDE DEF legs, blocking
  <2>6. CASE blocking # {}
    <3>1. RepRule(c, row) = Review(c, row, blocking, legs)
      BY <1>5, <2>6, Zenon DEF RepRule, legs, blocking, doctos, pagos
    <3>2. QED
      BY <2>4, <2>6, <3>1, ReviewIsSound
  <2>7. CASE blocking = {}
    <3>1. {"MISSING_SOURCE_FIELD"} # {}
      OBVIOUS
    <3>2. \/ RepRule(c, row) = Review(c, row, {"MISSING_SOURCE_FIELD"}, <<>>)
          \/ RepRule(c, row) = Propose(ProposedJournalEntry(row, c, c.doc.uuid, c.doc.hash,
                                                            c.doc.fecha, legs, {}))
      BY <1>5, <2>7, Zenon DEF RepRule, legs, blocking, doctos, pagos
    <3>3. SoundAnswer(Propose(ProposedJournalEntry(row, c, c.doc.uuid, c.doc.hash,
                                                   c.doc.fecha, legs, {})), c)
      BY <2>4, <2>5, EntryIsSound, Zenon
    <3>4. QED
      BY <1>1, <3>1, <3>2, <3>3, Zenon
  <2>8. QED
    BY <2>6, <2>7
<1>6. QED
  BY <1>2, <1>3, <1>4, <1>5

\* Whatever the engine answers, the constructors accept.
LEMMA AnswersAreSound ==
    ASSUME NEW c, TypedDoc(c.doc), \A r \in PostedEntries(c) : PostedRecord(r)
    PROVE  SoundAnswer(ProposeFor(c), c)
<1>1. SoundAnswer(Cancellation(c), c)
  BY CancellationIsSound
<1>2. OutOfScope(c) => SoundAnswer(OutOfScopeSkip(c), c)
  BY SkipIsSound
<1>3. SoundAnswer(Draft(c), c)
  BY DraftIsSound
<1>4. SoundAnswer(RowAnswer(c), c)
  <2>1. \A row \in INCOME_ROWS : SoundAnswer(IncomeRule(c, row), c)
    BY IncomeIsSound
  <2>2. \A row \in REP_ROWS : SoundAnswer(RepRule(c, row), c)
    BY RepIsSound
  <2>3. \A row \in CREDIT_NOTE_ROWS : SoundAnswer(CreditNote(c, row), c)
    BY NoteIsSound
  <2>4. SoundAnswer(Unclaimed(c), c)
    BY UnclaimedIsSound
  <2>5. QED
    BY <2>1, <2>2, <2>3, <2>4, Zenon DEF RowAnswer
<1>5. QED
  BY <1>1, <1>2, <1>3, <1>4, Zenon DEF ProposeFor

(************************ What the gate lets through ***********************)

\* A leg keeps its side and its key at any rate, and moves whole cents.
LEMMA ConvertedLeg ==
    ASSUME NEW leg, SoundLeg(leg), NEW rate \in Int \X (Nat \ {0})
    PROVE  LET inPesos == [leg EXCEPT !.amount = InPesos(@, rate)]
           IN  /\ inPesos.key = leg.key
               /\ inPesos.amount \in Int
               /\ inPesos.amount > 0 => SoundLeg(inPesos)
<1> DEFINE pesos == InPesos(leg.amount, rate)
           inPesos == [leg EXCEPT !.amount = pesos]
           n == leg.amount * rate[1]
           d == rate[2]
<1>1. n \in Int /\ d \in Nat \ {0} /\ leg.amount \in Int /\ rate[1] \in Int
  BY DEF SoundLeg
<1>2. pesos = (2 * n + d) \div (2 * d)
  <2>1. 2 * leg.amount * rate[1] = 2 * n
    BY <1>1
  <2>2. QED
    BY <2>1 DEF InPesos
<1> HIDE DEF n, d
<1>3. pesos \in Int
  BY <1>1, <1>2, Rounded
<1> HIDE DEF pesos
<1>4. /\ DOMAIN inPesos = DOMAIN leg /\ inPesos.amount = pesos
      /\ inPesos.key = leg.key /\ inPesos.side = leg.side
  BY DEF SoundLeg
<1> HIDE DEF inPesos
<1>5. pesos > 0 => SoundLeg(inPesos)
  BY <1>3, <1>4 DEF SoundLeg
<1>6. QED
  BY <1>3, <1>4, <1>5 DEF inPesos, pesos

\* What the conversion does not refuse can still be recorded.
LEMMA ConvertedIsSound ==
    ASSUME NEW entry, SoundEntry(entry), NEW rate \in Int \X (Nat \ {0}),
           Converted(entry, rate).flags = {}
    PROVE  SoundEntry(Converted(entry, rate).entry)
<1> DEFINE lines == entry.lines
           legs == [i \in DOMAIN lines |-> [lines[i] EXCEPT !.amount = InPesos(@, rate)]]
           inPesos == [entry EXCEPT !.lines = legs]
           n == Len(lines)
<1>1. \A flag : Converted(entry, rate) # Refused(flag)
  BY DEF Refused
<1>2. /\ \A i \in DOMAIN legs : ~ (legs[i].amount <= 0)
      /\ Converted(entry, rate) = Valued(inPesos, rate)
  BY <1>1, Zenon DEF Converted
<1>3. /\ lines \in Seq(ToSet(lines)) /\ \A i \in DOMAIN lines : SoundLeg(lines[i])
      /\ OwnKeys(lines)
  BY DEF SoundEntry, Sound
<1>4. n \in Nat /\ DOMAIN lines = 1..n /\ DOMAIN legs = 1..n
  BY <1>3
<1>5. ASSUME NEW i \in 1..n
      PROVE  SoundLeg(legs[i]) /\ legs[i].key = lines[i].key
  <2>1. legs[i] = [lines[i] EXCEPT !.amount = InPesos(@, rate)] /\ SoundLeg(lines[i])
    BY <1>3, <1>4
  <2>2. /\ legs[i].key = lines[i].key /\ legs[i].amount \in Int
        /\ legs[i].amount > 0 => SoundLeg(legs[i])
    BY <2>1, ConvertedLeg
  <2>3. ~ (legs[i].amount <= 0)
    BY <1>2, <1>4
  <2> DEFINE x == legs[i].amount
  <2> HIDE DEF x, legs
  <2>4. x \in Int /\ ~ (x <= 0) => x > 0
    OBVIOUS
  <2>5. QED
    BY <2>2, <2>3, <2>4 DEF x
<1>6. legs = [i \in 1..n |-> legs[i]]
  BY <1>4
<1> HIDE DEF legs, n
<1>7. legs \in Seq(ToSet(legs))
  <2>1. \A i \in 1..n : legs[i] \in ToSet(legs)
    BY <1>4 DEF ToSet
  <2>2. QED
    BY <1>4, <1>6, <2>1, ListOfValues
<1>8. OwnKeys(legs)
  BY <1>3, <1>4, <1>5 DEF OwnKeys
<1>9. Sound(legs)
  BY <1>4, <1>5, <1>7, <1>8 DEF Sound
<1>10. SoundEntry(inPesos)
  BY <1>9 DEF SoundEntry
<1>11. Converted(entry, rate).entry = inPesos
  <2> HIDE DEF inPesos
  <2>1. QED
    BY <1>2 DEF Valued
<1>12. QED
  BY <1>10, <1>11

\* An entry that is valued at all is valued as something to record.
LEMMA ValuedIsSound ==
    ASSUME NEW entry, SoundEntry(entry), NEW d, TypedDoc(d), ValueEntry(entry, d).flags = {}
    PROVE  SoundEntry(ValueEntry(entry, d).entry)
<1>1. \A flag : ValueEntry(entry, d) # Refused(flag)
  BY DEF Refused
<1>2. CASE ValueEntry(entry, d) = Valued(entry, None)
  BY <1>2 DEF Valued
<1>3. CASE ValueEntry(entry, d) = Converted(entry, ConfiguredRate) /\ ConfiguredRate # None
  BY <1>3, ConvertedIsSound, RateAssumption
<1>4. CASE ValueEntry(entry, d) = Converted(entry, d.tipoCambio) /\ UsableRate(d.tipoCambio)
           /\ d.tipoCambio # None
  BY <1>4, ConvertedIsSound DEF UsableRate, TypedDoc
<1>5. QED
  BY <1>1, <1>2, <1>3, <1>4, Zenon DEF ValueEntry

\* A decision the constructors accept.
SoundDecision(v) ==
    /\ v.state = "PROPOSED" => v.flags # {}
    /\ v.entry # None => SoundEntry(v.entry)
    /\ v.state = "SKIPPED" => /\ SoundEntry(v.entry) /\ v.entry.lines = <<>>
                              /\ v.flags = {} /\ v.accounts = NoAccounts
    /\ v.state = "POSTED" => /\ SoundEntry(v.entry) /\ v.entry.lines # <<>>
                             /\ v.flags = {} /\ IsBalanced(v.entry.lines)
                             /\ RolesOf(v.entry.lines) \subseteq DOMAIN v.accounts

LEMMA SkipsAreSound ==
    ASSUME NEW entry, SoundEntry(entry), entry.lines = <<>>, NEW m
    PROVE  SoundDecision(DecideSkip(entry, m))
BY DEF DecideSkip, Refuse, PostingDecision, SoundDecision

LEMMA ReviewsAreSound ==
    ASSUME NEW review, review.flags # {}, review.entry # None => SoundEntry(review.entry), NEW m
    PROVE  SoundDecision(DecideReview(review, m))
BY DEF DecideReview, PostingDecision, SoundDecision

\* Posted or refused, a proposal is decided as something to record.
LEMMA PostsAreSound ==
    ASSUME NEW c, TypedDoc(c.doc), NEW entry, SoundEntry(entry), NEW m
    PROVE  SoundDecision(DecidePost(c, entry, m))
<1> DEFINE valued == ValueEntry(entry, c.doc)
           posted == IF valued.flags # {} THEN entry ELSE valued.entry
           refusals == Refusals(c, posted, m, valued)
           accounts == [role \in RolesOf(posted.lines) |-> m.accounts[role]]
<1>1. SoundEntry(posted)
  BY ValuedIsSound
<1>2. DecidePost(c, entry, m) = IF refusals # {} THEN Refuse(entry, m, refusals)
                                ELSE PostingDecision(posted, "POSTED", m, {}, accounts, valued.rate)
  BY Zenon DEF DecidePost
<1>3. refusals = {} => posted.lines # <<>> /\ IsBalanced(posted.lines)
  BY DEF Refusals
<1> HIDE DEF valued, posted, refusals
<1>4. CASE refusals # {}
  BY <1>2, <1>4 DEF Refuse, PostingDecision, SoundDecision
<1>5. CASE refusals = {}
  <2>1. RolesOf(posted.lines) = DOMAIN accounts
    OBVIOUS
  <2> HIDE DEF accounts
  <2>2. QED
    BY <1>1, <1>2, <1>3, <1>5, <2>1 DEF PostingDecision, SoundDecision
<1>6. QED
  BY <1>4, <1>5

LEMMA DecisionsAreSound ==
    ASSUME NEW c, NEW m, NEW v, TypedContext(c, m), Answered(c, m, v)
    PROVE  SoundDecision(v)
<1> DEFINE answer == ProposeFor(c)
<1>1. SoundAnswer(answer, c)
  BY AnswersAreSound DEF TypedContext
<1>2. answer.kind \in {"skip", "review", "propose"} /\ v = Decide(c, answer, m)
  BY DEF Answered
<1>3. TypedDoc(c.doc)
  BY DEF TypedContext
<1> HIDE DEF answer
<1>4. CASE answer.kind = "skip"
  <2>1. SoundEntry(answer.entry) /\ answer.entry.lines = <<>>
    BY <1>1, <1>4 DEF SoundAnswer
  <2>2. v = DecideSkip(answer.entry, m)
    BY <1>2, <1>4, Zenon DEF Decide
  <2>3. QED
    BY <2>1, <2>2, SkipsAreSound
<1>5. CASE answer.kind = "review"
  <2>1. answer.flags # {} /\ (answer.entry # None => SoundEntry(answer.entry))
    BY <1>1, <1>5 DEF SoundAnswer
  <2>2. v = DecideReview(answer, m)
    BY <1>2, <1>5 DEF Decide
  <2>3. QED
    BY <2>1, <2>2, ReviewsAreSound
<1>6. CASE answer.kind = "propose"
  <2>1. SoundEntry(answer.entry)
    BY <1>1, <1>6 DEF SoundAnswer
  <2>2. v = DecidePost(c, answer.entry, m)
    BY <1>2, <1>6 DEF Decide
  <2>3. QED
    BY <1>3, <2>1, <2>2, PostsAreSound
<1>7. QED
  BY <1>2, <1>4, <1>5, <1>6

\* The engine raises only where the rules do.
LEMMA RaisedWasAmbiguous ==
    ASSUME NEW c, NEW m, TypedContext(c, m), Verdict(c, m).state = RAISED
    PROVE  Cardinality(PostedEntries(c)) > 1
<1>1. ProposeFor(c).kind = "raise"
  <2>1. Decide(c, ProposeFor(c), m).state # RAISED
    BY DecisionState DEF RAISED
  <2>2. QED
    BY <2>1, Zenon DEF Verdict
<1>2. QED
  BY <1>1, AnswersAreSound DEF SoundAnswer, TypedContext

\* No guard of a constructor fires on what the engine builds (journal.py:104,
\* journal.py:175, validator.py:156, journal.py:364), and it raises only where
\* the source was posted more than once (cancellation.py).  None is no record.
THEOREM DecisionsAreRecordable ==
    ASSUME "rule" \notin DOMAIN None
    PROVE  Spec => []DecisionIsRecordable
<1>1. IInv => DecisionIsRecordable
  <2>1. SUFFICES ASSUME IInv, verdict # None
                 PROVE  DecisionIsRecordable
    BY DEF DecisionIsRecordable, Decided, HasEntry, Posted
  <2>2. TypedContext(ctx, chart) /\ verdict = Verdict(ctx, chart)
    BY <2>1, ContextIsTyped DEF IInv
  <2>3. verdict.state = RAISED => Cardinality(PostedEntries(ctx)) > 1
    BY <2>2, RaisedWasAmbiguous
  <2>4. Decided => SoundDecision(verdict)
    BY <2>1, <2>2, WhatIsDecided, DecisionsAreSound
  <2>5. \A entry : SoundEntry(entry) =>
            entry # None /\ Constructible(entry.lines) /\ entry.source # None /\ entry.date # None
    BY SoundIsConstructible DEF SoundEntry
  <2>6. QED
    BY <2>3, <2>4, <2>5, Zenon DEF DecisionIsRecordable, SoundDecision, Decided, HasEntry, Posted, Lines
<1>2. QED
  BY <1>1, EngineInvariant, PTL

\* Recorded, a sound entry is what the rules take a posted record to be.
LEMMA RecordedAsPosted ==
    ASSUME NEW v, NEW t, SoundEntry(v.entry), NEW m \in Charts, ResolvedBy(v, m)
    PROVE  PostedRecord(ToRecord(v, t))
<1> DEFINE legs == v.entry.lines
           r == ToRecord(v, t)
           lines == r.lines
           n == Len(legs)
<1>1. /\ legs \in Seq(ToSet(legs)) /\ \A i \in DOMAIN legs : SoundLeg(legs[i])
      /\ OwnKeys(legs) /\ v.entry.source # None
  BY DEF SoundEntry, Sound
<1>2. n \in Nat /\ DOMAIN legs = 1..n
  BY <1>1
<1>3. DOMAIN lines = 1..n /\ r.source # None /\ lines = [i \in DOMAIN legs |-> lines[i]]
  BY <1>1, <1>2 DEF ToRecord
<1>4. ASSUME NEW i \in 1..n
      PROVE  /\ lines[i].role = legs[i].role /\ lines[i].key = legs[i].key
             /\ lines[i].side = legs[i].side /\ lines[i].amount = legs[i].amount
             /\ lines[i].account = m.accounts[legs[i].role] /\ lines[i].account # None
  <2>1. legs[i].role \in RolesOf(legs)
    BY <1>2 DEF RolesOf
  <2>2. /\ legs[i].role \in DOMAIN m.accounts /\ legs[i].role \in DOMAIN v.accounts
        /\ v.accounts[legs[i].role] = m.accounts[legs[i].role]
    BY <2>1 DEF ResolvedBy
  <2>3. m.accounts[legs[i].role] # None
    BY <2>2, ChartAssumption
  <2>4. i \in DOMAIN legs
    BY <1>2
  <2>5. /\ lines[i].role = legs[i].role /\ lines[i].key = legs[i].key
        /\ lines[i].side = legs[i].side /\ lines[i].amount = legs[i].amount
        /\ legs[i].role \in DOMAIN v.accounts => lines[i].account = v.accounts[legs[i].role]
    BY <2>4, RecordedLeg
  <2> HIDE DEF lines, r, n
  <2>6. QED
    BY <2>2, <2>3, <2>5
<1> HIDE DEF legs, lines, n
<1>5. lines \in Seq(ToSet(lines))
  <2>1. \A i \in 1..n : lines[i] \in ToSet(lines)
    BY <1>3 DEF ToSet
  <2>2. lines = [i \in 1..n |-> lines[i]]
    BY <1>2, <1>3
  <2>3. QED
    BY <1>2, <2>1, <2>2, ListOfValues
<1>6. \A leg \in ToSet(lines) :
         leg.side \in {DEBE, HABER} /\ leg.amount \in Amount /\ TypedKey(leg.key)
  <2>1. \A i \in 1..n : /\ lines[i].side \in {DEBE, HABER} /\ lines[i].amount \in Int
                        /\ TypedKey(lines[i].key)
    BY <1>1, <1>2, <1>4 DEF SoundLeg
  <2>2. \A leg \in ToSet(lines) : \E i \in 1..n : leg = lines[i]
    BY <1>3 DEF ToSet
  <2>3. QED
    BY <2>1, <2>2 DEF Amount
<1>7. Constructible(lines)
  <2>1. \A i \in 1..n : lines[i].amount \in Int /\ lines[i].amount > 0
    BY <1>1, <1>2, <1>4 DEF SoundLeg
  <2>2. \A i, j \in 1..n : lines[i].key = lines[j].key => i = j
    BY <1>1, <1>2, <1>4 DEF OwnKeys
  <2>3. QED
    BY <1>3, <2>1, <2>2, Sentinels DEF Constructible, Usable, IsFinite
<1>8. HasHistory(r)
  <2>1. \A i \in DOMAIN lines : lines[i].account # None
    BY <1>3, <1>4
  <2>2. ASSUME NEW i \in DOMAIN lines, NEW j \in DOMAIN lines, lines[i].role = lines[j].role
        PROVE  lines[i].account = lines[j].account
    <3>1. legs[i].role = legs[j].role
      BY <1>3, <1>4, <2>2
    <3>2. QED
      BY <1>3, <1>4, <3>1
  <2>3. QED
    BY <2>1, <2>2 DEF HasHistory, lines
<1>9. QED
  BY <1>3, <1>5, <1>6, <1>7, <1>8 DEF PostedRecord, lines

\* What the engine posts is recorded as the posted records it is given are
\* assumed to be: a reversal reads back only what a posting wrote
\* (PostingDecision.to_record, cancellation.py).
THEOREM PostingsCanBeReversed ==
    ASSUME NEW t
    PROVE  Spec => [](Posted => PostedRecord(ToRecord(verdict, t)))
<1>1. IInv /\ Posted => PostedRecord(ToRecord(verdict, t))
  <2>1. SUFFICES ASSUME IInv, Posted
                 PROVE  PostedRecord(ToRecord(verdict, t))
    OBVIOUS
  <2>2. /\ TypedContext(ctx, chart) /\ Answered(ctx, chart, verdict)
        /\ verdict.state = "POSTED" /\ chart \in Charts
    BY <2>1, ContextIsTyped, WhatIsDecided DEF Posted, IInv
  <2>3. SoundEntry(verdict.entry)
    BY <2>2, DecisionsAreSound DEF SoundDecision
  <2>4. ResolvedBy(verdict, chart)
    <3>1. /\ ProposesAbout(ProposeFor(ctx), ctx) /\ ProposeFor(ctx).kind # "raise"
          /\ verdict = Decide(ctx, ProposeFor(ctx), chart)
      BY <2>2, ProposalIdentity DEF Answered
    <3>2. QED
      BY <2>2, <3>1, PostedIsSound
  <2>5. QED
    BY <2>2, <2>3, <2>4, RecordedAsPosted
<1>2. QED
  BY <1>1, EngineInvariant, PTL
==============================================================================
