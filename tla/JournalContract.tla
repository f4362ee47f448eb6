--------------------------- MODULE JournalContract ---------------------------
(***************************************************************************)
(* The vocabulary every posting rule shares: amounts, journal legs, the    *)
(* proposed entry, and the three answers a rule may give (propose, skip,   *)
(* ask for review).  Translated from contabilidad/journal.py,              *)
(* contabilidad/rules/contract.py and domain/policy/money.py.              *)
(*                                                                         *)
(* Amounts are integers: a source amount in cents.  NaN is the quiet NaN,  *)
(* the one non-finite amount there is: MoneyPolicy quantizes, which raises *)
(* on an infinity.  As a rate it stands for any non-finite one.  None is   *)
(* an absent field.  A line key is a tuple of its parts; review flags are  *)
(* sets of flag types, their prose left out.                               *)
(***************************************************************************)
EXTENDS Integers, Sequences, FiniteSets, SequencesExt

CONSTANTS None,  \* Python's None
          NaN    \* the Decimal that is not a number

ASSUME Sentinels == None \notin Int /\ NaN \notin Int /\ None # NaN

(***************************** Amounts *************************************)

\* A Decimal, as a document states it and as a leg carries it.
Amount == Int \cup {NaN}

IsFinite(amount) == amount # NaN

\* Finite and strictly positive: what a leg may carry (reposting._is_usable).
Usable(amount) == IsFinite(amount) /\ amount > 0

\* Decimal's !=: NaN differs from everything, itself included.
Differs(a, b) == ~ (IsFinite(a) /\ IsFinite(b) /\ a = b)

\* Decimal arithmetic: a NaN operand makes the result NaN.
Plus(a, b) == IF IsFinite(a) /\ IsFinite(b) THEN a + b ELSE NaN
Minus(a, b) == IF IsFinite(a) /\ IsFinite(b) THEN a - b ELSE NaN

SumAmounts(amounts) ==
    LET sum[n \in 0..Len(amounts)] == IF n = 0 THEN 0 ELSE Plus(sum[n - 1], amounts[n])
    IN  sum[Len(amounts)]

(************************** Legs and entries *******************************)

DEBE  == "Debe"
HABER == "Haber"

Opposite(side) == IF side = DEBE THEN HABER ELSE DEBE

JournalLine(role, key, side, amount) ==
    [role |-> role, key |-> key, side |-> side, amount |-> amount]

\* What these legs move on the side; a leg on the other one adds nothing.
SideTotal(lines, side) ==
    SumAmounts([i \in DOMAIN lines |-> IF lines[i].side = side THEN lines[i].amount ELSE 0])

IsBalanced(lines) == SideTotal(lines, DEBE) = SideTotal(lines, HABER)

RolesOf(lines) == {lines[i].role : i \in DOMAIN lines}

\* What JournalLine and ProposedJournalEntry check on construction: every
\* leg moves a positive finite amount, and no line key repeats.
Constructible(lines) ==
    /\ \A i \in DOMAIN lines : Usable(lines[i].amount)
    /\ \A i, j \in DOMAIN lines : lines[i].key = lines[j].key => i = j

ProposedJournalEntry(rule, ctx, source, hash, date, lines, assumptions) ==
    [rule |-> rule.id, version |-> rule.version,
     contributor |-> ctx.contributor, source |-> source, hash |-> hash,
     date |-> date, lines |-> lines, assumptions |-> assumptions]

\* Mutant: the key forgets the mapping version.
FingerprintUnversioned(entry, mappingVersion) ==
    <<entry.contributor, entry.source, entry.rule, entry.version>>

\* The entry-level idempotency key: the leg-level one is the same tuple with
\* the leg's own key in place of the empty one.
Fingerprint(entry, mappingVersion) ==
    <<entry.contributor, entry.source, entry.rule, entry.version, mappingVersion>>

(**************************** The three answers ****************************)

NoAccounts == [role \in {} |-> None]

Propose(entry) ==
    [kind |-> "propose", entry |-> entry, flags |-> {}, accounts |-> NoAccounts]

Skip(entry) ==
    [kind |-> "skip", entry |-> entry, flags |-> {}, accounts |-> NoAccounts]

ReviewRequest(entry, flags, accounts) ==
    [kind |-> "review", entry |-> entry, flags |-> flags, accounts |-> accounts]

\* A rule that raises ValueError answers nothing at all.
Raise == [kind |-> "raise", entry |-> None, flags |-> {}, accounts |-> NoAccounts]

Recordable(doc) == doc.fecha # None /\ doc.uuid # None

RecordabilityFlags(doc) ==
    {flag \in {"MISSING_SOURCE_FIELD", "MISSING_POSTING_IDENTITY"} :
        \/ flag = "MISSING_SOURCE_FIELD" /\ doc.fecha = None
        \/ flag = "MISSING_POSTING_IDENTITY" /\ doc.uuid = None}

\* A refusal is keyed as an entry when the document can be dated and
\* identified, and flags the document itself otherwise.
Review(ctx, rule, flags, lines) ==
    ReviewRequest(
        IF Recordable(ctx.doc)
        THEN ProposedJournalEntry(rule, ctx, ctx.doc.uuid, ctx.doc.hash,
                                  ctx.doc.fecha, lines, {})
        ELSE None,
        flags, NoAccounts)
=============================================================================
