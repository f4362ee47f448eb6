-------------------------- MODULE PostingValidator ---------------------------
(***************************************************************************)
(* The gate: what a rule's answer becomes (POSTED, SKIPPED, PROPOSED), the *)
(* peso conversion it depends on, and the record that is written.          *)
(* Translated from contabilidad/validator.py, valuation.py, fx.py and      *)
(* application/ports/accounting.py.                                        *)
(*                                                                         *)
(* An exchange rate is a fraction <<pesos, units>> with units > 0.  A      *)
(* chart is one version of a client's account mapping: its accounts (a     *)
(* function from the roles it maps) and its ClaveProdServ table.           *)
(***************************************************************************)
EXTENDS PostingRules

CONSTANT ConfiguredRate   \* the configured provider's rate, None without one

\* A provider answers a positive rate or none (Valuation refuses any other).
ASSUME RateAssumption ==
    ConfiguredRate = None \/ ConfiguredRate \in (Nat \ {0}) \X (Nat \ {0})

(***************************** Valuation ***********************************)

UsableRate(rate) == rate # NaN /\ rate[1] > 0

\* Half-up rounding of a positive amount at the rate, in cents.
InPesos(amount, rate) == (2 * amount * rate[1] + rate[2]) \div (2 * rate[2])

Refused(flag) == [entry |-> None, flags |-> {flag}, rate |-> None]
Valued(entry, rate) == [entry |-> entry, flags |-> {}, rate |-> rate]

\* Every leg converted on its own; the result must still be an entry.
Converted(entry, rate) ==
    LET legs == [i \in DOMAIN entry.lines |->
                    [entry.lines[i] EXCEPT !.amount = InPesos(@, rate)]]
    IN  IF \E i \in DOMAIN legs : legs[i].amount <= 0 THEN Refused("INVALID_AMOUNT")
        ELSE IF ~ IsBalanced(legs) THEN Refused("UNBALANCED_ENTRY")
        ELSE Valued([entry EXCEPT !.lines = legs], rate)

\* Mutant: a stated rate that cannot be used falls back to the configured one.
ValueAtAnyRate(entry, doc) ==
    IF doc.tipo = "P" \/ doc.moneda = NATIONAL_CURRENCY THEN Valued(entry, None)
    ELSE IF doc.tipoCambio # None /\ UsableRate(doc.tipoCambio)
    THEN Converted(entry, doc.tipoCambio)
    ELSE IF ConfiguredRate = None THEN Refused("AMBIGUOUS_FX")
    ELSE Converted(entry, ConfiguredRate)

\* The rate chain: the document's own rate, then the configured one.  A rate
\* the document states and that cannot be used is never replaced.
ValueEntry(entry, doc) ==
    IF doc.tipo = "P" \/ doc.moneda = NATIONAL_CURRENCY THEN Valued(entry, None)
    ELSE IF doc.tipoCambio = None
    THEN IF ConfiguredRate = None THEN Refused("AMBIGUOUS_FX")
                                  ELSE Converted(entry, ConfiguredRate)
    ELSE IF UsableRate(doc.tipoCambio) THEN Converted(entry, doc.tipoCambio)
    ELSE Refused("AMBIGUOUS_FX")

(***************************** The gate ************************************)

\* The skips the gate honours: the out-of-scope table and 4.15a.
SKIP_RULE_IDS == {c.id : c \in OUT_OF_SCOPE_RULES} \cup {RULE_4_15A.id}

UnresolvedRoles(chart, lines) == RolesOf(lines) \ DOMAIN chart.accounts

FxRefusal(doc, valued) ==
    IF doc.moneda = NATIONAL_CURRENCY \/ doc.tipo = "P" THEN {} ELSE valued.flags

\* Mutant: only a cancelled source is ineligible; an unknown one is presumed.
RefusalsPresumed(ctx, entry, chart, valued) ==
    UNION { IF ctx.doc.status = "CANCELLED" THEN {"INELIGIBLE_SOURCE_STATE"} ELSE {},
            IF entry.lines = <<>> THEN {"MISSING_SOURCE_FIELD"} ELSE {},
            IF UnresolvedRoles(chart, entry.lines) # {} THEN {"UNMAPPED_ACCOUNT"} ELSE {},
            FxRefusal(ctx.doc, valued),
            IF IsBalanced(entry.lines) THEN {} ELSE {"UNBALANCED_ENTRY"},
            ctx.doc.flags }

\* The ten conditions, all evaluated; each contributes its own reason.
Refusals(ctx, entry, chart, valued) ==
    UNION { IF ctx.doc.status = "CANCELLED" THEN {"INELIGIBLE_SOURCE_STATE"}
            ELSE IF ctx.doc.status # "VIGENTE" THEN {"UNKNOWN_SOURCE_STATE"} ELSE {},
            IF entry.lines = <<>> THEN {"MISSING_SOURCE_FIELD"} ELSE {},
            IF UnresolvedRoles(chart, entry.lines) # {} THEN {"UNMAPPED_ACCOUNT"} ELSE {},
            FxRefusal(ctx.doc, valued),
            IF \E i \in DOMAIN entry.lines : ~ IsFinite(entry.lines[i].amount)
            THEN {"INVALID_AMOUNT"} ELSE {},
            IF IsBalanced(entry.lines) THEN {} ELSE {"UNBALANCED_ENTRY"},
            ctx.doc.flags,
            IF entry.rule \in DOMAIN SUPPORTED_RULES
               /\ SUPPORTED_RULES[entry.rule] = entry.version
            THEN {} ELSE {"UNSUPPORTED_RULE"},
            IF entry.source = None \/ entry.hash = "" THEN {"MISSING_POSTING_IDENTITY"} ELSE {} }

PostingDecision(entry, state, chart, flags, accounts, rate) ==
    [entry |-> entry, state |-> state, mapping |-> chart.version,
     flags |-> flags, accounts |-> accounts, rate |-> rate]

Refuse(entry, chart, flags) ==
    PostingDecision(entry, "PROPOSED", chart, flags, NoAccounts, None)

\* A proposal posts in pesos or is refused as the rule wrote it.
DecidePost(ctx, entry, chart) ==
    LET valued == ValueEntry(entry, ctx.doc)
        posted == IF valued.flags # {} THEN entry ELSE valued.entry
        refusals == Refusals(ctx, posted, chart, valued)
    IN  IF refusals # {} THEN Refuse(entry, chart, refusals)
        ELSE PostingDecision(posted, "POSTED", chart, {},
                 [role \in RolesOf(posted.lines) |-> chart.accounts[role]], valued.rate)

DecideSkip(entry, chart) ==
    IF entry.rule \in SKIP_RULE_IDS
    THEN PostingDecision(entry, "SKIPPED", chart, {}, NoAccounts, None)
    ELSE Refuse(entry, chart, {"UNSUPPORTED_RULE"})

\* Mutant: the accounts of a review are resolved by the chart of the day.
DecideReviewToday(review, chart) ==
    LET roles == IF review.entry = None THEN {}
                 ELSE RolesOf(review.entry.lines) \cap DOMAIN chart.accounts
    IN  PostingDecision(review.entry, "PROPOSED", chart, review.flags,
                        [role \in roles |-> chart.accounts[role]], None)

\* A rule's own refusal keeps its flags and the accounts it already named.
DecideReview(review, chart) ==
    PostingDecision(review.entry, "PROPOSED", chart, review.flags, review.accounts, None)

Decide(ctx, proposal, chart) ==
    IF proposal.kind = "skip" THEN DecideSkip(proposal.entry, chart)
    ELSE IF proposal.kind = "review" THEN DecideReview(proposal, chart)
    ELSE DecidePost(ctx, proposal.entry, chart)

(***************************** The record **********************************)

\* The decision as the durable fact, each leg with the account it was
\* posted to (None when none was resolved).
ToRecord(decision, recordedAt) ==
    LET entry == decision.entry
        AccountOf(role) == IF role \in DOMAIN decision.accounts
                           THEN decision.accounts[role] ELSE None
    IN  [key |-> Fingerprint(entry, decision.mapping),
         contributor |-> entry.contributor, source |-> entry.source, hash |-> entry.hash,
         rule |-> entry.rule, version |-> entry.version, mapping |-> decision.mapping,
         state |-> decision.state, date |-> entry.date, recordedAt |-> recordedAt,
         assumptions |-> entry.assumptions, rate |-> decision.rate,
         lines |-> [i \in DOMAIN entry.lines |->
                      [role |-> entry.lines[i].role, key |-> entry.lines[i].key,
                       side |-> entry.lines[i].side, amount |-> entry.lines[i].amount,
                       account |-> AccountOf(entry.lines[i].role)]]]
=============================================================================
