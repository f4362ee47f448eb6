-------------------------- MODULE CancellationRules --------------------------
(***************************************************************************)
(* Rows 4.15a and 4.15b: what the books do about a source the SAT has      *)
(* cancelled.  Translated from contabilidad/rules/cancellation.py.         *)
(*                                                                         *)
(* ctx.previous is the set of records the client's books hold for the      *)
(* source; the code receives them as a tuple and only ever reads the one   *)
(* POSTED record among them.                                               *)
(***************************************************************************)
EXTENDS JournalContract

RULE_4_15A == [id |-> "4.15a", version |-> "2"]
RULE_4_15B == [id |-> "4.15b", version |-> "1"]

PostedEntries(ctx) == {r \in ctx.previous : r.state = "POSTED"}

\* Why a cancellation cannot be keyed: its own date, and the TFD UUID.
CancellationFlags(ctx) ==
    {flag \in {"MISSING_SOURCE_FIELD", "MISSING_POSTING_IDENTITY"} :
        \/ flag = "MISSING_SOURCE_FIELD" /\ ctx.cancelledOn = None
        \/ flag = "MISSING_POSTING_IDENTITY" /\ ctx.doc.uuid = None}

\* Cancelled with nothing posted, dated by the cancellation and nothing else.
CancellationSkip(ctx) ==
    IF CancellationFlags(ctx) # {}
    THEN ReviewRequest(None, CancellationFlags(ctx), NoAccounts)
    ELSE Skip(ProposedJournalEntry(RULE_4_15A, ctx, ctx.doc.uuid, ctx.doc.hash,
                                   ctx.cancelledOn, <<>>, {}))

\* The accounts the original was posted to, by role; today's chart is not asked.
HistoricalAccounts(record) ==
    [role \in RolesOf(record.lines) |->
        LET i == CHOOSE i \in DOMAIN record.lines : record.lines[i].role = role
        IN  record.lines[i].account]

\* A POSTED record that leaves a leg unresolved, or books one role to two
\* accounts, has no history to reverse: the code raises.
HasHistory(record) ==
    /\ \A i \in DOMAIN record.lines : record.lines[i].account # None
    /\ \A i, j \in DOMAIN record.lines :
          record.lines[i].role = record.lines[j].role
              => record.lines[i].account = record.lines[j].account

\* Mutant: the legs are copied as they were posted.
RepeatedLegs(lines) ==
    [i \in DOMAIN lines |->
        JournalLine(lines[i].role, <<"reversal">> \o lines[i].key,
                    lines[i].side, lines[i].amount)]

ReversedLegs(lines) ==
    [i \in DOMAIN lines |->
        JournalLine(lines[i].role, <<"reversal">> \o lines[i].key,
                    Opposite(lines[i].side), lines[i].amount)]

\* The posted fact, leg for leg, booked the other way round.
Reversal(ctx, record) ==
    IF ctx.cancelledOn = None
    THEN ReviewRequest(None, {"MISSING_SOURCE_FIELD"}, NoAccounts)
    ELSE IF ~ HasHistory(record) THEN Raise
    ELSE ReviewRequest(
            ProposedJournalEntry(RULE_4_15B, ctx, record.source, record.hash,
                                 ctx.cancelledOn, ReversedLegs(record.lines), {}),
            {"CANCELLED_AFTER_POSTING"}, HistoricalAccounts(record))

\* Two POSTED records leave the reversal target ambiguous: the code raises.
Cancellation(ctx) ==
    IF PostedEntries(ctx) = {} THEN CancellationSkip(ctx)
    ELSE IF Cardinality(PostedEntries(ctx)) > 1 THEN Raise
    ELSE Reversal(ctx, CHOOSE r \in PostedEntries(ctx) : TRUE)
=============================================================================
