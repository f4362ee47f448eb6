---------------------------- MODULE FiscalReading ----------------------------
(***************************************************************************)
(* From the bytes of one extracted CFDI to what the fiscal stage makes of  *)
(* it: the parser, the signature verifier and the projector, as functions  *)
(* of the document.  Translated from                                       *)
(* infrastructure/fiscal/satcfdi_fiscal_parser.py,                         *)
(* satcfdi_signature_verifier.py, fiscal/parse.py, perspective.py,         *)
(* signature.py, projection.py and domain/model/review.py.                 *)
(*                                                                         *)
(* A document is what these functions tell apart: what satcfdi can do with *)
(* the bytes, whether the attributes the parser requires are there, which  *)
(* of the texts it copies do not convert, and the few values decided on.   *)
(***************************************************************************)
EXTENDS Integers, Sequences

CONSTANTS
    Uuids,   \* the canonical UUIDs; any other name is not one
    Rfcs     \* the taxpayers

NONE == "none"   \* what the document does not state
ASSUME NoneIsNoUuid == NONE \notin Uuids

GENERIC_RFCS == {"XAXX010101000", "XEXX010101000"}
\* What the fiscal stage can doubt of a document.
FlagTypes ==
    {"unsupported_currency", "perspective_mismatch", "perspective_undetermined", "cfdi_signature"}

CURRENCIES == {"MXN", "USD", "CAD"}
NO_CURRENCY == "XXX"

\* The texts that reach a converter: Uuid, Rfc, Decimal.
Texts == {"tfd_uuid", "related_uuid", "rfc", "rate", "header", "lines", "rep"}

Xml ==
    [ satcfdi : {"cfdi", "refused", "other_root", "not_xml"},
      required : BOOLEAN,          \* every required node and attribute is there
      malformed : SUBSET Texts,    \* what is not the number or identity it should be
      version : {"4.0", "3.3"}, tipo : {"I", "P"},
      moneda : CURRENCIES \cup {NO_CURRENCY, "JPY"},
      total : {0, 1},
      rep : CURRENCIES \cup {"JPY", NONE},   \* MonedaP, or no complemento
      uuid : Uuids \cup {NONE},
      emisor : Rfcs, receptor : Rfcs,
      sellos : BOOLEAN,            \* the signature material is complete
      validation : {"accepted", "rejected", "no_path", "unavailable"} ]

(****************************** The parser *********************************)

\* The exceptions of satcfdi leave through parse; only what the parser itself
\* finds missing is an XmlParseError.
Parse(xml) ==
    IF xml.satcfdi # "cfdi" THEN "defect"
    ELSE IF ~ xml.required THEN "XmlParseError"
    ELSE "read"

(******************************* The verdict *******************************)

Verify(xml) ==
    IF xml.satcfdi \in {"not_xml", "other_root"} THEN "unsupported"
    ELSE IF ~ xml.sellos THEN "absent"
    ELSE IF xml.satcfdi = "refused" THEN "unsupported"
    ELSE CASE xml.validation = "accepted" -> "valid"
           [] xml.validation = "rejected" -> "invalid"
           [] xml.validation = "no_path" -> "unsupported"
           [] OTHER -> "validation_error"

ReviewFlagsFor(outcome) == IF outcome = "valid" THEN <<>> ELSE <<"cfdi_signature">>

(***************************** The document ********************************)

IsNonMonetaryHeader(raw) ==
    raw.tipo = "P" /\ raw.moneda = NO_CURRENCY /\ raw.total = 0

RepIsUnsupported(raw) == raw.rep # NONE /\ raw.rep \notin CURRENCIES

\* Mutant: the header and the complemento each raise a flag of their own.
CurrencyFlagsOfEach(raw) ==
    (IF RepIsUnsupported(raw) THEN <<"unsupported_currency">> ELSE <<>>)
    \o (IF IsNonMonetaryHeader(raw) \/ raw.moneda \in CURRENCIES
        THEN <<>> ELSE <<"unsupported_currency">>)

\* One flag at most, whichever currency it is for.
CurrencyFlags(raw) ==
    IF RepIsUnsupported(raw) \/ ~ (IsNonMonetaryHeader(raw) \/ raw.moneda \in CURRENCIES)
    THEN <<"unsupported_currency">> ELSE <<>>

\* The amounts of a complemento are converted where their currency has a scale.
RepConverted(raw) == IF raw.rep \in CURRENCIES THEN {"rep"} ELSE {}

\* The texts that building the document converts, each of which raises on a
\* malformed one.
Converted(raw) ==
    IF raw.version # "4.0" THEN {}
    ELSE {"tfd_uuid", "related_uuid", "rfc", "rate"}
         \cup RepConverted(raw)
         \cup (IF raw.moneda \in CURRENCIES THEN {"header", "lines"} ELSE {})
         \cup (IF raw.tipo = "P" /\ raw.moneda = NO_CURRENCY THEN {"header"} ELSE {})

\* build_fiscal_document: only CFDI 4.0 has a fiscal projection.
BuildFiscalDocument(raw) ==
    IF raw.version # "4.0" THEN [document |-> FALSE, flags |-> <<>>]
    ELSE [document |-> TRUE, flags |-> CurrencyFlags(raw)]

(***************************** The perspective *****************************)

Resolved(perspective, flags) == [perspective |-> perspective, flags |-> flags]

ResolvePerspective(contributor, raw) ==
    LET issued == contributor = raw.emisor
        received == contributor = raw.receptor
    IN  IF ~ issued /\ ~ received
        THEN Resolved("undetermined", <<"perspective_mismatch">>)
        ELSE IF (issued /\ received) \/ contributor \in GENERIC_RFCS
        THEN Resolved("undetermined", <<"perspective_undetermined">>)
        ELSE Resolved(IF issued THEN "emitido" ELSE "recibido", <<>>)

(***************************** The projection ******************************)

\* Projecting converts the issuer even where there is no document to build.
Projects(raw) == raw.malformed \cap (Converted(raw) \cup {"rfc"}) = {}

QuarantineReason(raw, name) ==
    IF ~ BuildFiscalDocument(raw).document THEN "no_projection"
    ELSE IF raw.uuid = NONE THEN "no_identity"
    ELSE IF name \notin Uuids THEN "name_is_no_uuid"
    ELSE IF raw.uuid # name THEN "name_disagrees"
    ELSE "admitted"

\* No producer's flags erase another's, and they keep their order.
ProjectDocument(contributor, raw, name) ==
    LET resolution == ResolvePerspective(contributor, raw)
    IN  [ uuid |-> raw.uuid, perspective |-> resolution.perspective,
          quarantine |-> QuarantineReason(raw, name),
          flags |-> BuildFiscalDocument(raw).flags \o resolution.flags
                        \o ReviewFlagsFor(Verify(raw)) ]
=============================================================================
