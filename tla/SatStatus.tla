------------------------------ MODULE SatStatus ------------------------------
(***************************************************************************)
(* What the SAT's answer about a download request means, and how long to   *)
(* wait before asking again.  Translated from domain/enums/sat_status.py,  *)
(* application/policies/sat_status.py and backoff.py, and from the answers *)
(* satcfdi_gateway.py makes of what the SAT returns.                       *)
(***************************************************************************)
EXTENDS Integers

CONSTANTS
    InitialDelay, MaxDelay, Multiplier, Timeout,  \* PollingPolicy
    MaxFloat,   \* the largest power a float holds: 2^1024 in the code
    None

ASSUME PolicyAssumption ==
    /\ InitialDelay \in Nat /\ MaxDelay \in Nat /\ Timeout \in Nat
    /\ Multiplier \in Nat \ {0} /\ MaxFloat \in Nat

ErrorClassification ==
    {"ok", "retry", "partition", "quota_wait", "duplicate", "not_found",
     "authentication", "fatal", "unknown"}

RequestState ==
    {"ACCEPTED", "PROCESSING", "COMPLETED", "ERROR", "REJECTED", "EXPIRED"}

CodeClass ==
    [code \in {"5000", "5002", "5003", "5004", "5005", "5011",
               "300", "301", "302", "303", "304", "305", "404"} |->
        CASE code = "5000" -> "ok"
          [] code = "5003" -> "partition"
          [] code = "5004" -> "not_found"
          [] code = "5005" -> "duplicate"
          [] code = "5011" -> "quota_wait"
          [] code = "404" -> "retry"
          [] code \in {"300", "304", "305"} -> "authentication"
          [] code \in {"5002", "301", "302", "303"} -> "fatal"]

\* The codes are open: one this client has never seen is "unknown".
ClassifyCode(code) == IF code \in DOMAIN CodeClass THEN CodeClass[code] ELSE "unknown"

ClassifyState(state) ==
    CASE state \in {"ACCEPTED", "PROCESSING"} -> "retry"
      [] state = "COMPLETED" -> "ok"
      [] state \in {"ERROR", "REJECTED", "EXPIRED"} -> "fatal"

\* Mutant: a state that is decisive wins over the event code.
ClassifyStateFirst(result) ==
    IF ClassifyState(result.state) # "retry" THEN ClassifyState(result.state)
    ELSE ClassifyCode(result.code)

\* A decisive event code wins; otherwise EstadoSolicitud decides.
ClassifyVerification(result) ==
    LET class == ClassifyCode(result.code)
    IN  IF class \in {"ok", "unknown"} THEN ClassifyState(result.state) ELSE class

CLEAN_TERMINALS == {"ok", "not_found", "partition", "quota_wait"}

-----------------------------------------------------------------------------

FirstGiven(a, b) == IF a # None THEN a ELSE b

\* A reply has EstadoSolicitud, the event code, the transport code and the
\* packages.  An EstadoSolicitud outside 1..6 is a KeyError.
Translates(reply) == reply.estado \in RequestState

VerificationOf(reply) ==
    [ state |-> reply.estado,
      code  |-> FirstGiven(reply.event, FirstGiven(reply.transport, "5000")),
      ids   |-> reply.ids ]

-----------------------------------------------------------------------------

\* multiplier ** n
Power[n \in Nat] == IF n = 0 THEN 1 ELSE Multiplier * Power[n - 1]

\* float ** int raises OverflowError where the result does not fit; the product
\* with the initial delay would only become infinite.
DelayOverflows(attempt) == Power[attempt] > MaxFloat

\* Mutant: the delay grows with the attempt instead of its power.
DelayLinear(attempt) ==
    IF InitialDelay * Multiplier * attempt < MaxDelay
    THEN InitialDelay * Multiplier * attempt ELSE MaxDelay

Delay(attempt) ==
    IF InitialDelay * Power[attempt] < MaxDelay
    THEN InitialDelay * Power[attempt] ELSE MaxDelay
=============================================================================
