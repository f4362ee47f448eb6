------------------------------ MODULE Download -------------------------------
(***************************************************************************)
(* ExecuteDownloadUseCase.execute: submit a request to the SAT, remember   *)
(* its id, poll until an answer resolves it or the deadline has passed,    *)
(* and download the packages of a resolved one.  Translated from           *)
(* application/use_cases/execute_download.py and satcfdi_gateway.py.       *)
(*                                                                         *)
(* The SAT is free: it may refuse to give an id, answer any reply of       *)
(* Replies to any poll, and any call to it may raise.  Time passes between *)
(* any two steps, so a poll or a sleep may take longer than it should.     *)
(***************************************************************************)
EXTENDS SatStatus, Sequences, FiniteSets

CONSTANTS
    Replies,      \* what the SAT may answer to a poll
    MaxRequests,  \* bound: the ids the SAT gives out
    Horizon       \* bound: this instant stands for itself and every later one

ASSUME DownloadBounds == MaxRequests \in Nat /\ Horizon \in Nat /\ Timeout <= Horizon

\* A reply lists packages, and is something other than no answer.
ASSUME ReplyAssumption ==
    \A reply \in Replies :
        reply.ids \in Seq({reply.ids[i] : i \in DOMAIN reply.ids}) /\ VerificationOf(reply) # None

VARIABLES
    clock,   \* instants are counted from the beginning of a call
    issued,  \* the number of request ids the SAT has given out
    saved,   \* the request ids the repository holds, in memory
    job      \* the execution under way

downloadVars == <<clock, issued, saved, job>>

Ended == {"idle", "done", "raised"}

NoJob ==
    [ pc |-> "idle", request |-> None, deadline |-> 0, attempt |-> 0, wake |-> 0,
      answer |-> None, packages |-> <<>>, why |-> None ]

DownloadInit ==
    /\ clock = 0
    /\ issued = 0
    /\ saved = {}
    /\ job = NoJob

\* An exception leaves execute; nothing catches it on the way.
Raised(why) == job' = [job EXCEPT !.pc = "raised", !.why = why]

Execute ==
    /\ job.pc \in Ended
    /\ issued < MaxRequests
    /\ clock' = 0
    /\ job' = [NoJob EXCEPT !.pc = "submit"]
    /\ UNCHANGED <<issued, saved>>

\* authenticate or request raises.
SubmitFails ==
    /\ job.pc = "submit"
    /\ Raised("SatCallError")
    /\ UNCHANGED <<clock, issued, saved>>

\* Mutant: a response without an id is saved and polled like another.
SubmitUnchecked ==
    /\ job.pc = "submit"
    /\ \E id \in {None, issued + 1} :
        /\ issued' = IF id = None THEN issued ELSE id
        /\ saved' = saved \cup {id}
        /\ job' = [job EXCEPT !.pc = "poll", !.request = id, !.deadline = clock + Timeout]
    /\ UNCHANGED clock

\* The SAT answers the submission, with an id or without one.
Submit ==
    /\ job.pc = "submit"
    /\ \/ /\ Raised("UnexpectedSatResponseError")
          /\ UNCHANGED <<issued, saved>>
       \/ /\ issued' = issued + 1
          /\ saved' = saved \cup {issued'}
          /\ job' = [job EXCEPT !.pc = "poll", !.request = issued',
                                !.deadline = clock + Timeout]
    /\ UNCHANGED clock

\* Mutant: give up when the next sleep would pass the deadline.
PastDeadlineSoon == clock + Delay(job.attempt) >= job.deadline

PastDeadline == clock >= job.deadline

\* Mutant: each retry begins the wait again, its deadline and its backoff.
RetryAfresh ==
    IF PastDeadline THEN Raised("SatTimeoutError")
    ELSE job' = [job EXCEPT !.pc = "sleep", !.wake = clock + Delay(0), !.attempt = 0,
                            !.deadline = clock + Timeout]

\* The answer is to ask again: time out, or sleep for the backoff's delay.
Retry ==
    IF PastDeadline THEN Raised("SatTimeoutError")
    ELSE IF DelayOverflows(job.attempt) THEN Raised("OverflowError")
    ELSE job' = [job EXCEPT !.pc = "sleep", !.wake = clock + Delay(job.attempt),
                            !.attempt = @ + 1]

\* OK: download what it lists.  Another clean terminal: an outcome without packages.
Resolve(result, action) ==
    job' = [NoJob EXCEPT !.pc = IF action = "ok" THEN "download" ELSE "done",
                         !.request = job.request, !.answer = result]

TerminalFailure(action) ==
    Raised(IF action = "authentication" THEN "AuthenticationError"
           ELSE "SatRequestFailedError")

\* The poll raises: the call does, or its EstadoSolicitud is none of the six.
VerifyFails ==
    /\ job.pc = "poll"
    /\ \/ Raised("SatCallError")
       \/ /\ \E reply \in Replies : ~Translates(reply)
          /\ Raised("KeyError")
    /\ UNCHANGED <<clock, issued, saved>>

Verify ==
    /\ job.pc = "poll"
    /\ \E reply \in Replies :
        /\ Translates(reply)
        /\ LET result == VerificationOf(reply)
               action == ClassifyVerification(result)
           IN  \/ action = "retry" /\ Retry
               \/ action \in CLEAN_TERMINALS /\ Resolve(result, action)
               \/ action \notin CLEAN_TERMINALS \cup {"retry"} /\ TerminalFailure(action)
    /\ UNCHANGED <<clock, issued, saved>>

Wake ==
    /\ job.pc = "sleep"
    /\ clock >= job.wake \/ clock = Horizon
    /\ job' = [job EXCEPT !.pc = "poll"]
    /\ UNCHANGED <<clock, issued, saved>>

\* The packages of the answer, in its order; the outcome is built of all of them.
DownloadPackage ==
    /\ job.pc = "download"
    /\ LET next == Len(job.packages) + 1
       IN  IF next <= Len(job.answer.ids)
           THEN \/ job' = [job EXCEPT !.packages = Append(@, job.answer.ids[next])]
                \/ Raised("SatCallError")
           ELSE job' = [job EXCEPT !.pc = "done"]
    /\ UNCHANGED <<clock, issued, saved>>

\* Time is only looked at by the poll loop.
Tick ==
    /\ job.pc \in {"poll", "sleep"}
    /\ clock < Horizon
    /\ clock' = clock + 1
    /\ UNCHANGED <<issued, saved, job>>

\* One step of an execution that has begun.
DownloadStep ==
    SubmitFails \/ Submit \/ VerifyFails \/ Verify \/ Wake \/ DownloadPackage

-----------------------------------------------------------------------------

\* The type invariant; only ids the SAT gave out are saved, and one that is
\* polled is saved.
DownloadTypeOK ==
    /\ clock \in 0..Horizon
    /\ issued \in 0..MaxRequests
    /\ saved \subseteq 1..issued
    /\ job.pc \in {"idle", "submit", "poll", "sleep", "download", "done", "raised"}
    /\ job.pc \in {"poll", "sleep", "download", "done"} => job.request \in saved
    /\ job.deadline \in Nat /\ job.attempt \in Nat /\ job.wake \in Nat
    /\ job.pc = "download" => job.answer # None

\* Only a request that the SAT calls COMPLETED, under no code that says
\* otherwise, is downloaded from, and its outcome has all of its packages in
\* their order: one that fails fails the outcome.
OutcomeIsResolved ==
    LET Resolved(a) == a.state = "COMPLETED" /\ a.code \notin DOMAIN CodeClass \ {"5000"}
    IN  /\ job.packages # <<>> => Resolved(job.answer)
        /\ job.pc = "done" =>
               job.packages = IF Resolved(job.answer) THEN job.answer.ids ELSE <<>>

\* What the backoff asks for before poll number n, from zero.
BackoffOwed[n \in Nat] ==
    IF n = 0 THEN 0
    ELSE LET grown == InitialDelay * Power[n - 1]
         IN  BackoffOwed[n - 1] + IF grown > MaxDelay THEN MaxDelay ELSE grown

\* However long the polls take, the SAT is never asked for the n-th time
\* earlier than the exponential backoff allows.
PollsAreSpaced ==
    job.pc = "poll" /\ clock < Horizon =>
        clock - (job.deadline - Timeout) >= BackoffOwed[job.attempt]

\* "Poll until classification resolves the request, honoring backoff and the
\* timeout" (execute_download.py:103): while the SAT only asks to be asked
\* again, nothing but the deadline ends the loop.
HonoursTheTimeout ==
    job.pc = "raised" /\ job.why \in {"SatTimeoutError", "OverflowError"} =>
        clock >= job.deadline
=============================================================================
