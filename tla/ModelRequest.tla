----------------------------- MODULE ModelRequest ----------------------------
(***************************************************************************)
(* One model call of AgentLoop: RouterRuntime.execute goes through the     *)
(* providers of its plan, streamAttempt watches the stream of each, and    *)
(* streamModel under it resends a request whose connection broke.  The     *)
(* caller reads events until the first error and no further.               *)
(*                                                                         *)
(* An answer is the text pieces 1..TextPieces and then the tool call       *)
(* pieces up to AnswerPieces; a provider may end it early.  Events that    *)
(* are no content (request_started, message_start, usage, message_end)     *)
(* reach the caller too, and are left out of what it reads.                *)
(***************************************************************************)
EXTENDS Naturals, Sequences, FiniteSets

CONSTANTS
    Attempts,       \* providers: the one decided on and those of planFallback
    ZeroUsageMax,   \* zeroUsageRetry.maxAttempts; 1 when it is disabled
    TransientMax,   \* transientRetry.maxAttempts; 0 when it is disabled
    TextPieces,     \* bound: text pieces of an answer
    AnswerPieces,   \* bound: all pieces of an answer
    FewPieces       \* a checkpoint with more text pieces than this is substantial

ASSUME CallAssumption ==
    /\ Attempts \in Nat \ {0} /\ ZeroUsageMax \in Nat \ {0} /\ TransientMax \in Nat
    /\ TextPieces \in Nat /\ AnswerPieces \in Nat /\ FewPieces \in Nat
    /\ TextPieces <= AnswerPieces

MaxStreamRetries == 2

VARIABLES
    phase,      \* where the call is
    aborted,    \* abortSignal.aborted
    attempt,    \* attemptIndex + 1
    zero,       \* zeroUsageAttempt
    transient,  \* transientRetryCount
    surfaced,   \* the pieces the caller has read
    accounted,  \* has stats.observe been called?
    seen,       \* hasYieldedContent
    error,      \* providerError: "none", "retryable" or "final"
    told,       \* an error event came, in pending or already read by the caller
    finished,   \* a message_end came
    billed,     \* the usage reported last is not zero
    tries,      \* streamModel's own attempt
    at,         \* the last piece of the connection under way
    given,      \* pieces the request carries as the assistant's partial text
    partial,    \* text pieces in the checkpoint
    over,       \* the connection has delivered its last event
    requests,   \* requests sent in this call
    streams     \* calls of ModelRuntime.stream in this call

routerVars == <<attempt, zero, transient>>
observed == <<seen, error, told, finished, billed>>
streamVars == <<tries, at, given, partial, over>>
counters == <<requests, streams>>
vars == <<phase, aborted, routerVars, surfaced, accounted, observed, streamVars, counters>>

Awaiting == {"routing", "asking", "reading", "pausing", "backoff"}
Settled == {"answered", "failed", "stopped"}
Errors == {"retryable", "final"}

TypeOK ==
    /\ phase \in Awaiting \cup Settled \cup {"decided", "noticed"}
    /\ aborted \in BOOLEAN /\ accounted \in BOOLEAN
    /\ attempt \in 1..Attempts /\ zero \in Nat /\ transient \in 0..TransientMax
    /\ surfaced \in Seq(0..AnswerPieces)
    /\ seen \in BOOLEAN /\ told \in BOOLEAN /\ finished \in BOOLEAN /\ billed \in BOOLEAN
    /\ error \in Errors \cup {"none"}
    /\ tries \in 0..MaxStreamRetries /\ over \in BOOLEAN
    /\ at \in 0..AnswerPieces /\ given \in 0..AnswerPieces /\ partial \in Nat
    /\ requests \in Nat /\ streams \in Nat

Init ==
    /\ phase = "routing" /\ aborted = FALSE /\ accounted = FALSE
    /\ attempt = 1 /\ zero = 0 /\ transient = 0 /\ surfaced = <<>>
    /\ seen = FALSE /\ error = "none" /\ told = FALSE /\ finished = FALSE /\ billed = FALSE
    /\ tries = 0 /\ at = 0 /\ given = 0 /\ partial = 0 /\ over = FALSE
    /\ requests = 0 /\ streams = 0

Abort ==
    /\ phase \in Awaiting
    /\ ~aborted
    /\ aborted' = TRUE
    /\ UNCHANGED <<phase, routerVars, surfaced, accounted, observed, streamVars, counters>>

\* What awaits is rejected, or finds the signal when it resumes.  streamModel does not
\* retry an abort, streamAttempt throws it on, and so does execute.
Stop ==
    /\ phase \in Awaiting
    /\ aborted
    /\ phase' = "stopped"
    /\ UNCHANGED <<aborted, routerVars, surfaced, accounted, observed, streamVars, counters>>

-----------------------------------------------------------------------------
(* streamModel and its connection to the provider *)

\* A pass of execute's inner loop: streamAttempt and streamModel start anew and the
\* first request goes out.
Stream ==
    /\ phase' = "asking"
    /\ seen' = FALSE /\ error' = "none" /\ told' = FALSE /\ finished' = FALSE /\ billed' = FALSE
    /\ tries' = 0 /\ at' = 0 /\ given' = 0 /\ partial' = 0 /\ over' = FALSE
    /\ requests' = requests + 1
    /\ streams' = streams + 1

Responds ==
    /\ phase = "asking" /\ ~aborted
    /\ phase' = "reading"
    /\ UNCHANGED <<aborted, routerVars, surfaced, accounted, observed, streamVars, counters>>

\* sendProviderRequest turns a failure of the transport into a ModelProviderError, and
\* isRetryableStreamError lets none of these through.
Unreachable ==
    /\ phase = "asking" /\ ~aborted
    /\ \E e \in Errors : error' = e
    /\ phase' = "decided"
    /\ UNCHANGED <<aborted, routerVars, surfaced, accounted, seen, told, finished, billed,
                   streamVars, counters>>

\* An error event: kept in pending, unless content went before it; then the caller reads
\* it and leaves, and nothing of execute runs any more.
Tell(e, next) ==
    /\ error' = e
    /\ told' = TRUE
    /\ over' = TRUE
    /\ phase' = IF seen THEN "failed" ELSE next
    /\ UNCHANGED <<aborted, routerVars, surfaced, accounted, seen, finished, billed,
                   tries, at, given, partial, counters>>

Refuses ==
    /\ phase = "asking" /\ ~aborted
    /\ \E e \in Errors : Tell(e, "decided")

ErrorEvent ==
    /\ phase = "reading" /\ ~aborted /\ ~over
    /\ \E e \in Errors : Tell(e, "reading")

\* A content event.  The first one flushes pending, an error event in it included.
Piece ==
    /\ phase = "reading" /\ ~aborted /\ ~over
    /\ at < AnswerPieces
    /\ at' = at + 1
    /\ partial' = IF at < TextPieces THEN partial + 1 ELSE partial
    /\ IF told
       THEN phase' = "failed" /\ UNCHANGED <<surfaced, seen>>
       ELSE surfaced' = Append(surfaced, at + 1) /\ seen' = TRUE /\ UNCHANGED phase
    /\ UNCHANGED <<aborted, routerVars, accounted, error, told, finished, billed, tries, given,
                   over, counters>>

\* message_end, with the usage the provider reports, if it reports any.
MessageEnd ==
    /\ phase = "reading" /\ ~aborted /\ ~over
    /\ over' = TRUE
    /\ finished' = TRUE
    /\ billed' \in BOOLEAN
    /\ UNCHANGED <<phase, aborted, routerVars, surfaced, accounted, seen, error, told, tries, at,
                   given, partial, counters>>

\* The provider closes the connection, with or without a message_end.
StreamEnds ==
    /\ phase = "reading" /\ ~aborted
    /\ phase' = "decided"
    /\ UNCHANGED <<aborted, routerVars, surfaced, accounted, observed, streamVars, counters>>

\* hasSubstantialContent: enough text to be continued rather than asked for again.
Substantial == partial > FewPieces

\* buildContinuationRequest hands over the text, and no tool calls.
Carried == IF at <= TextPieces THEN at ELSE TextPieces

\* The connection breaks and streamModel has a retry left.
StreamBreaks ==
    /\ phase = "reading" /\ ~aborted
    /\ tries < MaxStreamRetries
    /\ tries' = tries + 1
    /\ given' = IF Substantial THEN Carried ELSE given
    /\ partial' = IF Substantial THEN 0 ELSE partial
    /\ phase' = "pausing"
    /\ UNCHANGED <<aborted, routerVars, surfaced, accounted, observed, at, over, counters>>

\* It breaks for good, or an event cannot be parsed.
StreamFails ==
    /\ phase = "reading" /\ ~aborted
    /\ \E e \in Errors : error' = e
    /\ phase' = "decided"
    /\ UNCHANGED <<aborted, routerVars, surfaced, accounted, seen, told, finished, billed,
                   streamVars, counters>>

\* Mutant: the delay does not listen to the signal.
ResendDeaf ==
    /\ phase = "pausing"
    /\ phase' = "asking"
    /\ at' = given
    /\ over' = FALSE
    /\ requests' = requests + 1
    /\ UNCHANGED <<aborted, routerVars, surfaced, accounted, observed, tries, given, partial,
                   streams>>

\* After its delay streamModel sends the request, or the continuation, again.
Resend ==
    /\ phase = "pausing" /\ ~aborted
    /\ phase' = "asking"
    /\ at' = given
    /\ over' = FALSE
    /\ requests' = requests + 1
    /\ UNCHANGED <<aborted, routerVars, surfaced, accounted, observed, tries, given, partial,
                   streams>>

-----------------------------------------------------------------------------
(* RouterRuntime.execute *)

Begin ==
    /\ phase = "routing" /\ ~aborted
    /\ zero' = 1
    /\ Stream
    /\ UNCHANGED <<aborted, attempt, transient, surfaced, accounted>>

\* A sub-agent beyond its token budget is told so instead of being answered.
OverBudget ==
    /\ phase = "routing" /\ ~aborted
    /\ phase' = "noticed"
    /\ surfaced' = Append(surfaced, 0)
    /\ UNCHANGED <<aborted, routerVars, accounted, observed, streamVars, counters>>

EndNotice ==
    /\ phase = "noticed"
    /\ phase' = "answered"
    /\ UNCHANGED <<aborted, routerVars, surfaced, accounted, observed, streamVars, counters>>

\* Mutant: hasYieldedContent is not asked.
EligibleAnyway == error = "retryable"

\* isFallbackEligible, while the caller has not seen any of the answer.
Eligible == error = "retryable" /\ ~seen

FallBack ==
    /\ phase = "decided"
    /\ Eligible
    /\ attempt < Attempts
    /\ attempt' = attempt + 1
    /\ zero' = 1
    /\ transient' = 0
    /\ Stream
    /\ UNCHANGED <<aborted, surfaced, accounted>>

\* The last provider is asked again after a delay.
BackOff ==
    /\ phase = "decided"
    /\ Eligible
    /\ attempt = Attempts
    /\ transient < TransientMax
    /\ transient' = transient + 1
    /\ phase' = "backoff"
    /\ UNCHANGED <<aborted, attempt, zero, surfaced, accounted, observed, streamVars, counters>>

\* shouldRetryZeroUsage: the stream ended well, without content and without usage.
EmptyAnswer == error = "none" /\ ~seen /\ finished /\ ~billed

\* Mutant: one attempt too many.
RetryEmptyInclusive ==
    /\ phase = "decided"
    /\ EmptyAnswer
    /\ zero <= ZeroUsageMax
    /\ phase' = "backoff"
    /\ UNCHANGED <<aborted, routerVars, surfaced, accounted, observed, streamVars, counters>>

RetryEmpty ==
    /\ phase = "decided"
    /\ EmptyAnswer
    /\ zero < ZeroUsageMax
    /\ phase' = "backoff"
    /\ UNCHANGED <<aborted, routerVars, surfaced, accounted, observed, streamVars, counters>>

Again ==
    /\ phase = "backoff" /\ ~aborted
    /\ zero' = zero + 1
    /\ Stream
    /\ UNCHANGED <<aborted, attempt, transient, surfaced, accounted>>

\* Mutant: the call is accounted before pending is flushed.
SurrenderAccounted ==
    /\ phase = "decided"
    /\ error # "none"
    /\ ~(Eligible /\ (attempt < Attempts \/ transient < TransientMax))
    /\ accounted' = TRUE
    /\ phase' = "failed"
    /\ UNCHANGED <<aborted, routerVars, surfaced, observed, streamVars, counters>>

\* No retry is left.  If pending holds an error event the caller reads it and leaves;
\* otherwise the failed call is accounted before its error is surfaced.
Surrender ==
    /\ phase = "decided"
    /\ error # "none"
    /\ ~(Eligible /\ (attempt < Attempts \/ transient < TransientMax))
    /\ accounted' = ~told
    /\ phase' = "failed"
    /\ UNCHANGED <<aborted, routerVars, surfaced, observed, streamVars, counters>>

\* Mutant: a stream without a message_end is no answer.
DeliverFinished ==
    /\ phase = "decided"
    /\ error = "none"
    /\ finished
    /\ ~(EmptyAnswer /\ zero < ZeroUsageMax)
    /\ accounted' = TRUE
    /\ phase' = "answered"
    /\ UNCHANGED <<aborted, routerVars, surfaced, observed, streamVars, counters>>

Deliver ==
    /\ phase = "decided"
    /\ error = "none"
    /\ ~(EmptyAnswer /\ zero < ZeroUsageMax)
    /\ accounted' = TRUE
    /\ phase' = "answered"
    /\ UNCHANGED <<aborted, routerVars, surfaced, observed, streamVars, counters>>

-----------------------------------------------------------------------------
Provider == Responds \/ Unreachable \/ Refuses \/ ErrorEvent \/ Piece \/ MessageEnd
            \/ StreamEnds \/ StreamBreaks \/ StreamFails
Router == Resend \/ Begin \/ OverBudget \/ EndNotice \/ FallBack \/ BackOff \/ RetryEmpty
          \/ Again \/ Surrender \/ Deliver
Next == Abort \/ Stop \/ Provider \/ Router

Spec == Init /\ [][Next]_vars

\* Every await settles: a provider answers, fails or closes its connection.
FairSpec == Spec /\ WF_vars(Stop \/ Provider \/ Router)

-----------------------------------------------------------------------------
(* Properties *)

\* What the caller knows of the call, as ModelCall has it: the router itself speaks when
\* it refuses a sub-agent.
Speaker == IF surfaced = <<0>> THEN Attempts + 1
           ELSE IF seen THEN attempt ELSE 0
Call == INSTANCE ModelCall WITH
            Speakers <- 1 .. Attempts + 1, Pieces <- 0..AnswerPieces, Nobody <- 0,
            speaker <- Speaker, said <- surfaced,
            outcome <- IF phase \in Settled THEN phase ELSE "open"

\* However execute falls back and retries, its caller reads one answer from one provider:
\* "we lock in the current attempt".
ImplementsModelCall == Call!Spec

\* A stop is final: once the signal has fired no request leaves, and nothing more of an
\* answer arrives, whichever delay or read was under way.
AbortIsFinal == [][aborted => requests' = requests /\ surfaced' = surfaced]_vars

\* The retries of the router and of streamModel multiply, and still end.
RequestsAreBounded ==
    requests <= (MaxStreamRetries + 1) * (Attempts * ZeroUsageMax + TransientMax)

\* Token statistics count each call of a provider that settles, except those whose failure
\* came as an error event.
AccountedUnlessTold ==
    phase \in {"answered", "failed"} => (accounted <=> ~told /\ surfaced # <<0>>)

\* Every call settles, whatever the provider does.
EveryCallSettles == <>(phase \in Settled)

=============================================================================
