------------------------------ MODULE AgentLoop -----------------------------
(***************************************************************************)
(* AgentLoop.run under TurnRunner.run, over the turns of one session: the  *)
(* rounds of model call and tool calls, the retries after model errors,    *)
(* the compaction of a growing history, and what an abort or a failure     *)
(* leaves in the messages the next turn begins with.                       *)
(*                                                                         *)
(* A step ends where the code awaits something that takes time, so the     *)
(* abort signal may fire between any two steps.                            *)
(***************************************************************************)
EXTENDS ContextWindow

CONSTANTS
    MaxTurns,          \* input.maxTurns
    MaxSelfCorrect,    \* MAX_JSON_SELF_CORRECT_RETRIES
    MaxInvalid,        \* MAX_CONSECUTIVE_ALL_INVALID_TURNS
    MaxPrompts,        \* bound: turns of the session
    MaxRequests,       \* bound: model requests of the session
    MaxCompactions,    \* bound: compactions of the session
    MaxStrips,         \* bound: errors of the multimodal processor in a turn
    CallSizes          \* bound: how many tools an assistant message may call

ASSUME LimitsAssumption ==
    /\ MaxTurns \in Nat \ {0} /\ MaxSelfCorrect \in Nat /\ MaxInvalid \in Nat \ {0}
    /\ MaxPrompts \in Nat /\ MaxRequests \in Nat /\ MaxCompactions \in Nat
    /\ MaxStrips \in Nat /\ CallSizes \subseteq Nat

VARIABLES
    phase,        \* where the loop is; "idle" between turns
    messages,     \* messages, and AgentSession's copy of them between turns
    base,         \* what TurnRunner handed to the loop
    request,      \* the messages of the model request under way
    aborted,      \* abortSignal.aborted
    round,        \* turnCount
    truncated,    \* hasAttemptedCompact
    raised,       \* hasAttemptedOutputRetry
    corrected,    \* jsonSelfCorrectCount
    invalid,      \* consecutiveAllInvalidTurns
    strips,       \* retries without images in this turn
    asked,        \* model requests of this turn
    result,       \* how the last turn ended
    prompts,      \* turns so far
    requests,     \* model requests so far
    issued,       \* tool calls so far: their ids are 1..issued
    compaction,   \* what the last compaction did
    compactions,  \* compactions so far
    cutShort      \* has a turn been aborted?

retryVars == <<truncated, raised, corrected, invalid, strips, asked>>
boundVars == <<prompts, requests, issued, compactions>>
vars == <<phase, messages, base, request, aborted, round, retryVars, result,
          boundVars, compaction, cutShort>>

Phases == {"idle", "accepted", "top", "prepared", "streaming", "answered", "executing"}
Outcomes == {"none", "success", "error", "aborted", "max_turns"}
Tiers == {"none", "micro", "snip", "summary", "failed"}
Ids == 1..issued
Messages == [role : {"user", "assistant"}, calls : SUBSET Ids, results : SUBSET Ids,
             text : BOOLEAN, tells : SUBSET (1..prompts), spilled : BOOLEAN]

TypeOK ==
    /\ phase \in Phases /\ result \in Outcomes /\ compaction \in Tiers
    /\ messages \in Seq(Messages) /\ base \in Seq(Messages) /\ request \in Seq(Messages)
    /\ aborted \in BOOLEAN /\ truncated \in BOOLEAN /\ raised \in BOOLEAN
    /\ cutShort \in BOOLEAN
    /\ round \in 1..MaxTurns /\ corrected \in 0..MaxSelfCorrect
    /\ invalid \in 0 .. MaxInvalid - 1 /\ strips \in Nat /\ asked \in Nat
    /\ prompts \in Nat /\ requests \in Nat /\ issued \in Nat /\ compactions \in Nat

Init ==
    /\ phase = "idle" /\ result = "none" /\ compaction = "none"
    /\ messages = <<>> /\ base = <<>> /\ request = <<>>
    /\ aborted = FALSE /\ truncated = FALSE /\ raised = FALSE /\ cutShort = FALSE
    /\ round = 1 /\ corrected = 0 /\ invalid = 0 /\ strips = 0 /\ asked = 0
    /\ prompts = 0 /\ requests = 0 /\ issued = 0 /\ compactions = 0

-----------------------------------------------------------------------------
(* A turn begins and ends *)

Fresh ==
    /\ base' = <<>> /\ request' = <<>>
    /\ aborted' = FALSE /\ truncated' = FALSE /\ raised' = FALSE
    /\ round' = 1 /\ corrected' = 0 /\ invalid' = 0 /\ strips' = 0 /\ asked' = 0

\* The turn returns how it ended and the messages ms; what is local to it is gone.
Finish(how, ms) ==
    /\ phase' = "idle"
    /\ result' = how
    /\ messages' = ms
    /\ cutShort' = (cutShort \/ how = "aborted")
    /\ Fresh
    /\ UNCHANGED <<prompts, requests, compaction, compactions>>

\* AgentSession hands its messages and the prompt to the loop.
Submit ==
    /\ phase = "idle"
    /\ prompts < MaxPrompts
    /\ prompts' = prompts + 1
    /\ messages' = Append(messages, Prompt(prompts + 1))
    /\ phase' = "accepted"
    /\ result' = "none"
    /\ UNCHANGED <<base, request, aborted, round, retryVars, requests, issued, compaction, compactions,
                   cutShort>>

\* UserPromptSubmit hooks add a message or none, and the loop starts.
StartLoop ==
    /\ phase = "accepted"
    /\ \E added \in {<<>>, <<Note>>} : messages' = messages \o added
    /\ base' = messages'
    /\ phase' = "top"
    /\ UNCHANGED <<request, aborted, round, retryVars, result, boundVars, compaction,
                   cutShort>>

\* A UserPromptSubmit hook blocks the turn: the prompt stays in the history.
Blocked ==
    /\ phase = "accepted"
    /\ Finish("error", messages)
    /\ UNCHANGED issued

Abort ==
    /\ phase # "idle"
    /\ ~aborted
    /\ aborted' = TRUE
    /\ UNCHANGED <<phase, messages, base, request, round, retryVars, result, boundVars,
                   compaction, cutShort>>

\* Something outside the loop's own error handling throws, a failed write of the
\* transcript for one: TurnRunner keeps none of the turn but its prompt.
Throws ==
    /\ phase \in {"top", "prepared", "streaming", "executing"}
    /\ ~aborted
    /\ Finish("error", base)
    /\ UNCHANGED issued

\* The signal is looked at before and after compaction, after the answer, and before
\* and after the tools run; then the messages stay as they are.  A finished answer
\* without tool calls counts even when the signal fired.
FoundAborted ==
    /\ aborted
    /\ \/ phase \in {"top", "prepared", "streaming", "executing"}
       \/ phase = "answered" /\ Last(messages).calls # {}
    /\ Finish("aborted", messages)
    /\ UNCHANGED issued

-----------------------------------------------------------------------------
(* Compaction and the model request *)

\* DefaultContextRuntime.tryAutoCompact: nothing, tool results shortened, the middle
\* snipped, or a summary as well, which may fail.  The token budget decides.
Compacted(ms, tier) ==
    CASE tier = "none" -> ms
      [] tier = "micro" -> EndsWithUser(ms)
      [] tier = "snip" -> EndsWithUser(Snipped(ms))
      [] tier = "summary" -> Summarized(Snipped(ms), TRUE)
      [] tier = "failed" -> Summarized(Snipped(ms), FALSE)

Compact(tier) ==
    /\ tier # "none" => compactions < MaxCompactions
    /\ messages' = Compacted(messages, tier)
    /\ compaction' = tier
    /\ compactions' = compactions + (IF tier = "none" THEN 0 ELSE 1)

\* The top of the loop: compaction against the agent's own model.
Prepare ==
    /\ phase = "top"
    /\ ~aborted
    /\ phase' = "prepared"
    /\ \E tier \in Tiers : Compact(tier)
    /\ UNCHANGED <<base, request, aborted, round, retryVars, result, prompts, requests,
                   issued, cutShort>>

\* The router has chosen a model; compaction again when its window is smaller.
Request ==
    /\ phase = "prepared"
    /\ ~aborted
    /\ requests < MaxRequests
    /\ \E tier \in Tiers : Compact(tier)
    /\ request' = Projected(messages')
    /\ phase' = "streaming"
    /\ asked' = asked + 1
    /\ requests' = requests + 1
    /\ UNCHANGED <<base, aborted, round, truncated, raised, corrected, invalid, strips,
                   result, prompts, issued, cutShort>>

\* router.execute throws.
RouterFails ==
    /\ phase = "streaming"
    /\ ~aborted
    /\ Finish("error", messages)
    /\ UNCHANGED issued

-----------------------------------------------------------------------------
(* The answer *)

NewCalls(n) == issued + 1 .. issued + n

\* An answer without an error: n tool calls, or text when there are none; text next to
\* calls makes no difference to the cuts.
Answer(n) ==
    /\ phase = "streaming"
    /\ ~aborted
    /\ messages' = Append(messages, Assistant(NewCalls(n), n = 0, {}))
    /\ issued' = issued + n
    /\ phase' = "answered"
    /\ request' = <<>>
    /\ UNCHANGED <<base, aborted, round, retryVars, result, prompts, requests,
                   compaction, compactions, cutShort>>

\* Mutant: the calls of a failed answer stay without results.
ErrorPairOpen(n) == <<Assistant(NewCalls(n), FALSE, {})>>

\* What an answer that ends in an error leaves: its calls answered by placeholders.
ErrorPair(n) ==
    <<Assistant(NewCalls(n), FALSE, {})>>
    \o (IF n = 0 THEN <<>> ELSE <<Results(NewCalls(n), FALSE)>>)

Errors == {"invalid_tool_arguments", "prompt_too_long", "images", "max_output_reached",
           "other"}

\* Mutant: the retry with more output tokens forgets that it is single-shot.
RetryOften(error) ==
    \/ /\ error = "invalid_tool_arguments" /\ corrected < MaxSelfCorrect
       /\ corrected' = corrected + 1
       /\ UNCHANGED <<truncated, raised, strips>>
    \/ /\ error = "prompt_too_long" /\ ~truncated
       /\ truncated' = TRUE
       /\ UNCHANGED <<raised, corrected, strips>>
    \/ /\ error = "images"
       /\ strips < MaxStrips
       /\ strips' = strips + 1
       /\ UNCHANGED <<truncated, raised, corrected>>
    \/ /\ error = "max_output_reached"
       /\ raised' = TRUE
       /\ UNCHANGED <<truncated, corrected, strips>>

\* Which errors are retried, and the guard each retry uses up.
Retry(error) ==
    \/ /\ error = "invalid_tool_arguments" /\ corrected < MaxSelfCorrect
       /\ corrected' = corrected + 1
       /\ UNCHANGED <<truncated, raised, strips>>
    \/ /\ error = "prompt_too_long" /\ ~truncated
       /\ truncated' = TRUE
       /\ UNCHANGED <<raised, corrected, strips>>
    \/ /\ error = "images"
       /\ strips < MaxStrips
       /\ strips' = strips + 1
       /\ UNCHANGED <<truncated, raised, corrected>>
    \/ /\ error = "max_output_reached" /\ ~raised
       /\ raised' = TRUE
       /\ UNCHANGED <<truncated, corrected, strips>>

\* The history a retry goes on with: told to mind its JSON, or as it was before the
\* failed answer, cut when it was too long.
Restored(error, ms) ==
    CASE error = "invalid_tool_arguments" -> Append(ms, Note)
      [] error = "prompt_too_long" -> Truncated(WithoutErrorPair(ms))
      [] OTHER -> WithoutErrorPair(ms)

\* jsonSelfCorrect is on.
AnswerRetried(error, n) ==
    /\ phase = "streaming"
    /\ ~aborted
    /\ Retry(error)
    /\ messages' = Restored(error, messages \o ErrorPair(n))
    /\ issued' = issued + n
    /\ phase' = "top"
    /\ request' = <<>>
    /\ UNCHANGED <<base, aborted, round, invalid, asked, result, prompts,
                   requests, compaction, compactions, cutShort>>

\* An error no retry is left for.
Exhausted(error) ==
    \/ error = "invalid_tool_arguments" /\ corrected >= MaxSelfCorrect
    \/ error = "prompt_too_long" /\ truncated
    \/ error = "max_output_reached" /\ raised
    \/ error = "other"

AnswerFails(error, n) ==
    /\ phase = "streaming"
    /\ ~aborted
    /\ Exhausted(error)
    /\ Finish("error", messages \o ErrorPair(n))
    /\ issued' = issued + n

\* No tool was called: Stop hooks may add a message, or block, which makes it an error.
Stop ==
    /\ phase = "answered"
    /\ Last(messages).calls = {}
    /\ \E added \in {<<>>, <<Note>>}, how \in {"success", "error"} :
           Finish(how, messages \o added)
    /\ UNCHANGED issued

-----------------------------------------------------------------------------
(* The tools *)

Execute ==
    /\ phase = "answered"
    /\ ~aborted
    /\ Last(messages).calls # {}
    /\ phase' = "executing"
    /\ UNCHANGED <<messages, base, request, aborted, round, retryVars, result, boundVars,
                   compaction, cutShort>>

\* ensureToolResultPairing, projectToolResults and applyToolResults: every call gets a
\* result, some may move to a file, and an image or a document follows on its own.
WithResults(spilled, extra) ==
    messages \o <<Results(Last(messages).calls, spilled)>> \o extra

\* Mutant: the number of rounds is not looked at.
NextRoundEndless(spilled, extra) ==
    /\ phase = "executing"
    /\ ~aborted
    /\ \/ invalid' = 0
       \/ invalid + 1 < MaxInvalid /\ invalid' = invalid + 1
    /\ round' = round + 1
    /\ messages' = WithResults(spilled, extra)
    /\ phase' = "top"
    /\ UNCHANGED <<base, request, aborted, truncated, raised, corrected, strips, asked,
                   result, boundVars, compaction, cutShort>>

\* The results of the round allow another one: not all of them invalid input, or not
\* yet for the MaxInvalid-th time in a row, and rounds are left.
NextRound(spilled, extra) ==
    /\ phase = "executing"
    /\ ~aborted
    /\ \/ invalid' = 0
       \/ invalid + 1 < MaxInvalid /\ invalid' = invalid + 1
    /\ round + 1 <= MaxTurns
    /\ round' = round + 1
    /\ messages' = WithResults(spilled, extra)
    /\ phase' = "top"
    /\ UNCHANGED <<base, request, aborted, truncated, raised, corrected, strips, asked,
                   result, boundVars, compaction, cutShort>>

\* A hook blocks, the input was invalid once too often, the structured output is there,
\* or no round is left.
LastRound(spilled, extra) ==
    /\ phase = "executing"
    /\ ~aborted
    /\ \E how \in {"error", "success", "max_turns"} :
           /\ how = "max_turns" => round + 1 > MaxTurns
           /\ Finish(how, WithResults(spilled, extra))
    /\ UNCHANGED issued

-----------------------------------------------------------------------------
Next ==
    \/ Submit \/ StartLoop \/ Blocked \/ Abort \/ Throws \/ FoundAborted
    \/ Prepare \/ Request \/ RouterFails
    \/ \E n \in CallSizes :
          \/ Answer(n)
          \/ \E error \in Errors : AnswerRetried(error, n) \/ AnswerFails(error, n)
    \/ Stop \/ Execute
    \/ \E spilled \in BOOLEAN, extra \in {<<>>, <<Note>>} :
          NextRound(spilled, extra) \/ LastRound(spilled, extra)

Spec == Init /\ [][Next]_vars

-----------------------------------------------------------------------------
(* Safety *)

\* Whatever aborts, retries and compactions have done to the history, a request
\* answers every tool call before the assistant speaks again, and only calls that are
\* there (MessageProjector.project).
RequestsArePaired == Paired(request)

\* As long as no turn was aborted, the answers follow their calls immediately in every
\* request, which providers insist on.
AnsweredAtOnceUnlessAborted == cutShort \/ AnsweredAtOnce(request)

\* A request is never empty: aborts, failed answers, snips and summaries always leave
\* something that can be sent.  Only the cut after an overflow may leave answers alone,
\* which the projection then drops (AgentLoop.run, MessageProjector.project).
OnlyTruncationEmptiesRequests ==
    phase = "streaming" => truncated \/ request # <<>>

\* A finished turn leaves a tool call without an answer in the session's messages only
\* after an abort: an answer that failed, a retry or a cut never does.
OnlyAbortsLeaveCallsOpen == phase = "idle" => cutShort \/ OpenCalls(messages) = {}

\* What the model is sent, and what turns leave for the next one, is a conversation that a
\* provider accepts, with the two exceptions named: aborts and the cut after an overflow.
HistoryIsWellFormed ==
    /\ RequestsArePaired /\ AnsweredAtOnceUnlessAborted
    /\ OnlyTruncationEmptiesRequests /\ OnlyAbortsLeaveCallsOpen

\* Every model request of a turn is a round, a correction, or one of the retries that
\* are single-shot, so a turn can not go on asking; only the retries without images
\* are not limited by the code (AgentLoop.run's guards).
RequestsAreAccounted ==
    asked <= round + corrected + (IF truncated THEN 1 ELSE 0) + (IF raised THEN 1 ELSE 0)
             + strips

\* A summary that succeeds tells about every prompt of the messages it replaces and
\* the messages after it are all kept (CompactionEngine.run).
SummaryTellsAll ==
    [][compactions' > compactions /\ compaction' = "summary"
           => Told(messages') = Told(Snipped(messages))]_vars

\* A compaction with a summary leaves no call without its answer and no answer without
\* its call (CompactionEngine.run), whatever a snip before it left.
SummaryLeavesNothingDangling ==
    [][compactions' > compactions /\ compaction' \in {"summary", "failed"}
           => Dangling(messages') = {}]_vars

\* A summary stands for all that it replaces.
SummaryIsFaithful == SummaryTellsAll /\ SummaryLeavesNothingDangling
=============================================================================
