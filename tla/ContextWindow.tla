---------------------------- MODULE ContextWindow ---------------------------
(***************************************************************************)
(* The algorithms that cut and repair a conversation before a model sees   *)
(* it: MessageProjector, SnipEngine, CompactionEngine, and the cuts that   *)
(* AgentLoop makes after a model error.                                    *)
(*                                                                         *)
(* A message is reduced to what these algorithms look at: its role, the    *)
(* tool calls it makes, the tool calls it answers, whether it holds any    *)
(* other block, and whether one of its answers was moved to a file         *)
(* (tool_result_reference).  `tells' is the set of prompts it tells about, *)
(* itself or as a summary.                                                 *)
(***************************************************************************)
EXTENDS Naturals, FiniteSets, Sequences, SequencesExt

CONSTANTS
    HeadTurns,     \* SnipEngine.keepHeadTurns
    TailTurns,     \* SnipEngine.keepTailTurns
    KeepPercent,   \* DEFAULT_KEEP_TAIL_RATIO of CompactionEngine, in percent
    TruncatePercent \* the keepRatio of the first overflow recovery, in percent

ASSUME CutAssumption ==
    /\ HeadTurns \in Nat /\ TailTurns \in Nat \ {0}
    /\ KeepPercent \in 0..100 /\ TruncatePercent \in 5..100

User(results, text, tells) ==
    [role |-> "user", calls |-> {}, results |-> results, text |-> text,
     tells |-> tells, spilled |-> FALSE]
Note == User({}, TRUE, {})
Prompt(n) == User({}, TRUE, {n})
Results(ids, spilled) == [User(ids, FALSE, {}) EXCEPT !.spilled = spilled]
Assistant(ids, text, tells) ==
    [role |-> "assistant", calls |-> ids, results |-> {}, text |-> text,
     tells |-> tells, spilled |-> FALSE]

Empty(m) == m.calls = {} /\ m.results = {} /\ ~m.text

CallsOf(ms) == UNION {ms[i].calls : i \in DOMAIN ms}
ResultsOf(ms) == UNION {ms[i].results : i \in DOMAIN ms}
Told(ms) == UNION {ms[i].tells : i \in DOMAIN ms}

\* The last percent of ms, one message at least.
Kept(ms, percent) ==
    LET n == (Len(ms) * percent) \div 100
    IN  IF ms = <<>> THEN ms
        ELSE SubSeq(ms, Len(ms) - (IF n = 0 THEN 1 ELSE n) + 1, Len(ms))

-----------------------------------------------------------------------------
(* MessageProjector.repairToolResultPairing *)

\* The walk so far: what it has put out, and the calls still without an answer.
Flushed(walk) ==
    IF walk.pending = {} THEN walk.out
    ELSE Append(walk.out, Results(walk.pending, FALSE))

\* An assistant message closes the calls of the one before it with placeholders; a
\* user message keeps the answers to open calls, and is dropped when nothing is left.
Visit(walk, m) ==
    IF m.role = "assistant"
    THEN [out |-> Append(Flushed(walk), m), pending |-> m.calls]
    ELSE LET kept == [m EXCEPT !.results = @ \cap walk.pending]
         IN  IF m.results \subseteq walk.pending \/ ~Empty(kept)
             THEN [out |-> Append(walk.out, kept), pending |-> walk.pending \ m.results]
             ELSE walk

\* The walk after each number of messages.
Walk(ms) ==
    LET walk[i \in 0..Len(ms)] ==
            IF i = 0 THEN [out |-> <<>>, pending |-> {}] ELSE Visit(walk[i - 1], ms[i])
    IN  walk

Projected(ms) == Flushed(Walk(ms)[Len(ms)])

-----------------------------------------------------------------------------
(* toolPairIntegrity.ts *)

\* The n-th of a set of indices.
Nth(S, n) == CHOOSE i \in S : Cardinality({j \in S : j <= i}) = n

\* SelectSeq, in a form that proofs can take apart.
NonEmpty(ms) ==
    LET kept == {i \in DOMAIN ms : ~Empty(ms[i])}
    IN  [n \in 1..Cardinality(kept) |-> ms[Nth(kept, n)]]

StripCalls(ms, paired) ==
    NonEmpty([i \in DOMAIN ms |-> [ms[i] EXCEPT !.calls = @ \cap paired]])

StripResults(ms, paired) ==
    NonEmpty([i \in DOMAIN ms |-> [ms[i] EXCEPT !.results = @ \cap paired]])

EndsWithUser(ms) ==
    IF ms # <<>> /\ Last(ms).role = "assistant" THEN Append(ms, Note) ELSE ms

-----------------------------------------------------------------------------
(* SnipEngine: the first and the last turns, the middle replaced by a note *)

\* splitIntoTurns: a message that is not all tool_result blocks begins a turn; an
\* answer moved to a file is not a tool_result block there.
TurnStarts(ms) ==
    {i \in DOMAIN ms : \/ i = 1
                       \/ /\ ms[i].role = "user"
                          /\ ms[i].results = {} \/ ms[i].text \/ ms[i].spilled}

TurnStart(ms, n) == Nth(TurnStarts(ms), n)

Snipped(ms) ==
    LET turns == Cardinality(TurnStarts(ms))
        head == SubSeq(ms, 1, TurnStart(ms, HeadTurns + 1) - 1)
        tail == SubSeq(ms, TurnStart(ms, turns - TailTurns + 1), Len(ms))
    IN  IF turns <= HeadTurns + TailTurns THEN ms
        ELSE EndsWithUser(StripCalls(head, ResultsOf(tail))
                          \o <<Note>>
                          \o StripResults(tail, CallsOf(head) \cup CallsOf(tail)))

-----------------------------------------------------------------------------
(* CompactionEngine: a summary of the beginning, then the end as it was *)

\* Mutant: the first message of the kept end is lost between the two slices.
SummarizedWithGap(ms, succeeds) ==
    LET kept == Kept(ms, KeepPercent)
        cut == SubSeq(ms, 1, Len(ms) - Len(kept) - 1)
        summary == IF succeeds /\ cut # <<>>
                   THEN <<Assistant({}, TRUE, Told(cut))>> ELSE <<>>
    IN  EndsWithUser(<<Note>> \o summary \o kept)

\* run and buildPostCompactMessages: boundary, summary unless the model call for it
\* failed, and the kept messages without calls or answers that lost the other half.
Summarized(ms, succeeds) ==
    LET kept == Kept(ms, KeepPercent)
        cut == SubSeq(ms, 1, Len(ms) - Len(kept))
        summary == IF succeeds /\ cut # <<>>
                   THEN <<Assistant({}, TRUE, Told(cut))>> ELSE <<>>
    IN  EndsWithUser(<<Note>> \o summary
                     \o StripResults(StripCalls(kept, ResultsOf(kept)), CallsOf(kept)))

-----------------------------------------------------------------------------
(* AgentLoop after a model error *)

Truncated(ms) == Kept(ms, TruncatePercent)

\* stripTrailingErrorPair: the answers, then the assistant message they belong to.
WithoutErrorPair(ms) ==
    LET answered == ms # <<>> /\ Last(ms).role = "user" /\ ~Last(ms).text
        rest == IF answered THEN Front(ms) ELSE ms
    IN  IF rest # <<>> /\ Last(rest).role = "assistant" THEN Front(rest) ELSE rest

-----------------------------------------------------------------------------
(* What a history or a request should look like *)

\* Calls answered later than their message and before the assistant speaks again.
NextSpeech(ms, i) == {j \in i + 1 .. Len(ms) : ms[j].role = "assistant"}
Answers(ms, i) ==
    UNION {ms[j].results : j \in {j \in i + 1 .. Len(ms) :
                                     \A s \in NextSpeech(ms, i) : j < s}}

\* Every call is answered and every answer has its call, before the next speech.
Paired(ms) ==
    /\ \A i \in DOMAIN ms : ms[i].calls \subseteq Answers(ms, i)
    /\ \A j \in DOMAIN ms : \A r \in ms[j].results :
           \E i \in 1 .. j - 1 : /\ r \in ms[i].calls
                                 /\ \A s \in NextSpeech(ms, i) : j < s

\* The answers stand in the message right after the calls.
AnsweredAtOnce(ms) ==
    \A i \in DOMAIN ms :
        ms[i].calls # {} => /\ i < Len(ms)
                            /\ ms[i].calls \subseteq ms[i + 1].results

\* A call without an answer anywhere, or an answer without its call.
OpenCalls(ms) == CallsOf(ms) \ ResultsOf(ms)
Dangling(ms) == OpenCalls(ms) \cup (ResultsOf(ms) \ CallsOf(ms))
=============================================================================
