---------------------------- MODULE TranscriptLog ---------------------------
(***************************************************************************)
(* The transcript of one session: JsonlTranscriptWriter appends a line for *)
(* every accepted prompt, durable message and turn result; TurnRunner and  *)
(* AgentSession decide what the session remembers when an append fails;    *)
(* readTranscript and replayTranscriptEntries rebuild the session from the *)
(* file after an eviction or a crash.                                      *)
(*                                                                         *)
(* An entry is named by its turn and its number within the turn, 0 for the *)
(* prompt.  What is never recorded (messages of hooks, notes, summaries)   *)
(* is left out, and so are the references to subagents.  Turns are serial  *)
(* and a running session is not replaced (SessionTurns).                   *)
(*                                                                         *)
(* The file is the set of entries that can be read from it.  An append     *)
(* that fails or is cut off by a crash may leave a line without its line   *)
(* end, whole or not, and the next append continues that line.             *)
(***************************************************************************)
EXTENDS Naturals, FiniteSets

CONSTANTS
    MaxLines,     \* DEFAULT_MAX_TRANSCRIPT_READ_BYTES, in lines
    MaxTurns,     \* bound: turns of the session
    MaxMessages,  \* bound: durable messages of a turn
    MaxFaults     \* bound: failed appends and crashes

ASSUME BoundsAssumption ==
    MaxLines \in Nat /\ MaxTurns \in Nat /\ MaxMessages \in Nat /\ MaxFaults \in Nat

VARIABLES
    log,        \* the entries that can be read from the file
    torn,       \* does the file end without a line end?
    tail,       \* the entry on that last line, if it is whole
    size,       \* lines of the file
    sequence,   \* the writer's sequence
    broken,     \* has an append of this writer been rejected?
    pending,    \* the entry being appended
    phase,      \* where the session is; "closed" without a session object
    memory,     \* AgentSession.state.messages
    messages,   \* the loop's messages
    turn,       \* turns so far; the current one's number
    step,       \* entries of this turn so far
    faults,     \* failed appends and crashes so far
    produced,   \* every durable message so far
    spoilt      \* turns that lost an entry on a continued line

fileVars   == <<log, torn, tail, size, spoilt>>
writerVars == <<sequence, broken>>
turnVars   == <<turn, step, produced>>
vars == <<fileVars, writerVars, pending, phase, memory, messages, turnVars, faults>>

Types == {"accepted_input", "durable_message", "turn_result"}
Name == Nat \X Nat
Entry == [turn : Nat, step : Nat, seq : Nat \ {0}, type : Types]
Appending == {"accepting", "saving", "finishing", "failing"}

TypeOK ==
    /\ log \subseteq Entry /\ tail \subseteq log
    /\ torn \in BOOLEAN /\ broken \in BOOLEAN
    /\ size \in Nat /\ sequence \in Nat
    /\ phase \in Appending \cup {"closed", "idle", "working"}
    /\ pending \subseteq Entry
    /\ memory \subseteq Name /\ messages \subseteq Name /\ produced \subseteq Name
    /\ turn \in Nat /\ step \in Nat /\ faults \in Nat
    /\ spoilt \subseteq Nat

Init ==
    /\ log = {} /\ torn = FALSE /\ tail = {} /\ size = 0 /\ spoilt = {}
    /\ sequence = 0 /\ broken = FALSE /\ pending = {}
    /\ phase = "closed"
    /\ memory = {} /\ messages = {}
    /\ turn = 0 /\ step = 0 /\ produced = {} /\ faults = 0

-----------------------------------------------------------------------------
(* Reading: readTranscript, replayTranscriptEntries, resumeAgentSession *)

NameOf(e) == <<e.turn, e.step>>
Names(es) == {NameOf(e) : e \in es}

\* A file that is too large is not read at all.
TooLarge == size > MaxLines
Readable == IF TooLarge THEN {} ELSE log

Completed(es) == {e.turn : e \in {r \in es : r.type = "turn_result"}}

\* Every prompt, and the durable messages of the turns that have a result.
Replayed(es) ==
    {e \in es : \/ e.type = "accepted_input"
                \/ e.type = "durable_message" /\ e.turn \in Completed(es)}

\* The sequence a resumed writer continues from.
Restored ==
    IF Readable = {} THEN 0
    ELSE CHOOSE n \in {e.seq : e \in Readable} : \A e \in Readable : e.seq <= n

\* createSession, at the first turn after a start, a crash or an eviction.
Open ==
    /\ phase = "closed"
    /\ sequence' = Restored
    /\ broken' = FALSE
    /\ memory' = Names(Replayed(Readable))
    /\ phase' = "idle"
    /\ UNCHANGED <<fileVars, pending, messages, turnVars, faults>>

\* Mutant: the rebuilt writer starts to count anew.
RebuildFresh ==
    /\ phase = "idle"
    /\ broken' = FALSE
    /\ sequence' = 0
    /\ UNCHANGED <<fileVars, pending, phase, memory, messages, turnVars, faults>>

\* recreateSession: a new writer goes on with the counters of the old one, and the
\* messages are handed over in memory.
Rebuild ==
    /\ phase = "idle"
    /\ broken' = FALSE
    /\ UNCHANGED <<fileVars, sequence, pending, phase, memory, messages, turnVars, faults>>

\* The idle sweep and close.
Evict ==
    /\ phase = "idle"
    /\ phase' = "closed"
    /\ memory' = {}
    /\ UNCHANGED <<fileVars, writerVars, pending, messages, turnVars, faults>>

-----------------------------------------------------------------------------
(* Appending *)

\* baseEntry and recordEntry count before anything is written.
NewEntry(t, n, type) == [turn |-> t, step |-> n, seq |-> sequence + 1, type |-> type]

Record(t, n, type) ==
    /\ pending' = {NewEntry(t, n, type)}
    /\ sequence' = sequence + 1
    /\ turn' = t
    /\ step' = n + 1

Spoil == spoilt' = spoilt \cup {e.turn : e \in pending \cup tail}

\* The whole line is written; on a torn line it is lost, and what was there too.
Land ==
    /\ torn' = FALSE
    /\ tail' = {}
    /\ IF torn
       THEN log' = log \ tail /\ size' = size /\ Spoil
       ELSE log' = log \cup pending /\ size' = size + 1 /\ spoilt' = spoilt

\* A part is written, at most all but the line end.
Tear ==
    /\ torn' = TRUE
    /\ IF torn
       THEN log' = log \ tail /\ tail' = {} /\ size' = size /\ Spoil
       ELSE /\ \/ log' = log /\ tail' = {}
               \/ log' = log \cup pending /\ tail' = pending
            /\ size' = size + 1
            /\ spoilt' = spoilt

WriteNothing == UNCHANGED fileVars

\* Mutant: a rejected append does not reject the ones after it.
RejectedOnce ==
    \/ broken /\ WriteNothing /\ UNCHANGED <<broken, faults>>
    \/ /\ ~broken /\ faults < MaxFaults
       /\ faults' = faults + 1
       /\ WriteNothing \/ Tear
       /\ broken' = FALSE

\* The append is rejected: by the file system, which may have written a part, or
\* because an earlier one of the same writeChain was.
Rejected ==
    \/ broken /\ WriteNothing /\ UNCHANGED <<broken, faults>>
    \/ /\ ~broken /\ faults < MaxFaults
       /\ faults' = faults + 1
       /\ WriteNothing \/ Tear
       /\ broken' = TRUE

Written == ~broken /\ Land /\ UNCHANGED <<broken, faults>>

-----------------------------------------------------------------------------
(* A turn: AgentSession.submit, TurnRunner.run *)

Submit ==
    /\ phase = "idle"
    /\ turn < MaxTurns
    /\ Record(turn + 1, 0, "accepted_input")
    /\ phase' = "accepting"
    /\ UNCHANGED <<fileVars, broken, memory, messages, produced, faults>>

Base == memory \cup {<<turn, 0>>}

Accepted ==
    /\ phase = "accepting"
    /\ Written
    /\ messages' = Base
    /\ phase' = "working" /\ pending' = {}
    /\ UNCHANGED <<sequence, memory, turnVars>>

\* Mutant: the prompt that could not be recorded is remembered.
NotAcceptedKept ==
    /\ phase = "accepting"
    /\ Rejected
    /\ memory' = Base
    /\ phase' = "idle" /\ pending' = {}
    /\ UNCHANGED <<sequence, messages, turnVars>>

\* The turn is over and forgotten.
NotAccepted ==
    /\ phase = "accepting"
    /\ Rejected
    /\ phase' = "idle" /\ pending' = {}
    /\ UNCHANGED <<sequence, memory, messages, turnVars>>

\* A hook blocks the prompt, or it is not for the model: no result is recorded.
Blocked ==
    /\ phase = "working"
    /\ step = 1
    /\ memory' = Base /\ messages' = {}
    /\ phase' = "idle"
    /\ UNCHANGED <<fileVars, writerVars, pending, turnVars, faults>>

\* onDurableMessage, awaited by the loop for every message it appends.
Message ==
    /\ phase = "working"
    /\ step <= MaxMessages
    /\ Record(turn, step, "durable_message")
    /\ messages' = messages \cup {<<turn, step>>}
    /\ produced' = produced \cup {<<turn, step>>}
    /\ phase' = "saving"
    /\ UNCHANGED <<fileVars, broken, memory, faults>>

Saved ==
    /\ phase = "saving"
    /\ Written
    /\ phase' = "working" /\ pending' = {}
    /\ UNCHANGED <<sequence, memory, messages, turnVars>>

\* A retry takes back an answer that failed; a compaction drops old messages.
Forget ==
    /\ phase = "working"
    /\ \E kept \in SUBSET messages : messages' = kept
    /\ UNCHANGED <<fileVars, writerVars, pending, phase, memory, turnVars, faults>>

Finish ==
    /\ phase = "working"
    /\ Record(turn, step, "turn_result")
    /\ phase' = "finishing"
    /\ UNCHANGED <<fileVars, broken, memory, messages, produced, faults>>

Finished ==
    /\ phase = "finishing"
    /\ Written
    /\ memory' = messages /\ messages' = {}
    /\ phase' = "idle" /\ pending' = {}
    /\ UNCHANGED <<sequence, turnVars>>

\* The loop throws, or a message or the result could not be recorded: the catch block
\* records an error result.
Fails ==
    /\ \/ phase = "working" /\ UNCHANGED <<fileVars, broken, faults>>
       \/ phase \in {"saving", "finishing"} /\ Rejected
    /\ Record(turn, step, "turn_result")
    /\ messages' = {}
    /\ phase' = "failing"
    /\ UNCHANGED <<memory, produced>>

\* Whether or not that is recorded, the session keeps the prompt alone.
Failed ==
    /\ phase = "failing"
    /\ Written \/ Rejected
    /\ memory' = Base
    /\ phase' = "idle" /\ pending' = {}
    /\ UNCHANGED <<sequence, messages, turnVars>>

\* The process dies, perhaps in the middle of an append.
Crash ==
    /\ phase # "closed"
    /\ faults < MaxFaults
    /\ faults' = faults + 1
    /\ WriteNothing \/ (phase \in Appending /\ ~broken /\ (Tear \/ Land))
    /\ memory' = {} /\ messages' = {} /\ pending' = {}
    /\ phase' = "closed"
    /\ UNCHANGED <<writerVars, turnVars>>

Next ==
    \/ Open \/ Rebuild \/ Evict
    \/ Submit \/ Accepted \/ NotAccepted \/ Blocked
    \/ Message \/ Saved \/ Forget
    \/ Finish \/ Finished \/ Fails \/ Failed
    \/ Crash

Spec == Init /\ [][Next]_vars

-----------------------------------------------------------------------------
(* Properties *)

\* A restart loses nothing the session remembers: whatever appends have failed, every
\* remembered prompt and message would be replayed from the file, except those of a
\* turn that lost an entry on a torn line, and as long as the file can be read
\* (TurnRunner.run, replayTranscriptEntries).
MemorySurvivesRestart ==
    ~TooLarge => \A m \in memory : m \in Names(Replayed(log)) \/ m[1] \in spoilt

\* A turn that has a result on file has all its messages on file, since a rejected
\* append rejects the result too; and its prompt, unless that was lost on a torn line
\* (recordEntry's writeChain).
TurnsReplayWhole ==
    \A t \in Completed(log) :
        /\ \A m \in produced : m[1] = t => m \in Names(log)
        /\ t \in spoilt \/ <<t, 0>> \in Names(log)

Before(d, e) == d.turn < e.turn \/ (d.turn = e.turn /\ d.step < e.step)

\* Sorting a file by sequence gives the order in which its entries were made, across
\* rebuilds, crashes and failed appends: resumed writers continue with unique,
\* ascending values (restoreState), as long as the file could be read.
SequenceIsOrder ==
    ~TooLarge => \A d, e \in log : Before(d, e) => d.seq < e.seq

=============================================================================
