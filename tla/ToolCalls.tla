------------------------------ MODULE ToolCalls ------------------------------
(***************************************************************************)
(* The tool calls of a session.  The agent loop hands the calls of an      *)
(* answer to the ConcurrentToolScheduler, which runs those that are safe   *)
(* to run together first and the others one by one.  ToolRuntime.execute   *)
(* asks the hooks, the todo gate and PermissionRuntime, and the user if    *)
(* that is what they decide; when all calls are over, the loop applies the *)
(* changes of mode they ask for and goes on to the next answer.            *)
(*                                                                         *)
(* A tool stands for a tool with an input, one for each name: what a tool  *)
(* says of its input is a matter of the tool.  A call of an answer is      *)
(* "hooked" until its PreToolUse hooks and its own check have answered,    *)
(* "prompting" while the PermissionRequest hooks wait for the user,        *)
(* "allowed" until the decision is audited, "running" until the tool is    *)
(* done, and "ran" until its PostToolUse hooks and its audit are.          *)
(***************************************************************************)
EXTENDS Naturals, FiniteSets

CONSTANTS
    Tools,
    ReadOnly,              \* tools that say isReadOnly of the input
    Safe,                  \* that say isConcurrencySafe
    Asks, Allows,          \* whose checkPermissions says "ask" or "allow"
    Edits,                 \* of kind "filesystem", without the reading ones
    PlanWrites,            \* those of them that write below the plan directory
    Enter, Exit, Todo,     \* enter_plan_mode, exit_plan_mode and todo_write
    Ruled, Rules,          \* bounds: tools that rules may name, and what they say
    Modes,                 \* bound: permission modes the user chooses from
    MaxCalls               \* bound: calls of an answer, with those left from earlier ones

Slots == 1..MaxCalls

ASSUME ToolAssumption ==
    /\ ReadOnly \cup Safe \cup Asks \cup Allows \cup Edits \cup Ruled \subseteq Tools
    /\ {Enter, Exit, Todo} \subseteq ReadOnly \cap Safe
    /\ {Enter, Exit, Todo} \cap (Asks \cup Allows) = {} /\ Asks \cap Allows = {}
    /\ Cardinality({Enter, Exit, Todo}) = 3
    /\ Edits \cap ReadOnly = {} /\ PlanWrites \subseteq Edits
    /\ Rules \subseteq {"allow", "ask", "deny", "policy"}
    /\ Modes \subseteq {"default", "plan", "acceptEdits", "bypassPermissions", "dontAsk"}
    /\ MaxCalls \in Nat \ {0}

VARIABLES
    mode,       \* permissionMode
    before,     \* permissionModeBeforePlan, "none" for undefined
    entered,    \* the mode enter_plan_mode was applied in, "none" after a choice of the user (history)
    rule,       \* what the rules that are not of the session say of a tool
    session,    \* tools with an allow rule of the session
    gate,       \* PlanTodoState
    turn,       \* what the turn is doing
    aborted,    \* its AbortSignal
    torn,       \* the answer found calls that an earlier one has left behind (history)
    call        \* the calls

modeVars == <<mode, before, entered>>
ruleVars == <<rule, session>>
turnVars == <<turn, aborted, torn>>
vars == <<modeVars, ruleVars, gate, turnVars, call>>

AllModes == Modes \cup {"plan", "default"}
Phases == {"idle", "queued", "hooked", "prompting", "allowed", "running", "ran", "done"}
Calls == [pc : Phases, tool : Tools, mode : AllModes, asked : BOOLEAN,
          left : BOOLEAN, wants : {"none", "plan", "default"}]
IdleCall == [pc |-> "idle", tool |-> Todo, mode |-> "default", asked |-> FALSE,
             left |-> FALSE, wants |-> "none"]

TypeOK ==
    /\ mode \in AllModes /\ before \in AllModes \cup {"none"} /\ entered \in AllModes \cup {"none"}
    /\ rule \in [Tools -> Rules \cup {"none"}] /\ session \subseteq Tools
    /\ gate \in {"off", "init", "fresh", "stale"}
    /\ turn \in {"idle", "model", "tools", "results"} /\ aborted \in BOOLEAN
    /\ torn \in BOOLEAN
    /\ call \in [Slots -> Calls]

\* The rules of the user come with every turn, those of other sources with the session.
RuleSets == {[t \in Tools |-> IF t \in Ruled THEN r[t] ELSE "none"] : r \in [Ruled -> Rules]}

Init ==
    /\ mode \in Modes /\ before = "none" /\ entered = "none"
    /\ rule \in RuleSets /\ session = {}
    /\ gate = "off"
    /\ turn = "idle" /\ aborted = FALSE /\ torn = FALSE
    /\ call = [i \in Slots |-> IdleCall]

Busy(i) == call[i].pc \notin {"idle", "done"}
Current(i) == call[i].pc # "idle" /\ ~call[i].left
Executing(i) == call[i].pc = "running"

-----------------------------------------------------------------------------
(* PermissionRuntime.decide *)

\* finalizeAsk
Finalized(m) ==
    CASE m = "bypassPermissions" -> "allow" [] m = "dontAsk" -> "deny" [] OTHER -> "ask"

\* What plan mode is there to prevent.
Changes(t) == t \notin ReadOnly /\ t \notin PlanWrites

ByMode(t, m) ==
    IF m = "plan" THEN IF Changes(t) THEN "deny" ELSE "allow"
    ELSE IF t \in ReadOnly \/ m = "bypassPermissions" \/ (m = "acceptEdits" /\ t \in Edits) THEN "allow"
    ELSE Finalized(m)

\* The tool asks: bypassPermissions overrules it, plan mode knows better.
ByTool(t, m) ==
    IF t \in Allows THEN "allow"
    ELSE IF t \in Asks /\ ~(m = "plan" /\ (t \in ReadOnly \/ Changes(t))) THEN Finalized(m)
    ELSE ByMode(t, m)

\* Mutant: an allow rule is looked at before the mode.
DecisionEager(t, m) ==
    IF rule[t] = "policy" \/ (rule[t] = "deny" /\ t \notin session) THEN "deny"
    ELSE IF rule[t] = "ask" THEN Finalized(m)
    ELSE IF t \in session \/ rule[t] = "allow" THEN "allow"
    ELSE ByTool(t, m)

\* A deny rule of the user gives way to a grant for the session, one of another source does
\* not; an allow rule of the user does not lift plan mode, a grant for the session does.
Decision(t, m) ==
    IF rule[t] = "policy" \/ (rule[t] = "deny" /\ t \notin session) THEN "deny"
    ELSE IF rule[t] = "ask" THEN Finalized(m)
    ELSE IF t \in session \/ (rule[t] = "allow" /\ ~(m = "plan" /\ Changes(t))) THEN "allow"
    ELSE ByTool(t, m)

-----------------------------------------------------------------------------
(* ToolRuntime.execute *)

Goes(i, pc) == call' = [call EXCEPT ![i].pc = pc]

\* The call is over.  Of one that was left behind nobody takes the result.
Over(i, wants) ==
    call' = [call EXCEPT ![i] = IF @.left THEN IdleCall
                                ELSE [IdleCall EXCEPT !.pc = "done", !.wants = wants]]

\* The state in which execute is entered: an aborted turn lets no call in.
Entered(i) == IF aborted THEN "done" ELSE "hooked"

\* Mutant: the todo list is asked for once only.
GateOnce(i) == gate = "init" /\ call[i].tool \notin ReadOnly

\* planTodo.blockingMessageFor
Gated(i) == gate \in {"init", "stale"} /\ call[i].tool \notin ReadOnly

\* A hook, the tool itself or the gate refuses the call, or the decision is a denial.
Refused(i) ==
    /\ call[i].pc = "hooked"
    /\ Over(i, "none")
    /\ UNCHANGED <<modeVars, ruleVars, gate, turnVars>>

Decided(i) ==
    /\ call[i].pc = "hooked" /\ ~Gated(i)
    /\ \/ Decision(call[i].tool, call[i].mode) = "allow" /\ Goes(i, "allowed")
       \/ Decision(call[i].tool, call[i].mode) = "ask" /\ Goes(i, "prompting")
    /\ UNCHANGED <<modeVars, ruleVars, gate, turnVars>>

\* The user allows the call, and may have that remembered for the session: to no effect when
\* an allow rule has the name already.
Granted(i) ==
    /\ call[i].pc = "prompting"
    /\ \/ UNCHANGED session
       \/ rule[call[i].tool] # "allow" /\ session' = session \cup {call[i].tool}
    /\ call' = [call EXCEPT ![i].pc = "allowed", ![i].asked = TRUE]
    /\ UNCHANGED <<modeVars, rule, gate, turnVars>>

\* The user refuses, nobody is there to ask, or the turn is aborted.
NotGranted(i) ==
    /\ call[i].pc = "prompting"
    /\ Over(i, "none")
    /\ UNCHANGED <<modeVars, ruleVars, gate, turnVars>>

Runs(i) ==
    /\ call[i].pc = "allowed"
    /\ Goes(i, "running")
    /\ UNCHANGED <<modeVars, ruleVars, gate, turnVars>>

ToolFails(i) ==
    /\ call[i].pc = "running"
    /\ Over(i, "none")
    /\ UNCHANGED <<modeVars, ruleVars, gate, turnVars>>

\* The tool succeeds: enter_plan_mode unless it was given plan mode, exit_plan_mode with
\* the user's decision about the plan, todo_write with a new list.
ToolSucceeds(i) ==
    /\ call[i].pc = "running"
    /\ call[i].tool = Enter => call[i].mode # "plan"
    /\ \/ call[i].tool = Exit /\ gate' = "init"
          /\ call' = [call EXCEPT ![i].pc = "ran", ![i].wants = "default"]
       \/ call[i].tool = Todo /\ gate' = (IF gate = "off" THEN "off" ELSE "fresh") /\ Goes(i, "ran")
       \/ call[i].tool = Enter /\ call' = [call EXCEPT ![i].pc = "ran", ![i].wants = "plan"]
                               /\ UNCHANGED gate
       \/ call[i].tool \notin {Enter, Todo} /\ Goes(i, "ran") /\ UNCHANGED gate
    /\ UNCHANGED <<modeVars, ruleVars, turnVars>>

\* The hooks have answered: progress on an approved plan makes the list stale.
Reported(i) ==
    /\ call[i].pc = "ran"
    /\ Over(i, call[i].wants)
    /\ gate' = IF call[i].tool \notin ReadOnly /\ gate = "fresh" THEN "stale" ELSE gate
    /\ UNCHANGED <<modeVars, ruleVars, turnVars>>

\* A hook throws after the tool has done its work: the result is an error.
NotReported(i) ==
    /\ call[i].pc = "ran"
    /\ Over(i, "none")
    /\ UNCHANGED <<modeVars, ruleVars, gate, turnVars>>

\* A rejection outside the try of execute (a hook, the tool's own check, the audit).  It
\* fails the whole answer: calls that wait are dropped, those under way are left behind.
Throws(i) ==
    /\ call[i].pc \in {"hooked", "allowed", "ran"}
    /\ IF call[i].left
       THEN call' = [call EXCEPT ![i] = IdleCall] /\ UNCHANGED turn
       ELSE /\ call' = [j \in Slots |->
                  IF j = i \/ call[j].pc \in {"queued", "done"} \/ ~Busy(j) THEN IdleCall
                  ELSE [call[j] EXCEPT !.left = TRUE]]
            /\ turn' = IF aborted THEN "idle" ELSE "model"
    /\ UNCHANGED <<modeVars, ruleVars, gate, aborted, torn>>

-----------------------------------------------------------------------------
(* ConcurrentToolScheduler.executeAll *)

Waiting(i) == Current(i) /\ call[i].pc # "done"

\* Mutant: the calls keep the order of the answer.
MayEnterInOrder(i) == \A j \in Slots : Waiting(j) /\ j < i => call[j].tool \in Safe

\* Mutant: an aborted answer lets its calls wait.
MayEnterUnaborted(i) == ~aborted /\ \A j \in Slots : Waiting(j) /\ j # i => call[j].tool \notin Safe /\ j > i

\* Whether a call that may not run beside others gets its turn.
MayEnter(i) == \A j \in Slots : Waiting(j) /\ j # i => call[j].tool \notin Safe /\ j > i

Enters(i) ==
    /\ call[i].pc = "queued" /\ MayEnter(i)
    /\ Goes(i, Entered(i))
    /\ UNCHANGED <<modeVars, ruleVars, gate, turnVars>>

\* All calls of the answer are over; an aborted turn ends there.
BatchEnds ==
    /\ turn = "tools" /\ ~\E i \in Slots : Waiting(i)
    /\ \/ aborted /\ turn' = "idle"
          /\ call' = [i \in Slots |-> IF Current(i) THEN IdleCall ELSE call[i]]
       \/ ~aborted /\ turn' = "results" /\ UNCHANGED call
    /\ UNCHANGED <<modeVars, ruleVars, gate, aborted, torn>>

-----------------------------------------------------------------------------
(* AgentLoop *)

\* Those of the calls C of an answer that may run together enter at once, or else the first
\* of the others.
FirstPhase(i, C, tool) ==
    IF tool[i] \in Safe \/ \A j \in C : tool[j] \notin Safe /\ i <= j THEN Entered(i) ELSE "queued"

Handed(C, tool) ==
    [i \in Slots |->
        IF i \notin C THEN call[i]
        ELSE [IdleCall EXCEPT !.tool = tool[i], !.mode = mode, !.pc = FirstPhase(i, C, tool)]]

\* An answer of the model asks for calls.
Answer ==
    /\ turn = "model" /\ ~aborted
    /\ LET free == {i \in Slots : call[i].pc = "idle"}
       IN \E C \in (SUBSET free) \ {{}} : \E tool \in [C -> Tools] :
            /\ \A i \in C, j \in free \ C : i < j
            /\ call' = Handed(C, tool)
    /\ turn' = "tools" /\ torn' = \E i \in Slots : call[i].left
    /\ UNCHANGED <<modeVars, ruleVars, gate, aborted>>

\* Mutant: plan mode is entered again.
AppliedAgain(wants) ==
    CASE wants = "plan" ->
            mode' = "plan" /\ before' = mode /\ entered' = (IF mode = "plan" THEN entered ELSE mode)
      [] wants = "default" /\ mode = "plan" ->
            /\ mode' = (IF before = "none" THEN "default" ELSE before)
            /\ before' = "none" /\ entered' = "none"
      [] wants = "default" /\ mode # "plan" -> mode' = "default" /\ UNCHANGED <<before, entered>>
      [] OTHER -> UNCHANGED modeVars

\* The change of mode a result asks for.
Applied(wants) ==
    CASE wants = "plan" /\ mode # "plan" -> mode' = "plan" /\ before' = mode /\ entered' = mode
      [] wants = "default" /\ mode = "plan" ->
            /\ mode' = (IF before = "none" THEN "default" ELSE before)
            /\ before' = "none" /\ entered' = "none"
      [] wants = "default" /\ mode # "plan" -> mode' = "default" /\ UNCHANGED <<before, entered>>
      [] OTHER -> UNCHANGED modeVars

\* The results are gone through in the order of the calls; then the model is called again.
Applies(i) ==
    /\ turn = "results" /\ Current(i) /\ \A j \in Slots : Current(j) => i <= j
    /\ Applied(call[i].wants)
    /\ call' = [call EXCEPT ![i] = IdleCall]
    /\ turn' = IF \E j \in Slots \ {i} : Current(j) THEN "results" ELSE "model"
    /\ UNCHANGED <<ruleVars, gate, aborted, torn>>

\* submit, with the mode and the rules of the user, and with what the gateway was told to grant
\* for the session since the last one; the other rules stay.
TurnBegins ==
    /\ turn = "idle"
    /\ \/ UNCHANGED modeVars
       \/ mode' \in Modes /\ entered' = "none" /\ UNCHANGED before
    /\ rule' \in {r \in RuleSets : \A t \in Tools : (r[t] = "policy") = (rule[t] = "policy")}
    /\ \E grants \in SUBSET Ruled : session' = session \cup grants
    /\ turn' = "model" /\ aborted' = FALSE
    /\ UNCHANGED <<gate, torn, call>>

TurnEnds ==
    /\ turn = "model" /\ turn' = "idle"
    /\ UNCHANGED <<modeVars, ruleVars, gate, aborted, torn, call>>

Abort ==
    /\ turn # "idle" /\ ~aborted /\ aborted' = TRUE
    /\ UNCHANGED <<modeVars, ruleVars, gate, turn, torn, call>>

-----------------------------------------------------------------------------
Proceeds(i) ==
    \/ Refused(i) \/ Decided(i) \/ Runs(i) \/ ToolFails(i) \/ ToolSucceeds(i)
    \/ Reported(i) \/ NotReported(i) \/ Throws(i) \/ Enters(i) \/ Applies(i)

Next ==
    \/ \E i \in Slots : Proceeds(i) \/ Granted(i) \/ NotGranted(i)
    \/ BatchEnds \/ Answer \/ TurnBegins \/ TurnEnds \/ Abort

Spec == Init /\ [][Next]_vars

\* Hooks, tools and prompts of an aborted turn end, for which the user need not answer; which
\* of them ends first is open.
Fairness ==
    WF_vars(aborted /\ (\/ \E i \in Slots : Proceeds(i) \/ NotGranted(i)
                        \/ BatchEnds \/ TurnEnds))

FairSpec == Spec /\ Fairness

-----------------------------------------------------------------------------
(* What the calls may do. *)

\* A call that entered in plan mode changes nothing but plans, unless the user grants it, now
\* or for the session, or the tool itself says that it is harmless: in particular no allow
\* rule of the configuration and no mode that is applied later lets it through.
PlanModeReadsOnly ==
    \A i \in Slots : Executing(i) /\ call[i].mode = "plan" /\ Changes(call[i].tool) =>
        call[i].asked \/ call[i].tool \in session \cup Allows

\* What a deny rule names does not run, and one of the user gives way to nothing but a grant
\* for the session.  Only a call that an earlier answer left behind may still do so.
DenyRulesHold ==
    \A i \in Slots : Executing(i) /\ ~call[i].left =>
        /\ rule[call[i].tool] # "policy"
        /\ rule[call[i].tool] = "deny" => call[i].tool \in session

\* No call runs that rules and mode forbid, at any await after its decision.
PermissionsHold == PlanModeReadsOnly /\ DenyRulesHold

\* A call that may not run beside others has no other call of its answer beside it, at any
\* await of the two.
UnsafeRunsAlone ==
    \A i, j \in Slots : i # j /\ Current(i) /\ Current(j) /\ call[i].tool \notin Safe =>
        call[i].pc \in {"queued", "done"} \/ call[j].pc \in {"queued", "done"}

\* No result is handed to the model, and no turn ends, while a call is under way that was
\* not left behind by a rejection.
CallsEndWithAnswer ==
    turn # "tools" => \A i \in Slots : Busy(i) => call[i].left

\* While the todo list of an approved plan is missing or stale, nothing that makes progress
\* is at work, except calls that may run beside the one that made it so, and calls that a
\* rejection has left behind or that had such calls beside them.
TodoListIsKept ==
    gate \in {"init", "stale"} =>
        \A i \in Slots : Executing(i) /\ ~call[i].left /\ call[i].tool \notin ReadOnly =>
            call[i].tool \in Safe \/ torn

\* The calls of an answer run in the mode the session is in.
ModeIsCurrent ==
    \A i \in Slots : Executing(i) /\ ~call[i].left => call[i].mode = mode

\* Calls run one answer at a time, alone where they must, and in the mode of that answer.
CallsKeepToTheirAnswer == UnsafeRunsAlone /\ CallsEndWithAnswer /\ ModeIsCurrent

\* An approved plan gives the session the mode back that enter_plan_mode found, however many
\* calls asked for plan mode, unless the user has chosen a mode since.
ModeIsRestored ==
    [][mode = "plan" /\ entered # "none" /\ entered' = "none" /\ turn # "idle" =>
           mode' = entered]_vars

\* After an abort no further call is let in.
AbortLetsNoneIn ==
    [][aborted /\ aborted' =>
           \A i \in Slots : call'[i].pc = "hooked" => call[i].pc = "hooked"]_vars

\* An aborted turn ends, whatever its calls wait for.
AbortedTurnsEnd == aborted ~> turn = "idle"

\* An abort lets the calls under way come to an end, and no others begin.
AbortsEndTurns == AbortLetsNoneIn /\ AbortedTurnsEnd
=============================================================================
