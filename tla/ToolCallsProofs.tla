--------------------------- MODULE ToolCallsProofs ---------------------------
(* Proofs about ToolCalls: for any tools, rules and modes, and any number of calls. *)
EXTENDS ToolCalls, TLAPS

-----------------------------------------------------------------------------
(* Types *)

LEMMA IdleCallType == IdleCall \in Calls
BY ToolAssumption DEF IdleCall, Calls, Phases, AllModes

\* What the actions do to the record of a call.
LEMMA CallType ==
    ASSUME NEW r \in Calls
    PROVE  /\ \A pc \in Phases : [r EXCEPT !.pc = pc] \in Calls
           /\ [r EXCEPT !.left = TRUE] \in Calls
           /\ \A wants \in {"none", "plan", "default"} : \A pc \in Phases :
                 [r EXCEPT !.pc = pc, !.wants = wants] \in Calls
           /\ \A pc \in Phases : [r EXCEPT !.pc = pc, !.asked = TRUE] \in Calls
           /\ \A t \in Tools, m \in AllModes, pc \in Phases :
                 [r EXCEPT !.tool = t, !.mode = m, !.pc = pc] \in Calls
BY DEF Calls

LEMMA InitType == Init => TypeOK
<1> SUFFICES ASSUME Init PROVE TypeOK
    OBVIOUS
<1>1. call \in [Slots -> Calls]
    BY IdleCallType DEF Init
<1>2. rule \in [Tools -> Rules \cup {"none"}]
    BY DEF Init, RuleSets
<1> QED
    BY <1>1, <1>2 DEF Init, TypeOK, AllModes

LEMMA OverType ==
    ASSUME TypeOK, NEW i \in Slots, NEW wants \in {"none", "plan", "default"}, Over(i, wants)
    PROVE  call' \in [Slots -> Calls]
<1>1. [IdleCall EXCEPT !.pc = "done", !.wants = wants] \in Calls
    BY IdleCallType, CallType DEF Phases
<1> QED
    BY <1>1, IdleCallType DEF Over, TypeOK

LEMMA GoesType ==
    ASSUME TypeOK, NEW i \in Slots, NEW pc \in Phases, Goes(i, pc)
    PROVE  call' \in [Slots -> Calls]
<1>1. [call[i] EXCEPT !.pc = pc] \in Calls
    BY CallType DEF TypeOK
<1> QED
    BY <1>1 DEF Goes, TypeOK

LEMMA AppliedType ==
    ASSUME TypeOK, NEW wants \in {"none", "plan", "default"}, Applied(wants)
    PROVE  /\ mode' \in AllModes /\ before' \in AllModes \cup {"none"}
           /\ entered' \in AllModes \cup {"none"}
BY DEF TypeOK, Applied, AllModes, modeVars

LEMMA StepType == TypeOK /\ [Next]_vars => TypeOK'
<1> SUFFICES ASSUME TypeOK, [Next]_vars PROVE TypeOK'
    OBVIOUS
<1>0. IdleCall \in Calls /\ call \in [Slots -> Calls]
    BY IdleCallType DEF TypeOK
<1> USE DEF TypeOK, modeVars, ruleVars, turnVars
<1>1. ASSUME NEW i \in Slots, Refused(i) \/ ToolFails(i) \/ NotReported(i) \/ NotGranted(i)
      PROVE  TypeOK'
    <2>1. Over(i, "none")
        BY <1>1 DEF Refused, ToolFails, NotReported, NotGranted
    <2>2. call' \in [Slots -> Calls]
        BY <2>1, OverType
    <2> QED
        BY <2>2, <1>1 DEF Refused, ToolFails, NotReported, NotGranted
<1>2. ASSUME NEW i \in Slots, Decided(i) \/ Runs(i) \/ Enters(i)
      PROVE  TypeOK'
    <2>1. \E pc \in Phases : Goes(i, pc)
        BY <1>2 DEF Decided, Runs, Enters, Entered, Phases
    <2>2. call' \in [Slots -> Calls]
        BY <2>1, GoesType
    <2> QED
        BY <2>2, <1>2 DEF Decided, Runs, Enters
<1>3. ASSUME NEW i \in Slots, ToolSucceeds(i) PROVE TypeOK'
    <2>1. \/ Goes(i, "ran")
          \/ \E wants \in {"none", "plan", "default"} :
                call' = [call EXCEPT ![i] = [call[i] EXCEPT !.pc = "ran", !.wants = wants]]
        BY <1>3 DEF ToolSucceeds
    <2>2. "ran" \in Phases
        BY DEF Phases
    <2>3. call' \in [Slots -> Calls]
        <3>1. ASSUME NEW wants \in {"none", "plan", "default"}
              PROVE  [call[i] EXCEPT !.pc = "ran", !.wants = wants] \in Calls
            BY <2>2, <1>0, CallType
        <3>2. CASE Goes(i, "ran")
            BY <2>2, <3>2, GoesType
        <3>3. CASE ~Goes(i, "ran")
            BY <2>1, <3>1, <3>3, <1>0
        <3> QED
            BY <3>2, <3>3
    <2>4. gate' \in {"off", "init", "fresh", "stale"}
        BY <1>3 DEF ToolSucceeds
    <2> QED
        BY <2>3, <2>4, <1>3 DEF ToolSucceeds
<1>4. ASSUME NEW i \in Slots, Reported(i) PROVE TypeOK'
    <2>1. Over(i, call[i].wants) /\ call[i].wants \in {"none", "plan", "default"}
        BY <1>4, <1>0 DEF Reported, Calls
    <2>2. call' \in [Slots -> Calls]
        BY <2>1, OverType
    <2> QED
        BY <2>2, <1>4 DEF Reported
<1>5. ASSUME NEW i \in Slots, Throws(i) PROVE TypeOK'
    <2>1. \A j \in Slots : [call[j] EXCEPT !.left = TRUE] \in Calls
        BY <1>0, CallType
    <2>2. call' \in [Slots -> Calls]
        BY <1>5, <1>0, <2>1 DEF Throws
    <2> QED
        BY <2>2, <1>5 DEF Throws
<1>6. ASSUME NEW i \in Slots, Applies(i) PROVE TypeOK'
    <2>1. call' \in [Slots -> Calls]
        BY <1>6, <1>0 DEF Applies
    <2>2. call[i].wants \in {"none", "plan", "default"}
        BY <1>0 DEF Calls
    <2>3. Applied(call[i].wants)
        BY <1>6 DEF Applies
    <2> QED
        BY <2>1, <2>2, <2>3, <1>6, AppliedType DEF Applies
<1>7. ASSUME NEW i \in Slots, Granted(i) PROVE TypeOK'
    <2>1. [call[i] EXCEPT !.pc = "allowed", !.asked = TRUE] \in Calls
        BY <1>0, CallType DEF Phases
    <2>2. call' \in [Slots -> Calls]
        BY <1>7, <1>0, <2>1 DEF Granted
    <2>3. call[i].tool \in Tools
        BY <1>0 DEF Calls
    <2> QED
        BY <2>2, <2>3, <1>7 DEF Granted
<1>8. CASE BatchEnds
    <2>1. call' \in [Slots -> Calls]
        BY <1>8, <1>0 DEF BatchEnds
    <2> QED
        BY <2>1, <1>8 DEF BatchEnds
<1>9. CASE Answer
    <2>1. call' \in [Slots -> Calls]
        <3> DEFINE free == {i \in Slots : call[i].pc = "idle"}
        <3>1. PICK C \in SUBSET free : \E tool \in [C -> Tools] : call' = Handed(C, tool)
            BY <1>9 DEF Answer
        <3>2. PICK tool \in [C -> Tools] : call' = Handed(C, tool)
            BY <3>1
        <3>3. ASSUME NEW i \in Slots, i \in C
              PROVE  [IdleCall EXCEPT !.tool = tool[i], !.mode = mode, !.pc = FirstPhase(i, C, tool)]
                        \in Calls
            <4>1. FirstPhase(i, C, tool) \in Phases
                BY DEF FirstPhase, Entered, Phases
            <4>2. tool[i] \in Tools /\ mode \in AllModes
                BY <3>3, <3>2
            <4> QED
                BY <4>1, <4>2, <1>0, CallType
        <3> QED
            BY <3>2, <3>3, <1>0 DEF Handed
    <2> QED
        BY <2>1, <1>9 DEF Answer
<1>10. CASE TurnBegins
    <2>1. rule' \in [Tools -> Rules \cup {"none"}]
        BY <1>10 DEF TurnBegins, RuleSets
    <2>2. session' \subseteq Tools
        BY <1>10, ToolAssumption DEF TurnBegins
    <2> QED
        BY <2>1, <2>2, <1>10 DEF TurnBegins, AllModes
<1>11. CASE TurnEnds \/ Abort \/ UNCHANGED vars
    BY <1>11 DEF TurnEnds, Abort, vars
<1> QED
    BY <1>1, <1>2, <1>3, <1>4, <1>5, <1>6, <1>7, <1>8, <1>9, <1>10, <1>11 DEF Next, Proceeds

\* The type invariant of the calls, the modes, the rules and the gate.
THEOREM Types == Spec => []TypeOK
BY InitType, StepType, PTL DEF Spec

-----------------------------------------------------------------------------
(* Where the calls of an answer may be *)

\* A call goes on by itself: it is over, or in a later phase.
Moves(k) ==
    /\ UNCHANGED <<turn, torn, aborted, mode, rule>>
    /\ \A j \in Slots \ {k} : call'[j] = call[j]
    /\ call[k].pc \in {"hooked", "prompting", "allowed", "running", "ran"}
    /\ \/ call[k].left /\ call'[k] = IdleCall
       \/ ~call[k].left /\ call'[k].pc = "done" /\ ~call'[k].left
       \/ /\ call'[k].pc \in {"prompting", "allowed", "running", "ran"}
          /\ call'[k].tool = call[k].tool /\ call'[k].mode = call[k].mode
          /\ call'[k].left = call[k].left

LEMMA OverMoves ==
    ASSUME TypeOK, NEW k \in Slots, NEW wants, Over(k, wants),
           UNCHANGED <<turn, torn, aborted, mode, rule>>,
           call[k].pc \in {"hooked", "prompting", "allowed", "running", "ran"}
    PROVE  Moves(k)
BY DEF Over, Moves, TypeOK, IdleCall, Calls

LEMMA GoesMoves ==
    ASSUME TypeOK, NEW k \in Slots, NEW pc \in {"prompting", "allowed", "running", "ran"},
           Goes(k, pc), UNCHANGED <<turn, torn, aborted, mode, rule>>,
           call[k].pc \in {"hooked", "prompting", "allowed", "running", "ran"}
    PROVE  Moves(k)
BY DEF Goes, Moves, TypeOK, Calls

LEMMA CallsMove ==
    ASSUME TypeOK, NEW k \in Slots,
           \/ Refused(k) \/ Decided(k) \/ Granted(k) \/ NotGranted(k) \/ Runs(k) \/ ToolFails(k)
           \/ ToolSucceeds(k) \/ Reported(k) \/ NotReported(k)
    PROVE  Moves(k)
<1> USE DEF modeVars, ruleVars, turnVars
<1>1. CASE Refused(k) \/ NotGranted(k) \/ ToolFails(k) \/ Reported(k) \/ NotReported(k)
    BY <1>1, OverMoves DEF Refused, NotGranted, ToolFails, Reported, NotReported
<1>2. CASE Decided(k) \/ Runs(k)
    BY <1>2, GoesMoves DEF Decided, Runs
<1>3. CASE Granted(k)
    BY <1>3 DEF Granted, Moves, TypeOK, Calls
<1>4. CASE ToolSucceeds(k)
    <2>1. CASE Goes(k, "ran")
        BY <2>1, <1>4, GoesMoves DEF ToolSucceeds
    <2>2. ASSUME NEW wants, call' = [call EXCEPT ![k].pc = "ran", ![k].wants = wants]
          PROVE  Moves(k)
        BY <2>2, <1>4 DEF ToolSucceeds, Moves, TypeOK, Calls
    <2> QED
        BY <2>1, <2>2, <1>4 DEF ToolSucceeds
<1> QED
    BY <1>1, <1>2, <1>3, <1>4

\* What a step is, as far as the phases of the calls go.
LEMMA Steps ==
    ASSUME TypeOK, [Next]_vars
    PROVE  \/ \E k \in Slots : Moves(k) \/ Throws(k) \/ Enters(k) \/ Applies(k)
           \/ BatchEnds \/ Answer \/ TurnBegins
           \/ UNCHANGED <<call, mode, rule, torn>> /\ (turn' = turn \/ (turn = "model" /\ turn' = "idle"))
<1>1. ASSUME NEW k \in Slots, Proceeds(k) \/ Granted(k) \/ NotGranted(k)
      PROVE  Moves(k) \/ Throws(k) \/ Enters(k) \/ Applies(k)
    BY <1>1, CallsMove DEF Proceeds
<1> USE DEF vars, modeVars, ruleVars, turnVars
<1>2. CASE TurnEnds
    BY <1>2 DEF TurnEnds
<1>3. CASE Abort \/ UNCHANGED vars
    <2>1. UNCHANGED <<call, mode, rule, torn>> /\ turn' = turn
        BY <1>3 DEF Abort
    <2> QED
        BY <2>1
<1>4. CASE BatchEnds \/ Answer \/ TurnBegins
    BY <1>4
<1>5. ASSUME NEW k \in Slots, Proceeds(k) \/ Granted(k) \/ NotGranted(k)
      PROVE  \E n \in Slots : Moves(n) \/ Throws(n) \/ Enters(n) \/ Applies(n)
    BY <1>1, <1>5
<1> QED
    BY <1>2, <1>3, <1>4, <1>5 DEF Next

\* Between answers no call is of the current one; when results are applied, all are over; a
\* call that was left behind shows in torn.
Settled ==
    /\ turn \in {"idle", "model"} => \A i \in Slots : ~Current(i)
    /\ turn = "results" => \A i \in Slots : ~Waiting(i)
    /\ turn = "tools" /\ ~torn => \A i \in Slots : ~call[i].left

LEMMA StepSettled == TypeOK /\ Settled /\ [Next]_vars => Settled'
<1> SUFFICES ASSUME TypeOK, Settled, [Next]_vars PROVE Settled'
    OBVIOUS
<1> USE DEF Settled, Current, Waiting
<1>1. ASSUME NEW k \in Slots, Moves(k) PROVE Settled'
    BY <1>1 DEF Moves, IdleCall
<1>2. ASSUME NEW k \in Slots, Throws(k) PROVE Settled'
    <2>1. CASE call[k].left
        BY <1>2, <2>1 DEF Throws, IdleCall, TypeOK
    <2>2. CASE ~call[k].left
        <3>1. turn' \in {"idle", "model"}
            BY <1>2, <2>2 DEF Throws
        <3>2. ASSUME NEW i \in Slots PROVE ~Current(i)'
            <4>1. call'[i] = IF i = k \/ call[i].pc \in {"queued", "done"} \/ ~Busy(i) THEN IdleCall
                             ELSE [call[i] EXCEPT !.left = TRUE]
                BY <1>2, <2>2 DEF Throws
            <4>2. IdleCall.pc = "idle" /\ [call[i] EXCEPT !.left = TRUE].left
                BY DEF IdleCall, TypeOK, Calls
            <4> QED
                BY <4>1, <4>2
        <3> QED
            BY <3>1, <3>2
    <2> QED
        BY <2>1, <2>2
<1>3. ASSUME NEW k \in Slots, Enters(k) PROVE Settled'
    BY <1>3 DEF Enters, Goes, turnVars, TypeOK, Calls, Entered
<1>4. ASSUME NEW k \in Slots, Applies(k) PROVE Settled'
    BY <1>4 DEF Applies, IdleCall, TypeOK
<1>5. CASE BatchEnds
    BY <1>5 DEF BatchEnds, IdleCall, TypeOK
<1>6. CASE Answer
    <2>1. PICK C \in SUBSET Slots : \E tool : call' = Handed(C, tool)
        BY <1>6 DEF Answer
    <2>2. \A i \in Slots : call'[i].left => call[i].left
        BY <2>1 DEF Handed, IdleCall
    <2> QED
        BY <2>2, <1>6 DEF Answer
<1>7. CASE TurnBegins
    BY <1>7 DEF TurnBegins
<1> QED
    BY <1>1, <1>2, <1>3, <1>4, <1>5, <1>6, <1>7, Steps

\* While a call that may not run beside others is past the queue, all that wait are such calls
\* and stand behind it.
Ordered ==
    \A i, j \in Slots :
        i # j /\ Waiting(i) /\ Waiting(j) /\ call[j].pc # "queued" /\ call[j].tool \notin Safe =>
            call[i].tool \notin Safe /\ i > j /\ call[i].pc = "queued"

LEMMA StepOrdered == TypeOK /\ Settled /\ Ordered /\ [Next]_vars => Ordered'
<1> SUFFICES ASSUME TypeOK, Settled, Ordered, [Next]_vars,
                    NEW i \in Slots, NEW j \in Slots, i # j, Waiting(i)', Waiting(j)',
                    call'[j].pc # "queued", call'[j].tool \notin Safe
             PROVE  call'[i].tool \notin Safe /\ i > j /\ call'[i].pc = "queued"
    BY DEF Ordered
<1> USE DEF Ordered, Current, Waiting
<1>0. i \in Nat /\ j \in Nat
    BY ToolAssumption DEF Slots
<1>1. ASSUME NEW k \in Slots, Moves(k)
      PROVE  call'[i].tool \notin Safe /\ i > j /\ call'[i].pc = "queued"
    BY <1>1 DEF Moves, IdleCall
<1>2. ASSUME NEW k \in Slots, Throws(k)
      PROVE  call'[i].tool \notin Safe /\ i > j /\ call'[i].pc = "queued"
    BY <1>2 DEF Throws, IdleCall, TypeOK, Calls
<1>3. ASSUME NEW k \in Slots, Enters(k)
      PROVE  call'[i].tool \notin Safe /\ i > j /\ call'[i].pc = "queued"
    <2>1. /\ \A n \in Slots \ {k} : call'[n] = call[n]
          /\ call[k].pc = "queued" /\ call'[k].tool = call[k].tool /\ call'[k].left = call[k].left
          /\ \A n \in Slots : Waiting(n) /\ n # k => call[n].tool \notin Safe /\ n > k
        BY <1>3 DEF Enters, Goes, MayEnter, TypeOK, Calls
    <2>2. CASE k = j
        BY <1>0, <2>1, <2>2
    <2>3. CASE k = i
        BY <1>0, <2>1, <2>3
    <2>4. CASE k # i /\ k # j
        BY <2>1, <2>4
    <2> QED
        BY <2>2, <2>3, <2>4
<1>4. ASSUME NEW k \in Slots, Applies(k)
      PROVE  call'[i].tool \notin Safe /\ i > j /\ call'[i].pc = "queued"
    BY <1>4 DEF Applies, IdleCall, TypeOK, Calls
<1>5. CASE BatchEnds
    BY <1>5 DEF BatchEnds, IdleCall, TypeOK, Calls
<1>6. CASE Answer
    <2>1. PICK C \in SUBSET Slots : \E tool : call' = Handed(C, tool)
        BY <1>6 DEF Answer
    <2>2. PICK tool : call' = Handed(C, tool)
        BY <2>1
    <2>3. i \in C /\ j \in C
        BY <2>2, <1>6 DEF Handed, Answer, Settled
    <2>4. \A n \in C : call'[n].tool = tool[n] /\ call'[n].pc = FirstPhase(n, C, tool)
        BY <2>2 DEF Handed, IdleCall
    <2>5. \A n \in C : tool[n] \notin Safe /\ j <= n
        BY <2>3, <2>4 DEF FirstPhase
    <2>6. ~(i <= j)
        BY <1>0, <2>3, <2>5
    <2> QED
        BY <1>0, <2>3, <2>4, <2>5, <2>6 DEF FirstPhase
<1>7. CASE TurnBegins
    BY <1>7 DEF TurnBegins
<1> QED
    BY <1>1, <1>2, <1>3, <1>4, <1>5, <1>6, <1>7, Steps

LEMMA InitSettled == Init => Settled /\ Ordered
BY DEF Init, Settled, Ordered, Current, Waiting, IdleCall

LEMMA Phased == Spec => [](TypeOK /\ Settled /\ Ordered)
BY InitType, InitSettled, StepType, StepSettled, StepOrdered, PTL DEF Spec

\* Calls that may not run beside others run alone in their answer.
THEOREM Alone == Spec => []UnsafeRunsAlone
<1>1. TypeOK /\ Ordered => UnsafeRunsAlone
    <2> SUFFICES ASSUME TypeOK, Ordered, NEW i \in Slots, NEW j \in Slots, i # j,
                        Current(i), Current(j), call[i].tool \notin Safe,
                        call[i].pc \notin {"queued", "done"}, call[j].pc \notin {"queued", "done"}
                 PROVE  FALSE
        BY DEF UnsafeRunsAlone
    <2> QED
        BY DEF Ordered, Waiting
<1> QED
    BY <1>1, Phased, PTL

\* No call is under way between the answers, except those that were left behind.
THEOREM Ended == Spec => []CallsEndWithAnswer
<1>1. TypeOK /\ Settled => CallsEndWithAnswer
    BY DEF CallsEndWithAnswer, Settled, TypeOK, Current, Waiting, Busy
<1> QED
    BY <1>1, Phased, PTL

-----------------------------------------------------------------------------
(* Modes *)

\* The calls of the answer under way were given the mode of the session.
Moded == \A i \in Slots : Waiting(i) => call[i].mode = mode

LEMMA StepModed == TypeOK /\ Settled /\ Moded /\ [Next]_vars => Moded'
<1> SUFFICES ASSUME TypeOK, Settled, Moded, [Next]_vars PROVE Moded'
    OBVIOUS
<1> USE DEF Moded, Current, Waiting
<1>1. ASSUME NEW k \in Slots, Moves(k) PROVE Moded'
    BY <1>1 DEF Moves, IdleCall
<1>2. ASSUME NEW k \in Slots, Throws(k) PROVE Moded'
    BY <1>2 DEF Throws, IdleCall, TypeOK, Calls, modeVars
<1>3. ASSUME NEW k \in Slots, Enters(k) PROVE Moded'
    BY <1>3 DEF Enters, Goes, modeVars, TypeOK, Calls
<1>4. ASSUME NEW k \in Slots, Applies(k) PROVE Moded'
    BY <1>4 DEF Applies, IdleCall, TypeOK, Settled
<1>5. CASE BatchEnds
    BY <1>5 DEF BatchEnds, IdleCall, TypeOK, modeVars
<1>6. CASE Answer
    <2>1. PICK C \in SUBSET Slots : \E tool : call' = Handed(C, tool)
        BY <1>6 DEF Answer
    <2>2. \A i \in Slots : call'[i] = call[i] \/ call'[i].mode = mode
        BY <2>1 DEF Handed, IdleCall
    <2> QED
        BY <2>2, <1>6 DEF Answer, modeVars
<1>7. CASE TurnBegins
    BY <1>7 DEF TurnBegins, Settled
<1> QED
    BY <1>1, <1>2, <1>3, <1>4, <1>5, <1>6, <1>7, Steps

\* The mode to restore is the one that enter_plan_mode found.
Remembered == entered # "none" => mode = "plan" /\ before = entered

LEMMA StepRemembered == TypeOK /\ Remembered /\ [Next]_vars => Remembered'
<1> SUFFICES ASSUME TypeOK, Remembered, [Next]_vars PROVE Remembered'
    OBVIOUS
<1> USE DEF Remembered, modeVars
<1>1. ASSUME NEW k \in Slots, Applies(k) PROVE Remembered'
    BY <1>1 DEF Applies, Applied
<1>2. CASE TurnBegins
    BY <1>2 DEF TurnBegins
<1>3. ASSUME NEW k \in Slots, Proceeds(k) \/ Granted(k) \/ NotGranted(k), ~Applies(k)
      PROVE  UNCHANGED modeVars
    BY <1>3 DEF Proceeds, Refused, Decided, Runs, ToolFails, ToolSucceeds, Reported, NotReported,
                Throws, Enters, Granted, NotGranted
<1>4. CASE BatchEnds \/ Answer \/ TurnEnds \/ Abort \/ UNCHANGED vars
    BY <1>4 DEF BatchEnds, Answer, TurnEnds, Abort, vars
<1> QED
    BY <1>1, <1>2, <1>3, <1>4 DEF Next

LEMMA Remembering == Spec => [](TypeOK /\ Remembered)
<1>1. Init => Remembered
    BY DEF Init, Remembered
<1> QED
    BY <1>1, InitType, StepType, StepRemembered, PTL DEF Spec

\* An approved plan restores the mode that enter_plan_mode found.
THEOREM Restored == Spec => ModeIsRestored
<1>1. ASSUME TypeOK, Remembered, [Next]_vars, mode = "plan", entered # "none", entered' = "none",
             turn # "idle"
      PROVE  mode' = entered
    <2> USE <1>1 DEF modeVars
    <2>1. ASSUME NEW k \in Slots, Applies(k) PROVE mode' = entered
        BY <2>1 DEF Applies, Applied, Remembered
    <2>2. CASE TurnBegins
        BY <2>2 DEF TurnBegins
    <2>3. ASSUME NEW k \in Slots, Proceeds(k) \/ Granted(k) \/ NotGranted(k), ~Applies(k)
          PROVE  UNCHANGED modeVars
        BY <2>3 DEF Proceeds, Refused, Decided, Runs, ToolFails, ToolSucceeds, Reported,
                    NotReported, Throws, Enters, Granted, NotGranted
    <2>4. CASE BatchEnds \/ Answer \/ TurnEnds \/ Abort \/ UNCHANGED vars
        BY <2>4 DEF BatchEnds, Answer, TurnEnds, Abort, vars
    <2> QED
        BY <2>1, <2>2, <2>3, <2>4 DEF Next
<1>2. TypeOK /\ Remembered /\ [Next]_vars =>
          [mode = "plan" /\ entered # "none" /\ entered' = "none" /\ turn # "idle" =>
               mode' = entered]_vars
    BY <1>1
<1> QED
    BY <1>2, Remembering, PTL DEF Spec, ModeIsRestored

\* An abort keeps the calls out that have not entered.
THEOREM Aborted == Spec => AbortLetsNoneIn
<1>1. ASSUME TypeOK, [Next]_vars, aborted, aborted', NEW i \in Slots, call'[i].pc = "hooked"
      PROVE  call[i].pc = "hooked"
    <2> USE <1>1
    <2>1. ASSUME NEW k \in Slots, Moves(k) PROVE call[i].pc = "hooked"
        BY <2>1 DEF Moves, IdleCall
    <2>2. ASSUME NEW k \in Slots, Throws(k) PROVE call[i].pc = "hooked"
        BY <2>2 DEF Throws, IdleCall, TypeOK, Calls
    <2>3. ASSUME NEW k \in Slots, Enters(k) PROVE call[i].pc = "hooked"
        BY <2>3 DEF Enters, Goes, Entered, TypeOK, Calls
    <2>4. ASSUME NEW k \in Slots, Applies(k) PROVE call[i].pc = "hooked"
        BY <2>4 DEF Applies, IdleCall, TypeOK, Calls
    <2>5. CASE BatchEnds
        BY <2>5 DEF BatchEnds, IdleCall, TypeOK, Calls
    <2>6. CASE Answer \/ TurnBegins
        BY <2>6 DEF Answer, TurnBegins
    <2> QED
        BY <2>1, <2>2, <2>3, <2>4, <2>5, <2>6, Steps
<1>2. TypeOK /\ [Next]_vars =>
          [aborted /\ aborted' =>
               \A i \in Slots : call'[i].pc = "hooked" => call[i].pc = "hooked"]_vars
    BY <1>1
<1> QED
    BY <1>2, Types, PTL DEF Spec, AbortLetsNoneIn

-----------------------------------------------------------------------------
(* Permissions *)

\* What was decided about a call still holds while it waits for its turn to run.
Permitted(i) ==
    /\ call[i].pc \in {"allowed", "running"} /\ call[i].mode = "plan" /\ Changes(call[i].tool) =>
           call[i].asked \/ call[i].tool \in session \cup Allows
    /\ call[i].pc \in {"prompting", "allowed", "running"} /\ ~call[i].left =>
           /\ rule[call[i].tool] # "policy"
           /\ rule[call[i].tool] = "deny" => call[i].tool \in session

LEMMA PlanDecision ==
    ASSUME NEW t, Decision(t, "plan") = "allow", Changes(t)
    PROVE  t \in session \cup Allows
BY DEF Decision, Finalized, ByTool, ByMode, Changes

LEMMA DenyDecision ==
    ASSUME NEW t, NEW m, Decision(t, m) # "deny"
    PROVE  rule[t] # "policy" /\ (rule[t] = "deny" => t \in session)
BY DEF Decision

LEMMA StepPermitted ==
    TypeOK /\ Settled /\ (\A i \in Slots : Permitted(i)) /\ [Next]_vars =>
        \A i \in Slots : Permitted(i)'
<1> SUFFICES ASSUME TypeOK, Settled, \A i \in Slots : Permitted(i), [Next]_vars, NEW i \in Slots
             PROVE  Permitted(i)'
    OBVIOUS
<1> USE DEF modeVars, ruleVars, turnVars
<1>0. call[i] \in Calls /\ call \in [Slots -> Calls]
    BY DEF TypeOK
<1>1. ASSUME call'[i] = call[i], rule' = rule, session \subseteq session' PROVE Permitted(i)'
    BY <1>1 DEF Permitted, Changes
<1>2. ASSUME call'[i].pc \notin {"prompting", "allowed", "running"} PROVE Permitted(i)'
    BY <1>2 DEF Permitted
<1>3. ASSUME NEW k \in Slots, Decided(k) PROVE Permitted(i)'
    <2>1. CASE k = i
        <3>1. call'[i].tool = call[i].tool /\ call'[i].mode = call[i].mode
                /\ call'[i].pc \in {"prompting", "allowed"} /\ UNCHANGED <<rule, session>>
            BY <1>3, <2>1, <1>0 DEF Decided, Goes, Calls
        <3>2. Decision(call[i].tool, call[i].mode) # "deny"
                /\ (call'[i].pc = "allowed" => Decision(call[i].tool, call[i].mode) = "allow")
            BY <1>3, <2>1, <1>0 DEF Decided, Goes, Calls
        <3> QED
            BY <3>1, <3>2, PlanDecision, DenyDecision DEF Permitted, Changes
    <2>2. CASE k # i
        BY <1>1, <1>3, <2>2, <1>0 DEF Decided, Goes
    <2> QED
        BY <2>1, <2>2
<1>4. ASSUME NEW k \in Slots, Granted(k) PROVE Permitted(i)'
    <2>1. rule' = rule /\ session \subseteq session'
        BY <1>4 DEF Granted
    <2>2. CASE k = i
        <3>1. /\ call[i].pc = "prompting" /\ call'[i].asked
              /\ call'[i].tool = call[i].tool /\ call'[i].left = call[i].left
            BY <1>4, <2>2, <1>0 DEF Granted, Calls
        <3> QED
            BY <2>1, <3>1 DEF Permitted
    <2>3. CASE k # i
        BY <1>1, <1>4, <2>1, <2>3, <1>0 DEF Granted
    <2> QED
        BY <2>2, <2>3
<1>5. ASSUME NEW k \in Slots, Runs(k) PROVE Permitted(i)'
    <2>1. CASE k = i
        <3>1. /\ call[i].pc = "allowed" /\ call'[i] = [call[i] EXCEPT !.pc = "running"]
              /\ UNCHANGED <<rule, session>>
            BY <1>5, <2>1, <1>0 DEF Runs, Goes
        <3> QED
            BY <3>1, <1>0 DEF Permitted, Changes, Calls
    <2>2. CASE k # i
        BY <1>1, <1>5, <2>2, <1>0 DEF Runs, Goes
    <2> QED
        BY <2>1, <2>2
<1>6. ASSUME NEW k \in Slots,
             \/ Refused(k) \/ NotGranted(k) \/ ToolFails(k) \/ ToolSucceeds(k) \/ Reported(k)
             \/ NotReported(k) \/ Enters(k)
      PROVE  Permitted(i)'
    <2>1. UNCHANGED <<rule, session>>
        BY <1>6 DEF Refused, NotGranted, ToolFails, ToolSucceeds, Reported, NotReported, Enters
    <2>2. k # i => call'[i] = call[i]
        BY <1>6, <1>0 DEF Refused, NotGranted, ToolFails, ToolSucceeds, Reported, NotReported, Enters,
                          Over, Goes
    <2>3. k = i => call'[i].pc \in {"idle", "done", "ran", "hooked"}
        <3>1. ASSUME NEW wants, Over(i, wants) PROVE call'[i].pc \in {"idle", "done"}
            BY <3>1, <1>0 DEF Over, IdleCall
        <3>2. ASSUME NEW pc, Goes(i, pc) PROVE call'[i].pc = pc
            BY <3>2, <1>0 DEF Goes, Calls
        <3>3. CASE Refused(i) \/ NotGranted(i) \/ ToolFails(i) \/ Reported(i) \/ NotReported(i)
            BY <3>1, <3>3 DEF Refused, NotGranted, ToolFails, Reported, NotReported
        <3>4. CASE Enters(i)
            BY <3>2, <3>4 DEF Enters, Entered
        <3>5. CASE ToolSucceeds(i)
            BY <3>2, <3>5, <1>0 DEF ToolSucceeds, Calls
        <3> QED
            BY <3>3, <3>4, <3>5, <1>6
    <2> QED
        BY <1>1, <1>2, <2>1, <2>2, <2>3
<1>7. ASSUME NEW k \in Slots, Throws(k) PROVE Permitted(i)'
    <2>1. UNCHANGED <<rule, session>>
        BY <1>7 DEF Throws
    <2>2. call'[i] = call[i] \/ call'[i] = IdleCall \/ call'[i] = [call[i] EXCEPT !.left = TRUE]
        BY <1>7, <1>0, Zenon DEF Throws
    <2> QED
        BY <1>1, <1>2, <1>0, <2>1, <2>2 DEF Permitted, Changes, Calls, IdleCall
<1>8. ASSUME NEW k \in Slots, Applies(k) PROVE Permitted(i)'
    <2>1. UNCHANGED <<rule, session>>
        BY <1>8 DEF Applies
    <2>2. call'[i] = call[i] \/ call'[i] = IdleCall
        BY <1>8, <1>0 DEF Applies
    <2> QED
        BY <1>1, <1>2, <2>1, <2>2 DEF IdleCall
<1>9. CASE BatchEnds
    <2>1. UNCHANGED <<rule, session>>
        BY <1>9 DEF BatchEnds
    <2>2. call'[i] = call[i] \/ call'[i] = IdleCall
        BY <1>9, <1>0 DEF BatchEnds
    <2> QED
        BY <1>1, <1>2, <2>1, <2>2 DEF IdleCall
<1>10. CASE Answer
    <2>1. PICK C \in SUBSET Slots : \E tool : call' = Handed(C, tool)
        BY <1>10 DEF Answer
    <2>2. call'[i] = call[i] \/ call'[i].pc \in {"done", "hooked", "queued"}
        <3>1. PICK tool : call' = Handed(C, tool)
            BY <2>1
        <3>2. FirstPhase(i, C, tool) \in {"done", "hooked", "queued"}
            BY DEF FirstPhase, Entered
        <3> QED
            BY <3>1, <3>2 DEF Handed, IdleCall
    <2>3. UNCHANGED <<rule, session>>
        BY <1>10 DEF Answer
    <2> QED
        BY <1>1, <1>2, <2>2, <2>3
<1>11. CASE TurnBegins
    <2>1. call' = call /\ session \subseteq session' /\ turn = "idle"
        BY <1>11 DEF TurnBegins
    <2>2. call[i].pc = "idle" \/ call[i].left
        BY <2>1 DEF Settled, Current
    <2> QED
        BY <2>1, <2>2 DEF Permitted, Changes
<1>12. CASE TurnEnds \/ Abort \/ UNCHANGED vars
    BY <1>1, <1>12 DEF TurnEnds, Abort, vars
<1> QED
    BY <1>3, <1>4, <1>5, <1>6, <1>7, <1>8, <1>9, <1>10, <1>11, <1>12 DEF Next, Proceeds

Decisions == TypeOK /\ Settled /\ Moded /\ \A i \in Slots : Permitted(i)

LEMMA Deciding == Spec => []Decisions
<1>1. Init => Decisions
    BY InitType, InitSettled DEF Init, Decisions, Moded, Permitted, Waiting, Current, IdleCall
<1>2. Decisions /\ [Next]_vars => Decisions'
    BY StepType, StepSettled, StepModed, StepPermitted DEF Decisions
<1> QED
    BY <1>1, <1>2, PTL DEF Spec

\* Plan mode keeps its promise for every call that was not granted.
THEOREM PlansReadOnly == Spec => []PlanModeReadsOnly
<1>1. Decisions => PlanModeReadsOnly
    BY DEF Decisions, PlanModeReadsOnly, Permitted, Executing
<1> QED
    BY <1>1, Deciding, PTL

\* What deny rules name does not run.
THEOREM DenyHolds == Spec => []DenyRulesHold
<1>1. Decisions => DenyRulesHold
    BY DEF Decisions, DenyRulesHold, Permitted, Executing
<1> QED
    BY <1>1, Deciding, PTL

\* The calls of an answer run in the mode of the session.
THEOREM ModeHolds == Spec => []ModeIsCurrent
<1>1. Decisions => ModeIsCurrent
    BY DEF Decisions, ModeIsCurrent, Moded, Executing, Waiting, Current
<1> QED
    BY <1>1, Deciding, PTL

\* No call runs that mode and rules forbid, for any tools, rules and grants.
THEOREM PermissionsAreKept == Spec => []PermissionsHold
<1>1. PlanModeReadsOnly /\ DenyRulesHold => PermissionsHold
    BY DEF PermissionsHold
<1> QED
    BY <1>1, PlansReadOnly, DenyHolds, PTL

\* Calls run one answer at a time, alone where they must, and in the mode of that answer.
THEOREM AnswersAreKept == Spec => []CallsKeepToTheirAnswer
<1>1. UnsafeRunsAlone /\ CallsEndWithAnswer /\ ModeIsCurrent => CallsKeepToTheirAnswer
    BY DEF CallsKeepToTheirAnswer
<1> QED
    BY <1>1, Alone, Ended, ModeHolds, PTL

-----------------------------------------------------------------------------
(* The todo list *)

Gates(i) ==
    gate \in {"init", "stale"} /\ ~torn /\ call[i].pc \in {"prompting", "allowed", "running"}
        /\ ~call[i].left /\ call[i].tool \notin ReadOnly => call[i].tool \in Safe

\* A call that changes the gate has no call beside it that the gate has let through and that
\* may not run beside others.
LEMMA GateChange ==
    ASSUME TypeOK, Settled, Ordered, ~torn, NEW i \in Slots, NEW k \in Slots, i # k,
           call[k].pc \in {"running", "ran"}, ~call[i].left,
           call[i].pc \in {"prompting", "allowed", "running"}
    PROVE  call[i].tool \in Safe
<1> SUFFICES ASSUME call[i].tool \notin Safe PROVE FALSE
    OBVIOUS
<1>1. Waiting(i) /\ call[i].pc # "queued"
    BY DEF Waiting, Current
<1>2. turn = "tools"
    BY <1>1 DEF Settled, Waiting, TypeOK
<1>3. Waiting(k)
    BY <1>2 DEF Settled, Waiting, Current
<1> QED
    BY <1>1, <1>3 DEF Ordered

LEMMA StepGates ==
    TypeOK /\ Settled /\ Ordered /\ (\A i \in Slots : Gates(i)) /\ [Next]_vars =>
        \A i \in Slots : Gates(i)'
<1> SUFFICES ASSUME TypeOK, Settled, Ordered, \A i \in Slots : Gates(i), [Next]_vars,
                    NEW i \in Slots
             PROVE  Gates(i)'
    OBVIOUS
<1> USE DEF modeVars, ruleVars, turnVars
<1>0. call[i] \in Calls /\ call \in [Slots -> Calls]
    BY DEF TypeOK
<1>1. ASSUME call'[i] = call[i], UNCHANGED <<gate, torn>> PROVE Gates(i)'
    BY <1>1 DEF Gates
<1>2. ASSUME call'[i].pc \notin {"prompting", "allowed", "running"} PROVE Gates(i)'
    BY <1>2 DEF Gates
<1>3. ASSUME NEW k \in Slots, Decided(k) \/ Granted(k) \/ Runs(k) PROVE Gates(i)'
    <2>1. UNCHANGED <<gate, torn>> /\ (k # i => call'[i] = call[i])
        BY <1>3, <1>0 DEF Decided, Granted, Runs, Goes
    <2>2. CASE k # i
        BY <1>1, <2>1, <2>2
    <2>3. CASE k = i /\ Decided(i)
        <3>1. ~Gated(i) /\ call'[i].tool = call[i].tool
            BY <2>3, <1>0 DEF Decided, Goes, Calls
        <3> QED
            BY <2>1, <3>1 DEF Gates, Gated
    <2>4. CASE k = i /\ (Granted(i) \/ Runs(i))
        <3>1. /\ call[i].pc \in {"prompting", "allowed"}
              /\ call'[i].tool = call[i].tool /\ call'[i].left = call[i].left
            BY <2>4, <1>0 DEF Granted, Runs, Goes, Calls
        <3> QED
            BY <2>1, <3>1 DEF Gates
    <2> QED
        BY <1>3, <2>2, <2>3, <2>4
<1>4. ASSUME NEW k \in Slots, ToolSucceeds(k) \/ Reported(k) PROVE Gates(i)'
    <2>1. torn' = torn /\ call[k].pc \in {"running", "ran"}
        BY <1>4 DEF ToolSucceeds, Reported
    <2>2. CASE k = i
        <3>1. CASE Reported(i)
            <4>1. PICK wants : Over(i, wants)
                BY <3>1 DEF Reported
            <4> QED
                BY <1>2, <4>1, <1>0 DEF Over, IdleCall
        <3>2. CASE ToolSucceeds(i)
            <4>1. Goes(i, "ran") \/ \E wants : call' = [call EXCEPT ![i].pc = "ran", ![i].wants = wants]
                BY <3>2 DEF ToolSucceeds
            <4>2. call'[i].pc = "ran"
                BY <4>1, <1>0 DEF Goes, Calls
            <4> QED
                BY <1>2, <4>2
        <3> QED
            BY <1>4, <2>2, <3>1, <3>2
    <2>3. CASE k # i
        <3>1. call'[i] = call[i]
            BY <1>4, <2>3, <1>0 DEF ToolSucceeds, Reported, Over, Goes
        <3> QED
            BY <2>1, <2>3, <3>1, GateChange DEF Gates
    <2> QED
        BY <2>2, <2>3
<1>5. ASSUME NEW k \in Slots,
             Refused(k) \/ NotGranted(k) \/ ToolFails(k) \/ NotReported(k) \/ Enters(k)
      PROVE  Gates(i)'
    <2>1. UNCHANGED <<gate, torn>> /\ (k # i => call'[i] = call[i])
        BY <1>5, <1>0 DEF Refused, NotGranted, ToolFails, NotReported, Enters, Over, Goes
    <2>2. CASE k = i /\ Enters(i)
        <3>1. call'[i].pc \in {"hooked", "done"}
            BY <2>2, <1>0 DEF Enters, Goes, Entered, Calls
        <3> QED
            BY <1>2, <3>1
    <2>3. CASE k = i /\ ~Enters(i)
        <3>1. Over(i, "none")
            BY <1>5, <2>3 DEF Refused, NotGranted, ToolFails, NotReported
        <3>2. call'[i].pc \in {"idle", "done"}
            BY <3>1, <1>0 DEF Over, IdleCall
        <3> QED
            BY <1>2, <3>2
    <2> QED
        BY <1>1, <2>1, <2>2, <2>3
<1>6. ASSUME NEW k \in Slots, Throws(k) PROVE Gates(i)'
    <2>1. UNCHANGED <<gate, torn>>
        BY <1>6 DEF Throws
    <2>2. call'[i] = call[i] \/ call'[i] = IdleCall \/ call'[i] = [call[i] EXCEPT !.left = TRUE]
        BY <1>6, <1>0, Zenon DEF Throws
    <2> QED
        BY <1>1, <1>2, <1>0, <2>1, <2>2 DEF Gates, Calls, IdleCall
<1>7. ASSUME (\E k \in Slots : Applies(k)) \/ BatchEnds PROVE Gates(i)'
    <2>1. UNCHANGED <<gate, torn>>
        BY <1>7 DEF Applies, BatchEnds
    <2>2. call'[i] = call[i] \/ call'[i] = IdleCall
        BY <1>7, <1>0 DEF Applies, BatchEnds
    <2> QED
        BY <1>1, <1>2, <2>1, <2>2 DEF IdleCall
<1>8. CASE Answer
    <2>1. PICK C \in SUBSET Slots : \E tool : call' = Handed(C, tool)
        BY <1>8 DEF Answer
    <2>2. PICK tool : call' = Handed(C, tool)
        BY <2>1
    <2>3. CASE i \in C
        <3>1. FirstPhase(i, C, tool) \in {"done", "hooked", "queued"}
            BY DEF FirstPhase, Entered
        <3>2. call'[i].pc = FirstPhase(i, C, tool)
            BY <2>2, <2>3 DEF Handed, IdleCall
        <3> QED
            BY <1>2, <3>1, <3>2
    <2>4. CASE i \notin C
        <3>1. call'[i] = call[i]
            BY <2>2, <2>4 DEF Handed
        <3>2. call[i].pc = "idle" \/ call[i].left
            BY <1>8 DEF Answer, Settled, Current
        <3> QED
            BY <3>1, <3>2 DEF Gates
    <2> QED
        BY <2>3, <2>4
<1>9. CASE TurnBegins
    BY <1>1, <1>9 DEF TurnBegins
<1>10. CASE TurnEnds \/ Abort \/ UNCHANGED vars
    <2>1. call' = call /\ UNCHANGED <<gate, torn>>
        BY <1>10 DEF TurnEnds, Abort, vars
    <2> QED
        BY <1>1, <2>1
<1> QED
    BY <1>3, <1>4, <1>5, <1>6, <1>7, <1>8, <1>9, <1>10 DEF Next, Proceeds

\* While the todo list is missing or stale, nothing that makes progress is at work.
THEOREM TodoKept == Spec => []TodoListIsKept
<1> DEFINE I == TypeOK /\ Settled /\ Ordered /\ \A i \in Slots : Gates(i)
<1>1. Init => I
    BY InitType, InitSettled DEF Init, Gates, IdleCall
<1>2. I /\ [Next]_vars => I'
    BY StepType, StepSettled, StepOrdered, StepGates
<1>3. I => TodoListIsKept
    BY DEF TodoListIsKept, Gates, Executing
<1> HIDE DEF I
<1> QED
    BY <1>1, <1>2, <1>3, PTL DEF Spec
=============================================================================
