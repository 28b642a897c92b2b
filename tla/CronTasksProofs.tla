--------------------------- MODULE CronTasksProofs ---------------------------
(***************************************************************************)
(* Proofs about CronTasks, for any tasks, runs, ticks and calls.  The task *)
(* file is followed through its whole-file writes: as long as no update    *)
(* was lost, a write changes one entry (WritesOne).  Timers and ticks of   *)
(* a scheduler are counted, and runs by the slots they hold.               *)
(***************************************************************************)
EXTENDS CronTasks, FiniteSetTheorems, TLAPS

-----------------------------------------------------------------------------
(* Types *)

LEMMA TaskTypes ==
    /\ AnyTask \in Tasks /\ 1 \in 1..Generations
    /\ IdleTick \in TickStates /\ FreeRun \in RunStates /\ IdleCall \in CallStates
<1>1. AnyTask \in Tasks
    BY CronAssumption DEF AnyTask
<1>2. 1 \in 1..Generations
    BY CronAssumption
<1> QED
    BY <1>1, <1>2 DEF IdleTick, FreeRun, IdleCall, TickStates, RunStates, CallStates, RunPhases

LEMMA ReadType ==
    ASSUME TypeOK, NEW a \in Actors, Read(a)
    PROVE  snap' \in [Actors -> Files \cup {NoFile}]
BY DEF TypeOK, Read

LEMMA EntryType ==
    ASSUME TypeOK, NEW a \in Actors, snap[a] # NoFile, NEW t \in Tasks, NEW e \in Entries \cup {"none"}
    PROVE  [snap[a] EXCEPT ![t] = e] \in Files
BY DEF TypeOK, Files

LEMMA WritesType ==
    ASSUME TypeOK, NEW a \in Actors, NEW new, snap[a] # NoFile => new \in Files, Writes(a, new)
    PROVE  /\ snap' \in [Actors -> Files \cup {NoFile}] /\ file' \in Files
           /\ disturbed' \in BOOLEAN
<1>1. [t \in Tasks |-> "none"] \in Files
    BY DEF Files
<1>2. snap' \in [Actors -> Files \cup {NoFile}] /\ snap[a] # NoFile
    BY DEF TypeOK, Writes
<1> QED
    BY <1>1, <1>2 DEF TypeOK, Writes, Rename, Tear

LEMMA RejectedType ==
    ASSUME TypeOK, NEW a \in Actors, Rejected(a)
    PROVE  /\ snap' \in [Actors -> Files \cup {NoFile}] /\ file' \in Files
           /\ disturbed' \in BOOLEAN
BY DEF TypeOK, Rejected

LEMMA GoneType ==
    ASSUME TypeOK, NEW t \in Tasks, promise' = Gone(t)
    PROVE  promise' \in [Tasks -> {"unused", "open", "kept", "gone"}]
BY DEF TypeOK, Gone

TimerType ==
    /\ timer \in BOOLEAN /\ lost \in [1..Generations -> Nat]
    /\ doubled \subseteq 1..Generations /\ tip \in Ticks \cup {NoTick}

LEMMA ScheduleType ==
    ASSUME TypeOK, NEW others, ScheduleNextTick(others)
    PROVE  timer' \in BOOLEAN /\ lost' \in [1..Generations -> Nat] /\ doubled' \subseteq 1..Generations
<1>1. [lost EXCEPT ![gen] = @ + 1] \in [1..Generations -> Nat]
    BY DEF TypeOK
<1> QED
    BY <1>1 DEF TypeOK, ScheduleNextTick

LEMMA PokeType ==
    ASSUME TypeOK, Poke
    PROVE  timer' \in BOOLEAN /\ lost' \in [1..Generations -> Nat] /\ doubled' \subseteq 1..Generations
BY DEF TypeOK, Poke

LEMMA BeginsType ==
    ASSUME TypeOK, NEW g \in 1..Generations, Begins(g)
    PROVE  tick' \in [Ticks -> TickStates] /\ tip' \in Ticks \cup {NoTick}
<1>1. PICK k \in Ticks :
          /\ tick' = [tick EXCEPT ![k] = [IdleTick EXCEPT !.pc = "loop", !.gen = g,
                                              !.list = {t \in Tasks : file[t] = "due"}]]
          /\ tip' = IF g = gen /\ Scheduling THEN k ELSE tip
    BY DEF Begins
<1>2. [IdleTick EXCEPT !.pc = "loop", !.gen = g, !.list = {t \in Tasks : file[t] = "due"}]
          \in TickStates
    BY TaskTypes DEF TickStates
<1> QED
    BY <1>1, <1>2 DEF TypeOK

LEMMA TickEndsType ==
    ASSUME TypeOK, NEW k \in Ticks, TickEnds(k)
    PROVE  tick' \in [Ticks -> TickStates] /\ TimerType'
<1>1. tick' \in [Ticks -> TickStates] /\ tip' \in Ticks \cup {NoTick}
    BY TaskTypes DEF TickEnds, TypeOK
<1>2. ASSUME NEW others, ScheduleNextTick(others) PROVE TimerType'
    BY <1>1, <1>2, ScheduleType DEF TimerType
<1>3. CASE UNCHANGED <<timer, lost, doubled>>
    BY <1>1, <1>3 DEF TypeOK, TimerType
<1> QED
    BY <1>1, <1>2, <1>3 DEF TickEnds

LEMMA StartsType ==
    ASSUME TypeOK, NEW k \in Ticks, NEW S, Starts(k, S)
    PROVE  run' \in [Runs -> RunStates] /\ active' \subseteq Runs
<1>1. S \subseteq Tasks /\ tick[k].gen \in 1..Generations
    BY DEF TypeOK, TickStates, Starts
<1>2. PICK new \in [S -> Free] :
          /\ active' = active \cup {new[t] : t \in S}
          /\ run' = [r \in Runs |->
                IF \E t \in S : new[t] = r
                THEN [pc |-> "marking", gen |-> tick[k].gen, task |-> CHOOSE t \in S : new[t] = r]
                ELSE run[r]]
    BY DEF Starts
<1>3. \A t \in S : new[t] \in Runs
    BY DEF Free
<1>4. ASSUME NEW r \in Runs, \E t \in S : new[t] = r
      PROVE  [pc |-> "marking", gen |-> tick[k].gen, task |-> CHOOSE t \in S : new[t] = r] \in RunStates
    BY <1>1, <1>4 DEF RunStates, RunPhases
<1> QED
    BY <1>2, <1>3, <1>4 DEF TypeOK

LEMMA CallType ==
    ASSUME TypeOK, NEW c \in Calls
    PROVE  /\ \A pc \in {"idle", "aborting", "store"},
                  op \in {"none", "create", "delete", "stop", "stopDelete"}, t \in Tasks :
                  [call EXCEPT ![c] = [pc |-> pc, op |-> op, task |-> t]] \in [Calls -> CallStates]
           /\ call[c].task \in Tasks
           /\ \A r \in CallStates : [call EXCEPT ![c] = r] \in [Calls -> CallStates]
           /\ \A pc \in {"idle", "aborting", "store"},
                 op \in {"none", "create", "delete", "stop", "stopDelete"} :
                  [call[c] EXCEPT !.pc = pc, !.op = op] \in CallStates
BY DEF TypeOK, CallStates

LEMMA StopReturnsType ==
    ASSUME TypeOK, NEW c \in Calls, StopReturns(c)
    PROVE  call' \in [Calls -> CallStates]
<1>1. [call[c] EXCEPT !.pc = "aborting", !.op = "delete"] \in CallStates
    BY CallType
<1> QED
    BY <1>1, TaskTypes DEF TypeOK, StopReturns

LEMMA InitType == Init => TypeOK
<1> SUFFICES ASSUME Init PROVE TypeOK
    OBVIOUS
<1>1. promise \in [Tasks -> {"unused", "open", "kept", "gone"}]
    BY DEF Init
<1>2. gen \in 1..Generations /\ lost \in [1..Generations -> Nat]
    BY TaskTypes DEF Init
<1> QED
    BY <1>1, <1>2, TaskTypes DEF Init, TypeOK, Phases

LEMMA StartsTyped == ASSUME TypeOK, StartSteps PROVE TypeOK'
<1>0. \A t \in Tasks : t \in Actors
    BY DEF Actors
<1> USE DEF storeVars, timerVars, schedulerVars
<1>1. CASE ListAll
    <2>1. boot' \in [Tasks -> {"none", "running", "never"}]
        BY <1>1 DEF ListAll, TypeOK
    <2> QED
        BY <1>1, <2>1 DEF ListAll, TypeOK, Phases
<1>2. CASE Started
    BY <1>2, ScheduleType DEF Started, TypeOK, Phases
<1>3. ASSUME NEW t \in Tasks, BootRead(t) PROVE TypeOK'
    BY <1>0, <1>3, ReadType DEF BootRead, TypeOK
<1>4. ASSUME NEW t \in Tasks, BootWrite(t) PROVE TypeOK'
    <2>1. PICK e \in {"due", "later", "never"} : Writes(t, [snap[t] EXCEPT ![t] = e])
        BY <1>4 DEF BootWrite
    <2>2. snap[t] # NoFile => [snap[t] EXCEPT ![t] = e] \in Files
        BY <1>0, EntryType DEF Entries
    <2>3. /\ snap' \in [Actors -> Files \cup {NoFile}] /\ file' \in Files
          /\ disturbed' \in BOOLEAN
        BY <1>0, <2>1, <2>2, WritesType
    <2> QED
        BY <1>4, <2>3 DEF BootWrite, TypeOK
<1>5. ASSUME NEW t \in Tasks, BootRejected(t) PROVE TypeOK'
    BY <1>0, <1>5, RejectedType DEF BootRejected, TypeOK, Phases
<1> QED
    BY <1>1, <1>2, <1>3, <1>4, <1>5 DEF StartSteps

LEMMA TimersTyped == ASSUME TypeOK, TimerSteps PROVE TypeOK'
<1> USE DEF storeVars, timerVars, schedulerVars
<1>1. CASE Fires
    BY <1>1, BeginsType DEF Fires, TypeOK
<1>2. ASSUME NEW g \in 1..Generations, FiresLost(g) PROVE TypeOK'
    <2>1. lost[g] \in Nat /\ lost[g] > 0
        BY <1>2 DEF FiresLost, TypeOK
    <2>2. [lost EXCEPT ![g] = @ - 1] \in [1..Generations -> Nat]
        BY <2>1 DEF TypeOK
    <2>3. timer' \in BOOLEAN /\ lost' \in [1..Generations -> Nat]
        BY <1>2, <2>2 DEF FiresLost, TypeOK
    <2> QED
        BY <1>2, <2>3, BeginsType DEF FiresLost, TypeOK
<1> QED
    BY <1>1, <1>2 DEF TimerSteps

LEMMA TicksTyped == ASSUME TypeOK, NEW k \in Ticks, TickSteps(k) PROVE TypeOK'
<1>0. k \in Actors /\ tick[k].task \in Tasks /\ tick[k].list \subseteq Tasks /\ tick[k] \in TickStates
    BY DEF Actors, TypeOK, TickStates
<1> USE DEF storeVars, timerVars, schedulerVars
<1>1. CASE TickLoop(k)
    <2>1. PICK S \in SUBSET tick[k].list :
             /\ Starts(k, S)
             /\ \/ TickEnds(k)
                \/ \E t \in tick[k].list \ S :
                     /\ tick' = [tick EXCEPT ![k].pc = "delay", ![k].task = t, ![k].list = @ \ S]
                     /\ UNCHANGED timerVars
        BY <1>1 DEF TickLoop
    <2>2. tick' \in [Ticks -> TickStates] /\ TimerType'
        <3>1. CASE TickEnds(k)
            BY <3>1, TickEndsType
        <3>2. ASSUME NEW t \in tick[k].list \ S,
                     tick' = [tick EXCEPT ![k].pc = "delay", ![k].task = t, ![k].list = @ \ S],
                     UNCHANGED timerVars
              PROVE  tick' \in [Ticks -> TickStates] /\ TimerType'
            <4>1. [tick[k] EXCEPT !.pc = "delay", !.task = t, !.list = @ \ S] \in TickStates
                BY <1>0 DEF TickStates
            <4> QED
                BY <3>2, <4>1 DEF TypeOK, TimerType
        <3> QED
            BY <2>1, <3>1, <3>2
    <2> QED
        BY <1>1, <2>1, <2>2, StartsType DEF TickLoop, TypeOK, TimerType
<1>2. CASE DelayReads(k)
    BY <1>0, <1>2, ReadType DEF DelayReads, TypeOK
<1>3. CASE DelayWrites(k)
    <2>1. snap[k] # NoFile => [snap[k] EXCEPT ![tick[k].task] = "later"] \in Files
        BY <1>0, EntryType DEF Entries
    <2>2. /\ snap' \in [Actors -> Files \cup {NoFile}] /\ file' \in Files
          /\ disturbed' \in BOOLEAN
        BY <1>0, <1>3, <2>1, WritesType DEF DelayWrites
    <2>3. [tick[k] EXCEPT !.pc = "loop", !.list = @ \ {tick[k].task}] \in TickStates
        BY <1>0 DEF TickStates
    <2>4. tick' \in [Ticks -> TickStates]
        BY <1>3, <2>3 DEF DelayWrites, TypeOK
    <2> QED
        BY <1>3, <2>2, <2>4 DEF DelayWrites, TypeOK
<1>4. CASE DelayRejected(k)
    BY <1>0, <1>4, RejectedType, TickEndsType DEF DelayRejected, TypeOK, TimerType
<1> QED
    BY <1>1, <1>2, <1>3, <1>4 DEF TickSteps

LEMMA RunsTyped == ASSUME TypeOK, NEW r \in Runs, RunSteps(r) PROVE TypeOK'
<1>0. r \in Actors /\ run[r].task \in Tasks
    BY DEF Actors, TypeOK, RunStates
<1>1. /\ \A pc \in RunPhases : [run EXCEPT ![r].pc = pc] \in [Runs -> RunStates]
      /\ [run EXCEPT ![r] = FreeRun] \in [Runs -> RunStates]
    BY TaskTypes DEF TypeOK, RunStates
<1>2. ASSUME NEW e \in Entries \cup {"none"}, Writes(r, [snap[r] EXCEPT ![run[r].task] = e])
      PROVE  /\ snap' \in [Actors -> Files \cup {NoFile}] /\ file' \in Files
             /\ disturbed' \in BOOLEAN
    BY <1>0, <1>2, EntryType, WritesType
<1> USE DEF storeVars, timerVars, schedulerVars
<1>3. CASE MarkReads(r) \/ Recorded(r)
    <2>1. snap' \in [Actors -> Files \cup {NoFile}]
        BY <1>0, <1>3, ReadType DEF MarkReads, Recorded
    <2>2. run' \in [Runs -> RunStates]
        BY <1>1, <1>3 DEF MarkReads, Recorded, RunPhases, TypeOK
    <2> QED
        BY <1>3, <2>1, <2>2 DEF MarkReads, Recorded, TypeOK
<1>4. CASE Marks(r)
    BY <1>1, <1>2, <1>4 DEF Marks, TypeOK, RunPhases, Entries
<1>5. CASE MarkRejected(r) \/ SettleRejected(r)
    <2>1. run' \in [Runs -> RunStates]
        BY <1>1, <1>5 DEF MarkRejected, SettleRejected, RunPhases
    <2> QED
        BY <1>0, <1>5, <2>1, RejectedType DEF MarkRejected, SettleRejected, TypeOK
<1>6. CASE TurnEnds(r)
    BY <1>1, <1>6 DEF TurnEnds, TypeOK, RunPhases
<1>7. CASE RecordedOnly(r) \/ RecordRejected(r)
    <2>1. run' \in [Runs -> RunStates] /\ disturbed' \in BOOLEAN
        BY <1>1, <1>7 DEF RecordedOnly, RecordRejected, TypeOK
    <2> QED
        BY <1>7, <2>1 DEF RecordedOnly, RecordRejected, TypeOK
<1>8. CASE SettlesRecurring(r)
    <2>1. \E e \in Entries \cup {"none"} : Writes(r, [snap[r] EXCEPT ![run[r].task] = e])
        BY <1>8 DEF SettlesRecurring, NextEntries, Entries
    <2> QED
        BY <1>1, <1>2, <1>8, <2>1 DEF SettlesRecurring, TypeOK
<1>9. CASE SettlesOnce(r)
    <2>1. /\ snap' \in [Actors -> Files \cup {NoFile}] /\ file' \in Files
          /\ disturbed' \in BOOLEAN
        BY <1>2, <1>9 DEF SettlesOnce
    <2>2. promise' \in [Tasks -> {"unused", "open", "kept", "gone"}]
        BY <1>0, <1>9, GoneType DEF SettlesOnce
    <2> QED
        BY <1>1, <1>9, <2>1, <2>2 DEF SettlesOnce, TypeOK
<1> QED
    BY <1>3, <1>4, <1>5, <1>6, <1>7, <1>8, <1>9 DEF RunSteps

LEMMA BeginsTyped == ASSUME TypeOK, NEW c \in Calls, CallBegins(c) PROVE TypeOK'
<1>0. c \in Actors
    BY DEF Actors
<1>1. ASSUME NEW pc \in {"aborting", "store"}, NEW op \in {"create", "delete", "stop", "stopDelete"},
             NEW t \in Tasks, Begin(c, pc, op, t)
      PROVE  call' \in [Calls -> CallStates]
    BY <1>1, CallType DEF Begin
<1> USE DEF storeVars, timerVars, schedulerVars
<1>2. ASSUME NEW t \in Tasks, CreateCalled(c, t) PROVE TypeOK'
    <2>1. call' \in [Calls -> CallStates] /\ snap' \in [Actors -> Files \cup {NoFile}]
        BY <1>0, <1>1, <1>2, ReadType DEF CreateCalled
    <2>2. promise' \in [Tasks -> {"unused", "open", "kept", "gone"}]
        BY <1>2 DEF CreateCalled, TypeOK
    <2> QED
        BY <1>2, <2>1, <2>2 DEF CreateCalled, TypeOK
<1>3. ASSUME NEW t \in Tasks, RunNowCalled(c, t) PROVE TypeOK'
    BY <1>2, <1>3 DEF RunNowCalled
<1>4. ASSUME NEW t \in Tasks, StopCalled(c, t) PROVE TypeOK'
    BY <1>1, <1>4 DEF StopCalled, TypeOK
<1>5. ASSUME NEW t \in Tasks, DeleteCalled(c, t) PROVE TypeOK'
    BY <1>0, <1>1, <1>5, ReadType DEF DeleteCalled, TypeOK
<1>6. ASSUME NEW t \in Tasks, DeleteMisses(c, t) PROVE TypeOK'
    BY <1>6, PokeType DEF DeleteMisses, TypeOK
<1> QED
    BY <1>2, <1>3, <1>4, <1>5, <1>6 DEF CallBegins

LEMMA CallsTyped == ASSUME TypeOK, NEW c \in Calls, CallSteps(c) PROVE TypeOK'
<1>0. c \in Actors /\ call[c].task \in Tasks
    BY CallType DEF Actors
<1>1. ASSUME NEW e \in Entries \cup {"none"}, Writes(c, [snap[c] EXCEPT ![call[c].task] = e])
      PROVE  /\ snap' \in [Actors -> Files \cup {NoFile}] /\ file' \in Files
             /\ disturbed' \in BOOLEAN
    BY <1>0, <1>1, EntryType, WritesType
<1>2. Ends(c) => call' \in [Calls -> CallStates]
    BY TaskTypes DEF Ends, TypeOK
<1> USE DEF storeVars, timerVars, schedulerVars
<1>3. CASE Aborted(c)
    <2>1. call' \in [Calls -> CallStates]
        <3>1. \A op \in {"delete", call[c].op} :
                  [call[c] EXCEPT !.pc = "store", !.op = op] \in CallStates
            BY DEF TypeOK, CallStates
        <3>2. \E op \in {"delete", call[c].op} :
                  call' = [call EXCEPT ![c] = [@ EXCEPT !.pc = "store", !.op = op]]
            BY <1>3 DEF Aborted, TypeOK
        <3> QED
            BY <3>1, <3>2 DEF TypeOK
    <2>2. timer' \in BOOLEAN /\ lost' \in [1..Generations -> Nat] /\ doubled' \subseteq 1..Generations
        <3>1. Poke \/ UNCHANGED <<timer, lost, doubled>>
            BY <1>3 DEF Aborted
        <3> QED
            BY <3>1, PokeType DEF TypeOK
    <2>3. snap' \in [Actors -> Files \cup {NoFile}]
        BY <1>0, <1>3, ReadType DEF Aborted
    <2> QED
        BY <1>3, <2>1, <2>2, <2>3 DEF Aborted, TypeOK
<1>4. CASE AbortedOnly(c)
    BY <1>4, StopReturnsType, PokeType DEF AbortedOnly, StopReturns, TypeOK
<1>5. CASE Creates(c)
    <2>1. /\ snap' \in [Actors -> Files \cup {NoFile}] /\ file' \in Files
          /\ disturbed' \in BOOLEAN
        BY <1>1, <1>5 DEF Creates, Entries
    <2>2. promise' \in [Tasks -> {"unused", "open", "kept", "gone"}]
        BY <1>0, <1>5 DEF Creates, TypeOK
    <2> QED
        BY <1>2, <1>5, <2>1, <2>2, PokeType DEF Creates, TypeOK
<1>6. CASE Deletes(c)
    <2>1. /\ snap' \in [Actors -> Files \cup {NoFile}] /\ file' \in Files
          /\ disturbed' \in BOOLEAN
        BY <1>1, <1>6 DEF Deletes
    <2>2. promise' \in [Tasks -> {"unused", "open", "kept", "gone"}]
        BY <1>0, <1>6, GoneType DEF Deletes
    <2> QED
        BY <1>6, <2>1, <2>2, StopReturnsType, PokeType DEF Deletes, StopReturns, TypeOK
<1>7. CASE CallRejected(c)
    BY <1>0, <1>2, <1>7, RejectedType DEF CallRejected, TypeOK
<1> QED
    BY <1>3, <1>4, <1>5, <1>6, <1>7 DEF CallSteps

\* A runtime is stopped only for the next one.
Replaceable == phase \in {"stopping", "stopped"} => gen < Generations

LEMMA OthersTyped ==
    ASSUME TypeOK, Replaceable, Stop \/ Stopped \/ Rebuild \/ \E t \in Tasks : TimePasses(t)
    PROVE  TypeOK'
<1> USE DEF storeVars, timerVars, schedulerVars, Phases
<1>1. CASE Stop \/ Stopped
    BY <1>1 DEF Stop, Stopped, TypeOK
<1>2. CASE Rebuild
    <2>1. gen' \in 1..Generations
        BY <1>2, CronAssumption DEF Rebuild, Replaceable, TypeOK
    <2> QED
        BY <1>2, <2>1 DEF Rebuild, TypeOK
<1>3. ASSUME NEW t \in Tasks, TimePasses(t) PROVE TypeOK'
    <2>1. file' \in Files
        BY <1>3 DEF TimePasses, TypeOK, Files, Entries
    <2> QED
        BY <1>3, <2>1 DEF TimePasses, TypeOK
<1> QED
    BY <1>1, <1>2, <1>3

LEMMA StepType == TypeOK /\ Replaceable /\ [Next]_vars => TypeOK'
<1> SUFFICES ASSUME TypeOK, Replaceable, [Next]_vars PROVE TypeOK'
    OBVIOUS
<1>1. CASE UNCHANGED vars
    BY <1>1 DEF TypeOK, vars, storeVars, timerVars, schedulerVars
<1>2. CASE Next
    BY <1>2, StartsTyped, TimersTyped, TicksTyped, RunsTyped, BeginsTyped, CallsTyped, OthersTyped
    DEF Next
<1> QED
    BY <1>1, <1>2

\* What a step does to the phase and the number of the runtime.
Advances ==
    \/ UNCHANGED <<phase, gen>>
    \/ /\ gen' = gen
       /\ \/ phase = "starting" /\ phase' = "resetting"
          \/ phase = "resetting" /\ phase' \in {"up", "failed"}
          \/ phase \in {"up", "failed"} /\ phase' = "stopping" /\ gen < Generations /\ timer' = FALSE
          \/ phase = "stopping" /\ phase' = "stopped" /\ tip = NoTick
    \/ /\ phase = "stopped" /\ phase' = "starting" /\ gen' = gen + 1
       /\ \A t \in Tasks : boot[t] = "none"

LEMMA StepAdvances == [Next]_vars => Advances
<1> SUFFICES ASSUME [Next]_vars PROVE Advances
    OBVIOUS
<1> USE DEF vars, storeVars, timerVars, schedulerVars
<1>1. ASSUME StartSteps PROVE Advances
    BY <1>1 DEF StartSteps, ListAll, Started, BootRead, BootWrite, BootRejected, Advances
<1>2. ASSUME TimerSteps PROVE UNCHANGED <<phase, gen>>
    BY <1>2 DEF TimerSteps, Fires, FiresLost
<1>3. ASSUME NEW k \in Ticks, TickSteps(k) PROVE UNCHANGED <<phase, gen>>
    BY <1>3 DEF TickSteps, TickLoop, DelayReads, DelayWrites, DelayRejected
<1>4. ASSUME NEW r \in Runs, RunSteps(r) PROVE UNCHANGED <<phase, gen>>
    BY <1>4 DEF RunSteps, MarkReads, Marks, MarkRejected, TurnEnds, Recorded, RecordedOnly,
                RecordRejected, SettlesRecurring, SettlesOnce, SettleRejected
<1>5. ASSUME NEW c \in Calls, CallBegins(c) \/ CallSteps(c) PROVE UNCHANGED <<phase, gen>>
    BY <1>5 DEF CallBegins, CreateCalled, RunNowCalled, StopCalled, DeleteCalled, DeleteMisses,
                CallSteps, Aborted, AbortedOnly, Creates, Deletes, CallRejected
<1>6. CASE Stop \/ Stopped \/ Rebuild \/ \E t \in Tasks : TimePasses(t)
    BY <1>6 DEF Stop, Stopped, Rebuild, TimePasses, Advances
<1> QED
    BY <1>1, <1>2, <1>3, <1>4, <1>5, <1>6 DEF Next, Advances

LEMMA StepReplaceable == Replaceable /\ [Next]_vars => Replaceable'
BY StepAdvances DEF Advances, Replaceable

\* The task file, the scheduler, its ticks, runs and calls keep their types.
THEOREM TypeCorrect == Spec => []TypeOK
<1>1. Init => TypeOK /\ Replaceable
    BY InitType DEF Init, Replaceable
<1>2. TypeOK /\ Replaceable /\ [Next]_vars => (TypeOK /\ Replaceable)'
    BY StepType, StepReplaceable
<1> QED
    BY <1>1, <1>2, PTL DEF Spec

-----------------------------------------------------------------------------
(* Runs and their slots *)

\* What the loop of a tick starts: distinct runs that were free, one for each task.
LEMMA StartsRuns ==
    ASSUME TypeOK, NEW k \in Ticks, NEW S, Starts(k, S)
    PROVE  \E N \in SUBSET Free :
              /\ IsFiniteSet(N) /\ Cardinality(N) <= Slots(tick[k].gen)
              /\ active' = active \cup N
              /\ \A r \in Runs \ N : run'[r] = run[r]
              /\ \A r \in N : /\ run'[r].pc = "marking" /\ run'[r].gen = tick[k].gen
                              /\ run'[r].task \in tick[k].list
<1>1. PICK new \in [S -> Free] :
          /\ active' = active \cup {new[t] : t \in S}
          /\ run' = [r \in Runs |->
                IF \E t \in S : new[t] = r
                THEN [pc |-> "marking", gen |-> tick[k].gen, task |-> CHOOSE t \in S : new[t] = r]
                ELSE run[r]]
    BY DEF Starts
<1> DEFINE N == {new[t] : t \in S}
<1>2. N \in SUBSET Free /\ Free \subseteq Runs
    BY DEF Free
<1>3. S \subseteq tick[k].list /\ tick[k].list \subseteq Tasks
    BY DEF Starts, TypeOK, TickStates
<1>4. /\ IsFiniteSet(S) /\ IsFiniteSet(tick[k].list)
      /\ Cardinality(S) \in Nat /\ Cardinality(tick[k].list) \in Nat
    BY <1>3, FS_Subset, FS_CardinalityType, CronAssumption
<1>5. /\ IsFiniteSet(Active(tick[k].gen)) /\ Cardinality(Active(tick[k].gen)) \in Nat
    BY FS_Subset, FS_CardinalityType, CronAssumption DEF TypeOK, Active
<1>6. Cardinality(S) <= Slots(tick[k].gen) /\ Slots(tick[k].gen) \in Int
    BY <1>4, <1>5, CronAssumption DEF Starts, Slots
<1>7. new \in Surjection(S, N)
    BY DEF Surjection
<1>8. IsFiniteSet(N) /\ Cardinality(N) <= Cardinality(S)
    BY <1>4, <1>7, FS_Surjection
<1>9. Cardinality(N) \in Nat
    BY <1>8, FS_CardinalityType
<1>10. Cardinality(N) <= Slots(tick[k].gen)
    BY <1>4, <1>6, <1>8, <1>9
<1>11. \A r \in Runs \ N : run'[r] = run[r]
    BY <1>1
<1>12. ASSUME NEW r \in N
       PROVE  /\ run'[r].pc = "marking" /\ run'[r].gen = tick[k].gen
              /\ run'[r].task \in tick[k].list
    <2>1. r \in Runs /\ \E t \in S : new[t] = r
        BY <1>2
    <2>2. run'[r] = [pc |-> "marking", gen |-> tick[k].gen, task |-> CHOOSE t \in S : new[t] = r]
        BY <1>1, <2>1
    <2>3. (CHOOSE t \in S : new[t] = r) \in S
        BY <2>1
    <2> QED
        BY <1>3, <2>2, <2>3
<1> HIDE DEF N
<1>13. active' = active \cup N
    BY <1>1 DEF N
<1> QED
    BY <1>2, <1>8, <1>10, <1>11, <1>12, <1>13

LEMMA DisturbedStays == [Next]_vars => (disturbed => disturbed')
<1> SUFFICES ASSUME [Next]_vars, disturbed PROVE disturbed'
    OBVIOUS
<1> USE DEF vars, storeVars, timerVars, schedulerVars
<1>0. ASSUME NEW a, NEW new, Writes(a, new) PROVE disturbed'
    BY <1>0 DEF Writes, Rename, Tear
<1>1. ASSUME StartSteps PROVE disturbed'
    BY <1>0, <1>1 DEF StartSteps, ListAll, Started, BootRead, BootWrite, BootRejected, Rejected
<1>2. ASSUME TimerSteps PROVE disturbed'
    BY <1>2 DEF TimerSteps, Fires, FiresLost
<1>3. ASSUME NEW k \in Ticks, TickSteps(k) PROVE disturbed'
    BY <1>0, <1>3 DEF TickSteps, TickLoop, DelayReads, DelayWrites, DelayRejected, Rejected
<1>4. ASSUME NEW r \in Runs, RunSteps(r) PROVE disturbed'
    BY <1>0, <1>4 DEF RunSteps, MarkReads, Marks, MarkRejected, TurnEnds, Recorded, RecordedOnly,
                      RecordRejected, SettlesRecurring, SettlesOnce, SettleRejected, Rejected
<1>5. ASSUME NEW c \in Calls, CallBegins(c) \/ CallSteps(c) PROVE disturbed'
    BY <1>0, <1>5 DEF CallBegins, CreateCalled, RunNowCalled, StopCalled, DeleteCalled, DeleteMisses,
                      CallSteps, Aborted, AbortedOnly, Creates, Deletes, CallRejected, Rejected
<1>6. CASE Stop \/ Stopped \/ Rebuild \/ \E t \in Tasks : TimePasses(t)
    BY <1>6 DEF Stop, Stopped, Rebuild, TimePasses
<1> QED
    BY <1>1, <1>2, <1>3, <1>4, <1>5, <1>6 DEF Next

\* Only ticks start runs, and only the steps of a run change it.
LEMMA OtherStepsKeepRuns ==
    ASSUME [Next]_vars,
           ~\E k \in Ticks : TickLoop(k), ~\E r \in Runs : RunSteps(r)
    PROVE  UNCHANGED <<run, active>>
<1> USE DEF vars, storeVars, timerVars, schedulerVars
<1>1. ASSUME StartSteps PROVE UNCHANGED <<run, active>>
    BY <1>1 DEF StartSteps, ListAll, Started, BootRead, BootWrite, BootRejected
<1>2. ASSUME TimerSteps PROVE UNCHANGED <<run, active>>
    BY <1>2 DEF TimerSteps, Fires, FiresLost
<1>3. ASSUME NEW k \in Ticks, TickSteps(k) PROVE UNCHANGED <<run, active>>
    BY <1>3 DEF TickSteps, DelayReads, DelayWrites, DelayRejected
<1>4. ASSUME NEW c \in Calls, CallBegins(c) \/ CallSteps(c) PROVE UNCHANGED <<run, active>>
    BY <1>4 DEF CallBegins, CreateCalled, RunNowCalled, StopCalled, DeleteCalled, DeleteMisses,
                CallSteps, Aborted, AbortedOnly, Creates, Deletes, CallRejected
<1>5. CASE Stop \/ Stopped \/ Rebuild \/ \E t \in Tasks : TimePasses(t)
    BY <1>5 DEF Stop, Stopped, Rebuild, TimePasses
<1> QED
    BY <1>1, <1>2, <1>3, <1>4, <1>5 DEF Next

\* The steps of a run: the slot is given back at the end of its turn, and the run is
\* forgotten when it has settled.
RunMoves(r) ==
    /\ \A q \in Runs : q # r => run'[q] = run[q]
    /\ \/ active' = active /\ run'[r] = run[r]
       \/ active' = active /\ run[r].pc = "marking" /\ run'[r] = [run[r] EXCEPT !.pc = "turn"]
       \/ /\ active' = active /\ run[r].pc = "marking" /\ disturbed'
          /\ run'[r] = [run[r] EXCEPT !.pc = "leaked"]
       \/ /\ active' = active \ {r} /\ run[r].pc = "turn"
          /\ run'[r] = [run[r] EXCEPT !.pc = "recording"]
       \/ /\ active' = active /\ run[r].pc = "recording"
          /\ run'[r] = [run[r] EXCEPT !.pc = "settling"]
       \/ active' = active /\ run[r].pc \in {"recording", "settling"} /\ run'[r] = FreeRun

LEMMA RunStepMoves ==
    ASSUME TypeOK, NEW r \in Runs, RunSteps(r)
    PROVE  RunMoves(r)
<1> USE DEF RunMoves
<1>1. CASE MarkReads(r)
    BY <1>1 DEF MarkReads
<1>2. CASE Marks(r) \/ MarkRejected(r)
    BY <1>2 DEF Marks, MarkRejected, Rejected, TypeOK
<1>3. CASE TurnEnds(r) \/ Recorded(r)
    BY <1>3 DEF TurnEnds, Recorded, TypeOK
<1>4. CASE RecordedOnly(r) \/ RecordRejected(r) \/ SettlesRecurring(r) \/ SettlesOnce(r) \/ SettleRejected(r)
    BY <1>4 DEF RecordedOnly, RecordRejected, SettlesRecurring, SettlesOnce, SettleRejected, TypeOK
<1> QED
    BY <1>1, <1>2, <1>3, <1>4 DEF RunSteps

LEMMA StepSlots == TypeOK /\ SlotsAreHeldByRuns /\ [Next]_vars => SlotsAreHeldByRuns'
<1> SUFFICES ASSUME TypeOK, SlotsAreHeldByRuns, [Next]_vars PROVE SlotsAreHeldByRuns'
    OBVIOUS
<1>0. /\ disturbed => disturbed'
      /\ \A r \in Runs : run[r] \in RunStates
    BY DisturbedStays DEF TypeOK
<1>1. ASSUME NEW k \in Ticks, TickLoop(k) PROVE SlotsAreHeldByRuns'
    <2>1. \E S : Starts(k, S)
        BY <1>1 DEF TickLoop
    <2>2. PICK N \in SUBSET Free :
              /\ active' = active \cup N
              /\ \A r \in Runs \ N : run'[r] = run[r]
              /\ \A r \in N : run'[r].pc = "marking"
        BY <2>1, StartsRuns
    <2> QED
        BY <1>0, <2>2 DEF SlotsAreHeldByRuns, Free
<1>2. ASSUME NEW r \in Runs, RunSteps(r) PROVE SlotsAreHeldByRuns'
    <2>1. /\ \A q \in Runs : q # r => run'[q] = run[q]
          /\ \/ active' = active /\ run'[r].pc = run[r].pc
             \/ active' = active /\ run[r].pc = "marking" /\ run'[r].pc = "turn"
             \/ active' = active /\ run[r].pc = "marking" /\ run'[r].pc = "leaked" /\ disturbed'
             \/ active' = active \ {r} /\ run[r].pc = "turn" /\ run'[r].pc = "recording"
             \/ active' = active /\ run[r].pc \in {"recording", "settling"}
                /\ run'[r].pc \in {"free", "settling"}
        <3>1. FreeRun.pc = "free" /\ \A pc \in RunPhases : [run[r] EXCEPT !.pc = pc].pc = pc
            BY <1>0 DEF FreeRun, RunStates
        <3>2. {"marking", "turn", "recording", "settling", "leaked"} \subseteq RunPhases
            BY DEF RunPhases
        <3>3. RunMoves(r)
            BY <1>2, RunStepMoves
        <3> QED
            BY <3>1, <3>2, <3>3 DEF RunMoves
    <2>2. active' \subseteq Runs
        BY <2>1 DEF TypeOK
    <2>3. r \in active' <=> run'[r].pc \in {"marking", "turn", "leaked"}
        BY <2>1 DEF SlotsAreHeldByRuns
    <2>4. ASSUME NEW q \in Runs, q # r
          PROVE  q \in active' <=> run'[q].pc \in {"marking", "turn", "leaked"}
        BY <2>1, <2>4 DEF SlotsAreHeldByRuns
    <2>5. ASSUME NEW q \in Runs, run'[q].pc = "leaked" PROVE disturbed'
        BY <1>0, <2>1, <2>5 DEF SlotsAreHeldByRuns
    <2> QED
        BY <2>2, <2>3, <2>4, <2>5 DEF SlotsAreHeldByRuns
<1>3. CASE UNCHANGED <<run, active>>
    BY <1>0, <1>3 DEF SlotsAreHeldByRuns
<1> QED
    BY <1>1, <1>2, <1>3, OtherStepsKeepRuns

LEMMA StepLimit ==
    TypeOK /\ SlotsAreHeldByRuns /\ RunsWithinLimit /\ [Next]_vars => RunsWithinLimit'
<1> SUFFICES ASSUME TypeOK, SlotsAreHeldByRuns, RunsWithinLimit, [Next]_vars,
                    NEW g \in 1..Generations
             PROVE  Cardinality(Active(g)') <= MaxRuns
    BY DEF RunsWithinLimit
<1>0. /\ IsFiniteSet(Active(g)) /\ Cardinality(Active(g)) \in Nat
      /\ Cardinality(Active(g)) <= MaxRuns
    BY FS_Subset, FS_CardinalityType, CronAssumption DEF TypeOK, Active, RunsWithinLimit
<1>1. ASSUME Active(g)' \subseteq Active(g) PROVE Cardinality(Active(g)') <= MaxRuns
    <2>1. /\ Cardinality(Active(g)') \in Nat
          /\ Cardinality(Active(g)') <= Cardinality(Active(g))
        BY <1>0, <1>1, FS_Subset, FS_CardinalityType
    <2> QED
        BY <1>0, <2>1, CronAssumption
<1>2. ASSUME NEW k \in Ticks, TickLoop(k) PROVE Cardinality(Active(g)') <= MaxRuns
    <2>1. \E S : Starts(k, S)
        BY <1>2 DEF TickLoop
    <2>2. PICK N \in SUBSET Free :
              /\ IsFiniteSet(N) /\ Cardinality(N) <= Slots(tick[k].gen)
              /\ active' = active \cup N
              /\ \A r \in Runs \ N : run'[r] = run[r]
              /\ \A r \in N : run'[r].gen = tick[k].gen
        BY <2>1, StartsRuns
    <2>3. N \cap active = {} /\ N \subseteq Runs /\ active \subseteq Runs
        BY <2>2 DEF SlotsAreHeldByRuns, Free
    <2>4. CASE tick[k].gen # g
        <3>1. Active(g)' \subseteq Active(g)
            BY <2>2, <2>3, <2>4 DEF Active
        <3> QED
            BY <1>1, <3>1
    <2>5. CASE tick[k].gen = g
        <3>1. Active(g)' = Active(g) \cup N /\ Active(g) \cap N = {}
            BY <2>2, <2>3, <2>5 DEF Active
        <3>2. Cardinality(N) \in Nat /\ Cardinality(N) <= MaxRuns - Cardinality(Active(g))
            BY <2>2, <2>5, FS_CardinalityType DEF Slots
        <3>3. Cardinality(Active(g) \cap N) = 0
            BY <3>1, FS_EmptySet
        <3>4. Cardinality(Active(g)') = Cardinality(Active(g)) + Cardinality(N) - 0
            BY <1>0, <2>2, <3>1, <3>3, FS_Union
        <3> QED
            BY <1>0, <3>2, <3>4, CronAssumption
    <2> QED
        BY <2>4, <2>5
<1>3. ASSUME NEW r \in Runs, RunSteps(r) PROVE Cardinality(Active(g)') <= MaxRuns
    <2>1. \A q \in active' : q \in active /\ q \in Runs /\ run'[q].gen = run[q].gen
        <3>1. /\ active' \subseteq active /\ \A q \in Runs : q # r => run'[q] = run[q]
              /\ run'[r].gen = run[r].gen \/ r \notin active
            BY <1>3, RunStepMoves DEF RunMoves, SlotsAreHeldByRuns, TypeOK, RunStates
        <3> QED
            BY <3>1 DEF TypeOK
    <2>2. Active(g)' \subseteq Active(g)
        BY <2>1 DEF Active
    <2> QED
        BY <1>1, <2>2
<1>4. CASE UNCHANGED <<run, active>>
    BY <1>0, <1>4 DEF Active
<1> QED
    BY <1>2, <1>3, <1>4, OtherStepsKeepRuns

\* A run holds its slot from its start to the end of its turn, for ever only after a write was
\* rejected; the runs of a runtime are never more than maxConcurrentRuns.
THEOREM RunsHoldSlotsHolds == Spec => []RunsHoldSlots
<1> DEFINE Inv == TypeOK /\ Replaceable /\ RunsHoldSlots
<1>1. Init => Inv
    <2> SUFFICES ASSUME Init PROVE Inv
        OBVIOUS
    <2>1. \A g \in 1..Generations : Active(g) = {}
        BY DEF Init, Active
    <2>2. RunsWithinLimit
        BY <2>1, FS_EmptySet, CronAssumption DEF RunsWithinLimit
    <2>3. SlotsAreHeldByRuns
        BY DEF Init, SlotsAreHeldByRuns, FreeRun
    <2> QED
        BY <2>2, <2>3, InitType DEF Init, Replaceable, RunsHoldSlots
<1>2. Inv /\ [Next]_vars => Inv'
    BY StepType, StepReplaceable, StepSlots, StepLimit DEF RunsHoldSlots
<1> QED
    BY <1>1, <1>2, PTL DEF Spec

-----------------------------------------------------------------------------
(* Who is in the middle of an operation of the store *)

\* Only a rewrite that the start owes has a task's snapshot, and only a delay that of a tick;
\* the delay is of a task of the tick's list.
Owned ==
    /\ \A t \in Tasks : snap[t] # NoFile => boot[t] # "none"
    /\ \A k \in Ticks : snap[k] # NoFile => tick[k].pc = "delay"
    /\ \A k \in Ticks : tick[k].pc = "delay" => tick[k].task \in tick[k].list
    /\ phase = "starting" => \A t \in Tasks : boot[t] = "none"

LEMMA StoreKeeps ==
    ASSUME TypeOK, NEW a \in Actors,
           Read(a) \/ Rejected(a) \/ \E new : Writes(a, new)
    PROVE  \A b \in Actors : b # a => snap'[b] = snap[b]
BY DEF Read, Rejected, Writes, TypeOK

LEMMA RunKeeps ==
    ASSUME TypeOK, NEW r \in Runs, RunSteps(r)
    PROVE  /\ UNCHANGED <<phase, gen, timer, lost, doubled, tip, boot, tick, call>>
           /\ \A a \in Actors : a # r => snap'[a] = snap[a]
<1>0. r \in Actors
    BY DEF Actors
<1> USE DEF storeVars, timerVars, schedulerVars
<1>1. UNCHANGED <<phase, gen, timer, lost, doubled, tip, boot, tick, call>>
    BY DEF RunSteps, MarkReads, Marks, MarkRejected, TurnEnds, Recorded, RecordedOnly, RecordRejected,
           SettlesRecurring, SettlesOnce, SettleRejected
<1>2. \/ Read(r) \/ Rejected(r) \/ \E new : Writes(r, new)
      \/ UNCHANGED snap
    BY DEF RunSteps, MarkReads, Marks, MarkRejected, TurnEnds, Recorded, RecordedOnly, RecordRejected,
           SettlesRecurring, SettlesOnce, SettleRejected
<1> QED
    BY <1>0, <1>1, <1>2, StoreKeeps

LEMMA CallKeeps ==
    ASSUME TypeOK, NEW c \in Calls, CallBegins(c) \/ CallSteps(c)
    PROVE  /\ UNCHANGED <<phase, gen, tip, boot, tick, run, active>>
           /\ Poke \/ UNCHANGED <<timer, lost, doubled>>
           /\ \A a \in Actors : a # c => snap'[a] = snap[a]
<1>0. c \in Actors
    BY DEF Actors
<1> USE DEF storeVars, timerVars, schedulerVars, CallBegins, CreateCalled, RunNowCalled, StopCalled,
            DeleteCalled, DeleteMisses, CallSteps, Aborted, AbortedOnly, Creates, Deletes, CallRejected,
            StopReturns
<1>1. UNCHANGED <<phase, gen, tip, boot, tick, run, active>>
    OBVIOUS
<1>2. Poke \/ UNCHANGED <<timer, lost, doubled>>
    OBVIOUS
<1>3. \/ Read(c) \/ Rejected(c) \/ \E new : Writes(c, new)
      \/ UNCHANGED snap
    OBVIOUS
<1> QED
    BY <1>0, <1>1, <1>2, <1>3, StoreKeeps

LEMMA StepOwned == TypeOK /\ Owned /\ [Next]_vars => Owned'
<1> SUFFICES ASSUME TypeOK, Owned, [Next]_vars PROVE Owned'
    OBVIOUS
<1>0. /\ \A t \in Tasks : t \in Actors /\ \A x \in Runs \cup Ticks \cup Calls : x # t
      /\ \A k \in Ticks : k \in Actors /\ \A x \in Tasks \cup Runs \cup Calls : x # k
    BY CronAssumption DEF Actors
<1> USE DEF storeVars, timerVars, schedulerVars
<1>1. ASSUME StartSteps PROVE Owned'
    <2>1. CASE ListAll \/ Started
        BY <2>1 DEF ListAll, Started, Owned, TypeOK
    <2>2. ASSUME NEW t \in Tasks, BootRead(t) PROVE Owned'
        <3>1. UNCHANGED <<phase, boot, tick>> /\ boot[t] # "none"
              /\ \A b \in Actors : b # t => snap'[b] = snap[b]
            BY <1>0, <2>2, StoreKeeps DEF BootRead
        <3> QED
            BY <1>0, <3>1 DEF Owned
    <2>3. ASSUME NEW t \in Tasks, BootWrite(t) \/ BootRejected(t) PROVE Owned'
        <3>1. (\E new : Writes(t, new)) \/ Rejected(t)
            BY <2>3 DEF BootWrite, BootRejected
        <3>2. snap'[t] = NoFile /\ \A b \in Actors : b # t => snap'[b] = snap[b]
            BY <1>0, <3>1, StoreKeeps DEF TypeOK, Writes, Rejected
        <3>3. /\ boot' = [boot EXCEPT ![t] = "none"] /\ UNCHANGED tick
              /\ phase' = "starting" => phase = "starting"
            BY <2>3 DEF BootWrite, BootRejected
        <3> QED
            BY <1>0, <3>2, <3>3 DEF Owned, TypeOK
    <2> QED
        BY <1>1, <2>1, <2>2, <2>3 DEF StartSteps
<1>2. ASSUME TimerSteps PROVE Owned'
    <2>1. \E g \in 1..Generations : Begins(g) /\ UNCHANGED <<snap, phase, boot>>
        BY <1>2 DEF TimerSteps, Fires, FiresLost, TypeOK
    <2>2. PICK k \in Ticks : /\ tick[k].pc = "idle"
                             /\ \A j \in Ticks : j # k => tick'[j] = tick[j]
                             /\ tick'[k].pc = "loop"
        BY <2>1 DEF Begins, TypeOK, IdleTick
    <2> QED
        BY <2>1, <2>2 DEF Owned
<1>3. ASSUME NEW k \in Ticks, TickSteps(k) PROVE Owned'
    <2>0. tick[k] \in TickStates
        BY DEF TypeOK
    <2>1. CASE TickLoop(k)
        <3>1. /\ UNCHANGED <<snap, phase, boot>> /\ tick[k].pc = "loop"
              /\ \A j \in Ticks : j # k => tick'[j] = tick[j]
            BY <2>1 DEF TickLoop, TickEnds, TypeOK
        <3>2. \/ tick' = [tick EXCEPT ![k] = IdleTick]
              \/ \E S \in SUBSET tick[k].list : \E t \in tick[k].list \ S :
                    tick' = [tick EXCEPT ![k].pc = "delay", ![k].task = t, ![k].list = @ \ S]
            BY <2>1 DEF TickLoop, TickEnds
        <3>3. \/ tick'[k].pc = "idle"
              \/ tick'[k].pc = "delay" /\ tick'[k].task \in tick'[k].list
            <4>1. CASE tick' = [tick EXCEPT ![k] = IdleTick]
                BY <4>1 DEF TypeOK, IdleTick
            <4>2. ASSUME NEW S, NEW t \in tick[k].list \ S,
                         tick' = [tick EXCEPT ![k].pc = "delay", ![k].task = t, ![k].list = @ \ S]
                  PROVE  tick'[k].pc = "delay" /\ tick'[k].task \in tick'[k].list
                BY <2>0, <4>2 DEF TypeOK, TickStates
            <4> QED
                BY <3>2, <4>1, <4>2
        <3> QED
            BY <3>1, <3>3 DEF Owned
    <2>2. CASE DelayReads(k)
        <3>1. UNCHANGED <<phase, boot, tick>> /\ tick[k].pc = "delay"
              /\ \A b \in Actors : b # k => snap'[b] = snap[b]
            BY <1>0, <2>2, StoreKeeps DEF DelayReads
        <3> QED
            BY <1>0, <3>1 DEF Owned
    <2>3. CASE DelayWrites(k) \/ DelayRejected(k)
        <3>1. (\E new : Writes(k, new)) \/ Rejected(k)
            BY <2>3 DEF DelayWrites, DelayRejected
        <3>2. snap'[k] = NoFile /\ \A b \in Actors : b # k => snap'[b] = snap[b]
            BY <1>0, <3>1, StoreKeeps DEF TypeOK, Writes, Rejected
        <3>3. UNCHANGED <<phase, boot>> /\ tick'[k].pc \in {"loop", "idle"}
              /\ \A j \in Ticks : j # k => tick'[j] = tick[j]
            BY <2>0, <2>3 DEF DelayWrites, DelayRejected, TickEnds, TypeOK, TickStates, IdleTick
        <3> QED
            BY <1>0, <3>2, <3>3 DEF Owned
    <2> QED
        BY <1>3, <2>1, <2>2, <2>3 DEF TickSteps
<1>4. ASSUME NEW r \in Runs, RunSteps(r) PROVE Owned'
    BY <1>0, <1>4, RunKeeps DEF Owned
<1>5. ASSUME NEW c \in Calls, CallBegins(c) \/ CallSteps(c) PROVE Owned'
    BY <1>0, <1>5, CallKeeps DEF Owned
<1>6. CASE Stop \/ Stopped \/ Rebuild \/ \E t \in Tasks : TimePasses(t)
    BY <1>6 DEF Stop, Stopped, Rebuild, TimePasses, Owned
<1>7. CASE UNCHANGED vars
    BY <1>7 DEF vars, Owned
<1> QED
    BY <1>1, <1>2, <1>3, <1>4, <1>5, <1>6, <1>7 DEF Next

-----------------------------------------------------------------------------
(* Timers and ticks *)

\* A timer belongs to a scheduler that runs; later runtimes have neither timer nor tick; only
\* a runtime that armed a second timer has lost one, or has a tick it does not know.
Timed ==
    /\ timer => Scheduling
    /\ \A g \in 1..Generations : g > gen => Busy(g) = {} /\ lost[g] = 0
    /\ \A g \in 1..Generations : g \notin doubled => lost[g] = 0
    /\ gen \notin doubled => Busy(gen) \subseteq {tip}

Clocks == Timed /\ OneChain /\ QuietAfterStop

\* A step that neither arms nor fires a timer, nor ends a tick.
ClocksIdle ==
    /\ UNCHANGED <<gen, timer, lost, doubled, tip>>
    /\ \A g \in 1..Generations : Busy(g)' = Busy(g)
    /\ \/ phase' = phase
       \/ phase = "starting" /\ phase' = "resetting"
       \/ phase = "resetting" /\ phase' = "failed"
       \/ phase = "stopping" /\ phase' = "stopped" /\ tip = NoTick

ClockSteps ==
    \/ ClocksIdle \/ Started \/ Stop \/ Rebuild \/ TimerSteps
    \/ Poke /\ UNCHANGED <<phase, gen, tip, tick>>
    \/ \E k \in Ticks : tick[k].pc # "idle" /\ TickEnds(k) /\ UNCHANGED <<phase, gen>>

LEMMA StepClocks == TypeOK /\ Owned /\ [Next]_vars => ClockSteps
<1> SUFFICES ASSUME TypeOK, Owned, [Next]_vars PROVE ClockSteps
    OBVIOUS
<1>0. ASSUME \A k \in Ticks : /\ tick'[k].gen = tick[k].gen
                              /\ tick'[k].pc = "idle" <=> tick[k].pc = "idle",
             UNCHANGED <<phase, gen, timer, lost, doubled, tip>>
      PROVE  ClockSteps
    BY <1>0 DEF ClockSteps, ClocksIdle, Busy
<1> USE DEF storeVars, timerVars, schedulerVars
<1>1. ASSUME StartSteps PROVE ClockSteps
    <2>1. CASE Started
        BY <2>1 DEF ClockSteps
    <2>2. ASSUME ListAll \/ \E t \in Tasks : BootRead(t) \/ BootWrite(t) \/ BootRejected(t)
          PROVE  ClocksIdle
        BY <2>2 DEF ListAll, BootRead, BootWrite, BootRejected, ClocksIdle, Busy
    <2> QED
        BY <1>1, <2>1, <2>2 DEF StartSteps, ClockSteps
<1>2. ASSUME TimerSteps PROVE ClockSteps
    BY <1>2 DEF ClockSteps
<1>3. ASSUME NEW k \in Ticks, TickSteps(k) PROVE ClockSteps
    <2>0. tick[k] \in TickStates
        BY DEF TypeOK
    <2>1. CASE DelayReads(k)
        BY <1>0, <2>1 DEF DelayReads
    <2>2. CASE DelayWrites(k)
        <3>1. tick[k].pc = "delay"
            BY <2>2 DEF DelayWrites, Writes, Owned
        <3>2. /\ \A j \in Ticks : j # k => tick'[j] = tick[j]
              /\ tick'[k].pc = "loop" /\ tick'[k].gen = tick[k].gen
            BY <2>0, <2>2 DEF DelayWrites, TypeOK, TickStates
        <3> QED
            BY <1>0, <2>2, <3>1, <3>2 DEF DelayWrites
    <2>3. CASE DelayRejected(k)
        <3>1. tick[k].pc = "delay"
            BY <2>3 DEF DelayRejected, Rejected, Owned
        <3> QED
            BY <2>3, <3>1 DEF DelayRejected, ClockSteps
    <2>4. CASE TickLoop(k)
        <3>1. CASE TickEnds(k)
            BY <2>4, <3>1 DEF TickLoop, ClockSteps
        <3>2. ASSUME NEW S, NEW t,
                     tick' = [tick EXCEPT ![k].pc = "delay", ![k].task = t, ![k].list = @ \ S],
                     UNCHANGED timerVars
              PROVE  ClockSteps
            <4>1. /\ \A j \in Ticks : j # k => tick'[j] = tick[j]
                  /\ tick'[k].pc = "delay" /\ tick'[k].gen = tick[k].gen
                BY <2>0, <3>2 DEF TypeOK, TickStates
            <4> QED
                BY <1>0, <2>4, <3>2, <4>1 DEF TickLoop
        <3> QED
            BY <2>4, <3>1, <3>2 DEF TickLoop
    <2> QED
        BY <1>3, <2>1, <2>2, <2>3, <2>4 DEF TickSteps
<1>4. ASSUME NEW r \in Runs, RunSteps(r) PROVE ClockSteps
    BY <1>0, <1>4, RunKeeps
<1>5. ASSUME NEW c \in Calls, CallBegins(c) \/ CallSteps(c) PROVE ClockSteps
    <2>1. UNCHANGED <<phase, gen, tip, tick>> /\ (Poke \/ UNCHANGED <<timer, lost, doubled>>)
        BY <1>5, CallKeeps
    <2> QED
        BY <1>0, <2>1 DEF ClockSteps
<1>6. CASE Stop \/ Rebuild
    BY <1>6 DEF ClockSteps
<1>7. CASE Stopped \/ (\E t \in Tasks : TimePasses(t)) \/ UNCHANGED vars
    BY <1>7 DEF Stopped, TimePasses, vars, ClocksIdle, ClockSteps, Busy
<1> QED
    BY <1>1, <1>2, <1>3, <1>4, <1>5, <1>6, <1>7 DEF Next

LEMMA BusyCounts ==
    ASSUME TypeOK
    PROVE  /\ \A g \in 1..Generations : /\ Busy(g) \subseteq Ticks /\ IsFiniteSet(Busy(g))
                                        /\ Cardinality(Busy(g)) \in Nat
                                        /\ Cardinality(Busy(g)) = 0 <=> Busy(g) = {}
           /\ gen \in 1..Generations /\ lost[gen] \in Nat /\ timer \in BOOLEAN
           /\ Chains \in Nat
<1>1. \A g \in 1..Generations : Busy(g) \subseteq Ticks
    BY DEF Busy
<1>2. \A g \in 1..Generations : /\ IsFiniteSet(Busy(g)) /\ Cardinality(Busy(g)) \in Nat
                                /\ Cardinality(Busy(g)) = 0 <=> Busy(g) = {}
    BY <1>1, FS_Subset, FS_CardinalityType, FS_EmptySet, CronAssumption
<1>3. gen \in 1..Generations /\ lost[gen] \in Nat /\ timer \in BOOLEAN
    BY DEF TypeOK
<1> QED
    BY <1>1, <1>2, <1>3 DEF Chains

LEMMA ClocksAtRest == ASSUME TypeOK, Clocks, ClocksIdle PROVE Clocks'
<1>0. gen \in 1..Generations /\ gen' = gen
    BY DEF TypeOK, ClocksIdle
<1>1. Busy(gen)' = Busy(gen) /\ \A g \in 1..Generations : Busy(g)' = Busy(g)
    BY <1>0 DEF ClocksIdle, Busy
<1>2. Chains' = Chains
    BY <1>0, <1>1 DEF ClocksIdle, Chains
<1>3. Timed'
    BY <1>0, <1>1 DEF Clocks, Timed, ClocksIdle, Scheduling
<1>4. OneChain'
    BY <1>0, <1>2 DEF Clocks, OneChain, ClocksIdle
<1>5. QuietAfterStop'
    <2> SUFFICES ASSUME NEW g \in 1..Generations, g \notin doubled,
                        g < gen \/ (g = gen /\ phase' = "stopped")
                 PROVE  Busy(g)' = {} /\ lost'[g] = 0
        BY <1>0 DEF QuietAfterStop, ClocksIdle
    <2>1. CASE g < gen \/ phase = "stopped"
        BY <1>1, <2>1 DEF Clocks, QuietAfterStop, ClocksIdle
    <2>2. CASE g = gen /\ phase # "stopped"
        <3>1. tip = NoTick /\ Busy(gen) \subseteq {tip} /\ lost[gen] = 0
            BY <1>0, <2>2 DEF Clocks, Timed, ClocksIdle
        <3>2. Busy(gen) = {}
            BY <3>1, CronAssumption DEF Busy
        <3> QED
            BY <1>1, <2>2, <3>1, <3>2 DEF ClocksIdle
    <2> QED
        BY <2>1, <2>2
<1> QED
    BY <1>3, <1>4, <1>5 DEF Clocks

\* A timer is armed, at the start or by a poke; ticks go on as they were.
Arms ==
    /\ Scheduling /\ timer' = TRUE
    /\ phase' = phase \/ (phase = "resetting" /\ phase' = "up")
    /\ UNCHANGED <<gen, tip, tick>>
    /\ \/ /\ UNCHANGED lost
          /\ doubled' = IF Busy(gen) # {} \/ lost[gen] > 0 THEN doubled \cup {gen} ELSE doubled
       \/ /\ timer
          /\ lost' = [lost EXCEPT ![gen] = @ + 1]
          /\ doubled' = doubled \cup {gen}

LEMMA ClocksArmed == ASSUME TypeOK, Clocks, Arms PROVE Clocks'
<1>0. gen \in 1..Generations /\ gen' = gen /\ Scheduling /\ Scheduling' /\ timer'
      /\ UNCHANGED <<tip, tick>>
    BY DEF TypeOK, Scheduling, Arms
<1>1. Busy(gen)' = Busy(gen) /\ \A g \in 1..Generations : Busy(g)' = Busy(g)
    BY <1>0 DEF Busy
<1>2. /\ \A g \in 1..Generations : g # gen => lost'[g] = lost[g]
      /\ doubled \subseteq doubled' /\ doubled' \subseteq doubled \cup {gen}
      /\ lost'[gen] \in Nat
      /\ gen \notin doubled' => gen \notin doubled /\ lost'[gen] = 0 /\ Busy(gen) = {}
    <2>1. lost \in [1..Generations -> Nat]
        BY DEF TypeOK
    <2>2. CASE UNCHANGED lost
        BY <1>0, <2>1, <2>2 DEF Arms
    <2>3. CASE lost' = [lost EXCEPT ![gen] = @ + 1] /\ doubled' = doubled \cup {gen}
        BY <1>0, <2>1, <2>3
    <2> QED
        BY <2>2, <2>3 DEF Arms
<1>3. Timed'
    BY <1>0, <1>1, <1>2 DEF Clocks, Timed
<1>4. Chains' = Cardinality(Busy(gen)) + lost'[gen] + 1
    BY <1>0, <1>1 DEF Chains
<1>5. OneChain'
    BY <1>0, <1>2, <1>4, BusyCounts DEF OneChain
<1>6. QuietAfterStop'
    BY <1>0, <1>1, <1>2 DEF Clocks, QuietAfterStop, Scheduling
<1> QED
    BY <1>3, <1>5, <1>6 DEF Clocks

LEMMA ClocksStarted == ASSUME TypeOK, Clocks, Started PROVE Clocks'
<1>1. /\ UNCHANGED <<gen, tip, tick>> /\ phase = "resetting" /\ phase' = "up" /\ Scheduling
      /\ ScheduleNextTick(Busy(gen))
    BY DEF Started, Scheduling
<1>2. Arms
    BY <1>1 DEF ScheduleNextTick, Arms, TypeOK
<1> QED
    BY <1>2, ClocksArmed

LEMMA ClocksPoked ==
    ASSUME TypeOK, Clocks, Poke, UNCHANGED <<phase, gen, tip, tick>> PROVE Clocks'
<1>1. CASE Scheduling
    BY <1>1, ClocksArmed DEF Poke, Arms
<1>2. CASE ~Scheduling
    BY <1>2, ClocksAtRest DEF Poke, ClocksIdle, Busy
<1> QED
    BY <1>1, <1>2

\* A timer is cleared when the scheduler stops.
LEMMA ClocksStopped == ASSUME TypeOK, Clocks, Stop PROVE Clocks'
<1>0. gen \in 1..Generations /\ UNCHANGED <<gen, lost, doubled, tip, tick>> /\ ~timer'
      /\ phase \in {"up", "failed"} /\ phase' = "stopping"
    BY DEF TypeOK, Stop
<1>1. Busy(gen)' = Busy(gen) /\ \A g \in 1..Generations : Busy(g)' = Busy(g)
    BY <1>0 DEF Busy
<1>2. Timed'
    BY <1>0, <1>1 DEF Clocks, Timed
<1>3. Chains' = Cardinality(Busy(gen)) + lost[gen]
    BY <1>0, <1>1, BusyCounts DEF Chains
<1>4. OneChain'
    BY <1>0, <1>3, BusyCounts DEF Clocks, OneChain, Chains
<1>5. QuietAfterStop'
    BY <1>0, <1>1 DEF Clocks, QuietAfterStop
<1> QED
    BY <1>2, <1>4, <1>5 DEF Clocks

LEMMA ClocksRebuilt == ASSUME TypeOK, TypeOK', Clocks, Rebuild PROVE Clocks'
<1>0. /\ gen' \in 1..Generations /\ gen \in 1..Generations /\ gen' = gen + 1 /\ gen' > gen
      /\ UNCHANGED <<timer, lost, doubled, tip, tick>>
      /\ phase = "stopped" /\ phase' = "starting" /\ ~timer
    BY DEF TypeOK, Rebuild, timerVars, Clocks, Timed, Scheduling
<1>1. \A g \in 1..Generations : Busy(g)' = Busy(g)
    BY <1>0 DEF Busy
<1>2. Busy(gen)' = {} /\ lost'[gen'] = 0
    <2>1. Busy(gen') = {} /\ lost[gen'] = 0
        BY <1>0 DEF Clocks, Timed
    <2> QED
        BY <1>0, <2>1 DEF Busy
<1>3. Timed'
    BY <1>0, <1>1, <1>2 DEF Clocks, Timed
<1>4. Chains' = 0
    BY <1>0, <1>2, FS_EmptySet DEF Chains
<1>5. OneChain'
    BY <1>0, <1>4 DEF OneChain
<1>6. QuietAfterStop'
    <2>1. \A g \in 1..Generations : g < gen' => g < gen \/ g = gen
        BY <1>0
    <2> QED
        BY <1>0, <1>1, <2>1 DEF Clocks, QuietAfterStop
<1> QED
    BY <1>3, <1>5, <1>6 DEF Clocks

\* One more tick of its runtime is under way; the scheduler that is running knows it.
LEMMA OneMoreTick ==
    ASSUME TypeOK, NEW g \in 1..Generations, Begins(g)
    PROVE  \E k \in Ticks :
              /\ \A h \in 1..Generations : /\ h = g => Busy(h)' = Busy(h) \cup {k}
                                           /\ h # g => Busy(h)' = Busy(h)
              /\ \A h \in 1..Generations : k \notin Busy(h)
              /\ tip' = IF g = gen /\ Scheduling THEN k ELSE tip
<1>1. PICK k \in Ticks :
          /\ tick[k].pc = "idle"
          /\ tick' = [tick EXCEPT ![k] = [IdleTick EXCEPT !.pc = "loop", !.gen = g,
                                              !.list = {t \in Tasks : file[t] = "due"}]]
          /\ tip' = IF g = gen /\ Scheduling THEN k ELSE tip
    BY DEF Begins
<1>2. /\ \A j \in Ticks : j # k => tick'[j] = tick[j]
      /\ tick'[k].pc = "loop" /\ tick'[k].gen = g
    BY <1>1 DEF TypeOK, IdleTick
<1>3. /\ \A h \in 1..Generations : /\ h = g => Busy(h)' = Busy(h) \cup {k}
                                   /\ h # g => Busy(h)' = Busy(h)
      /\ \A h \in 1..Generations : k \notin Busy(h)
    BY <1>1, <1>2 DEF Busy
<1> QED
    BY <1>1, <1>3

LEMMA OneMoreCounted ==
    ASSUME TypeOK, NEW g \in 1..Generations, NEW k \in Ticks, k \notin Busy(g)
    PROVE  Cardinality(Busy(g) \cup {k}) = Cardinality(Busy(g)) + 1
BY BusyCounts, FS_AddElement

LEMMA ClocksFired == ASSUME TypeOK, Clocks, Fires PROVE Clocks'
<1>0. /\ gen \in 1..Generations /\ UNCHANGED <<phase, gen, lost, doubled>>
      /\ timer /\ ~timer' /\ Scheduling /\ Scheduling' /\ Begins(gen)
    BY DEF TypeOK, Fires, Clocks, Timed, Scheduling
<1>1. PICK k \in Ticks :
          /\ \A h \in 1..Generations : /\ h = gen => Busy(h)' = Busy(h) \cup {k}
                                       /\ h # gen => Busy(h)' = Busy(h)
          /\ k \notin Busy(gen) /\ tip' = k
    BY <1>0, OneMoreTick
<1>2. Busy(gen)' = Busy(gen) \cup {k}
    BY <1>0, <1>1 DEF Busy
<1>3. Chains' = Chains
    BY <1>0, <1>1, <1>2, OneMoreCounted, BusyCounts DEF Chains
<1>4. gen \notin doubled => Busy(gen) = {}
    BY <1>0, BusyCounts DEF Clocks, OneChain, Chains
<1>5. Timed'
    BY <1>0, <1>1, <1>2, <1>4 DEF Clocks, Timed
<1>6. OneChain'
    BY <1>0, <1>3 DEF Clocks, OneChain
<1>7. QuietAfterStop'
    BY <1>0, <1>1 DEF Clocks, QuietAfterStop, Scheduling
<1> QED
    BY <1>5, <1>6, <1>7 DEF Clocks

\* Only a runtime that armed a second timer has a timer without a handle.
LEMMA ClocksFiredLost ==
    ASSUME TypeOK, Clocks, NEW g \in 1..Generations, FiresLost(g) PROVE Clocks'
<1>0. /\ gen \in 1..Generations /\ UNCHANGED <<phase, gen, doubled>> /\ lost[g] > 0 /\ Begins(g)
      /\ lost \in [1..Generations -> Nat] /\ Scheduling' = Scheduling
    BY DEF TypeOK, FiresLost, Scheduling
<1>1. PICK k \in Ticks :
          /\ \A h \in 1..Generations : /\ h = g => Busy(h)' = Busy(h) \cup {k}
                                       /\ h # g => Busy(h)' = Busy(h)
          /\ \A h \in 1..Generations : k \notin Busy(h)
          /\ tip' = IF g = gen /\ Scheduling THEN k ELSE tip
    BY <1>0, OneMoreTick
<1>2. g \in doubled /\ g <= gen
    BY <1>0 DEF Clocks, Timed
<1>3. \A h \in 1..Generations : h # g => lost'[h] = lost[h]
    BY <1>0 DEF FiresLost
<1>4. (timer' => timer) /\ (g # gen => timer' = timer)
    BY DEF FiresLost
<1>5. Busy(gen)' = IF g = gen THEN Busy(gen) \cup {k} ELSE Busy(gen)
    BY <1>0, <1>1 DEF Busy
<1>6. Timed'
    BY <1>0, <1>1, <1>2, <1>3, <1>4, <1>5 DEF Clocks, Timed
<1>7. OneChain'
    <2>1. CASE g = gen
        <3>1. lost'[gen] \in Nat
            <4>1. lost[g] \in Nat /\ lost[g] - 1 \in Nat
                BY <1>0
            <4> QED
                BY <1>0, <2>1, <4>1 DEF FiresLost
        <3>2. Cardinality(Busy(gen)') = Cardinality(Busy(gen)) + 1
            BY <1>0, <1>1, <1>5, <2>1, OneMoreCounted
        <3>3. Chains' >= 1
            BY <1>0, <3>1, <3>2, BusyCounts DEF Chains
        <3> QED
            BY <1>0, <1>2, <2>1, <3>3 DEF OneChain
    <2>2. CASE g # gen
        <3>1. Chains' = Chains
            BY <1>0, <1>3, <1>4, <1>5, <2>2 DEF Chains
        <3> QED
            BY <1>0, <3>1 DEF Clocks, OneChain
    <2> QED
        BY <2>1, <2>2
<1>8. QuietAfterStop'
    BY <1>0, <1>1, <1>2, <1>3 DEF Clocks, QuietAfterStop
<1> QED
    BY <1>6, <1>7, <1>8 DEF Clocks

\* A tick ends, and arms the next timer if its runtime is the current one and not stopped.
LEMMA ClocksTickEnds ==
    ASSUME TypeOK, Clocks, NEW k \in Ticks, tick[k].pc # "idle", TickEnds(k),
           UNCHANGED <<phase, gen>>
    PROVE  Clocks'
<1> DEFINE n == tick[k].gen
<1>0. /\ gen \in 1..Generations /\ UNCHANGED <<phase, gen>> /\ Scheduling' = Scheduling
      /\ n \in 1..Generations /\ lost \in [1..Generations -> Nat] /\ timer \in BOOLEAN
    BY DEF TypeOK, TickStates, Scheduling
<1>1. /\ \A h \in 1..Generations : /\ h = n => Busy(h)' = Busy(h) \ {k}
                                   /\ h # n => Busy(h)' = Busy(h)
      /\ k \in Busy(n)
    <2>1. tick'[k].pc = "idle" /\ \A j \in Ticks : j # k => tick'[j] = tick[j]
        BY DEF TickEnds, TypeOK, IdleTick
    <2> QED
        BY <2>1 DEF Busy
<1>2. tip' = IF n = gen /\ (Scheduling \/ tip = k) THEN NoTick ELSE tip
    BY DEF TickEnds
<1> HIDE DEF n
<1>3. Busy(gen)' = IF n = gen THEN Busy(gen) \ {k} ELSE Busy(gen)
    BY <1>0, <1>1 DEF Busy
<1>4. CASE n # gen \/ ~Scheduling
    <2>1. UNCHANGED <<timer, lost, doubled>>
        BY <1>4 DEF TickEnds, ScheduleNextTick, n
    <2>2. Timed'
        BY <1>0, <1>1, <1>2, <1>3, <2>1 DEF Clocks, Timed
    <2>3. Chains' \in Nat /\ Chains' <= Chains /\ (n # gen => Chains' = Chains)
        <3>1. Chains' = Cardinality(Busy(gen)') + lost[gen] + (IF timer THEN 1 ELSE 0)
            BY <1>0, <2>1 DEF Chains
        <3>2. CASE n = gen
            <4>1. Cardinality(Busy(gen) \ {k}) = Cardinality(Busy(gen)) - 1 /\ Busy(gen) # {}
                BY <1>0, <1>1, <3>2, BusyCounts, FS_RemoveElement
            <4> QED
                BY <1>0, <1>3, <3>1, <3>2, <4>1, BusyCounts DEF Chains
        <3>3. CASE n # gen
            BY <1>3, <3>1, <3>3, BusyCounts DEF Chains
        <3> QED
            BY <3>2, <3>3
    <2>4. OneChain'
        BY <1>0, <1>4, <2>1, <2>3, BusyCounts DEF Clocks, OneChain, Scheduling
    <2>5. QuietAfterStop'
        BY <1>0, <1>1, <2>1 DEF Clocks, QuietAfterStop
    <2> QED
        BY <2>2, <2>4, <2>5 DEF Clocks
<1>5. CASE n = gen /\ Scheduling
    <2>1. timer' = TRUE /\ ScheduleNextTick(Busy(gen) \ {k})
        BY <1>5 DEF TickEnds, ScheduleNextTick, n
    <2>2. /\ \A g \in 1..Generations : g # gen => lost'[g] = lost[g]
          /\ doubled \subseteq doubled' /\ doubled' \subseteq doubled \cup {gen}
          /\ lost'[gen] \in Nat
          /\ gen \notin doubled' => gen \notin doubled /\ lost'[gen] = 0 /\ Busy(gen) \ {k} = {}
        <3>1. CASE timer
            <4>1. lost' = [lost EXCEPT ![gen] = @ + 1] /\ doubled' = doubled \cup {gen}
                BY <1>5, <2>1, <3>1 DEF ScheduleNextTick
            <4> QED
                BY <1>0, <4>1
        <3>2. CASE ~timer
            BY <1>0, <1>5, <2>1, <3>2 DEF ScheduleNextTick
        <3> QED
            BY <3>1, <3>2
    <2>3. Timed'
        BY <1>0, <1>1, <1>3, <1>5, <2>1, <2>2 DEF Clocks, Timed
    <2>4. Chains' = Cardinality(Busy(gen) \ {k}) + lost'[gen] + 1
        BY <1>0, <1>3, <1>5, <2>1 DEF Chains
    <2>5. Cardinality(Busy(gen) \ {k}) \in Nat
        <3>1. IsFiniteSet(Busy(gen) \ {k})
            BY <1>0, BusyCounts, FS_Subset
        <3> QED
            BY <3>1, FS_CardinalityType
    <2>6. OneChain'
        <3>1. gen \notin doubled' => Cardinality(Busy(gen) \ {k}) = 0 /\ lost'[gen] = 0
            BY <2>2, FS_EmptySet
        <3>2. Chains' >= 1 /\ (gen \notin doubled' => Chains' <= 1)
            BY <2>2, <2>4, <2>5, <3>1
        <3> QED
            BY <1>0, <3>2 DEF OneChain
    <2>7. QuietAfterStop'
        BY <1>0, <1>1, <1>5, <2>2 DEF Clocks, QuietAfterStop, Scheduling
    <2> QED
        BY <2>3, <2>6, <2>7 DEF Clocks
<1> QED
    BY <1>4, <1>5

LEMMA InitClocks == Init => Clocks
<1> SUFFICES ASSUME Init PROVE Clocks
    OBVIOUS
<1>1. \A g \in 1..Generations : Busy(g) = {}
    BY DEF Init, Busy, IdleTick
<1>2. /\ gen \in 1..Generations /\ gen = 1 /\ ~timer /\ phase = "starting"
      /\ \A g \in 1..Generations : lost[g] = 0
    BY TaskTypes DEF Init
<1>3. Cardinality(Busy(gen)) = 0
    BY <1>1, <1>2, FS_EmptySet
<1>4. Chains = 0
    BY <1>2, <1>3 DEF Chains
<1> QED
    BY <1>1, <1>2, <1>4 DEF Clocks, Timed, OneChain, QuietAfterStop

\* Everything the scheduler goes by.
SchedulerInv == TypeOK /\ Replaceable /\ Owned /\ Clocks

LEMMA InitScheduler == Init => SchedulerInv
<1>1. Init => Owned
    <2> SUFFICES ASSUME Init PROVE Owned
        OBVIOUS
    <2>1. \A a \in Tasks \cup Ticks : snap[a] = NoFile
        BY DEF Init, Actors
    <2>2. (\A t \in Tasks : boot[t] = "none") /\ (\A k \in Ticks : tick[k].pc = "idle")
        BY DEF Init, IdleTick
    <2> QED
        BY <2>1, <2>2 DEF Owned
<1>2. Init => Replaceable
    BY DEF Init, Replaceable
<1> QED
    BY <1>1, <1>2, InitType, InitClocks DEF SchedulerInv

LEMMA StepScheduler == SchedulerInv /\ [Next]_vars => SchedulerInv'
<1> SUFFICES ASSUME SchedulerInv, [Next]_vars PROVE SchedulerInv'
    OBVIOUS
<1>1. TypeOK' /\ Replaceable' /\ Owned'
    BY StepType, StepReplaceable, StepOwned DEF SchedulerInv
<1>2. ClockSteps
    BY StepClocks DEF SchedulerInv
<1>3. Clocks'
    BY <1>1, <1>2, ClocksAtRest, ClocksStarted, ClocksPoked, ClocksStopped, ClocksRebuilt, ClocksFired,
       ClocksFiredLost, ClocksTickEnds
    DEF SchedulerInv, ClockSteps, TimerSteps
<1> QED
    BY <1>1, <1>3 DEF SchedulerInv

\* One timer or tick keeps a scheduler that is up going, and only one of them unless a poke or
\* the start armed a second timer.
THEOREM OneChainHolds == Spec => []OneChain
<1>1. SchedulerInv => OneChain
    BY DEF SchedulerInv, Clocks
<1> QED
    BY <1>1, InitScheduler, StepScheduler, PTL DEF Spec

\* A scheduler that stopped, or was replaced, has neither tick nor timer, unless it had armed a
\* second timer.
THEOREM QuietAfterStopHolds == Spec => []QuietAfterStop
<1>1. SchedulerInv => QuietAfterStop
    BY DEF SchedulerInv, Clocks
<1> QED
    BY <1>1, InitScheduler, StepScheduler, PTL DEF Spec

-----------------------------------------------------------------------------
(* The task file *)

\* As long as no update is lost, an operation that writes the whole file changes one entry; of
\* the others it may only miss that their time has come.
LEMMA WritesOne ==
    ASSUME TypeOK, NEW a \in Actors, NEW t \in Tasks, NEW e,
           Writes(a, [snap[a] EXCEPT ![t] = e]), ~disturbed'
    PROVE  /\ file'[t] = e /\ (snap[a][t] = "none" <=> file[t] = "none")
           /\ \A u \in Tasks \ {t} : /\ file'[u] = "none" <=> file[u] = "none"
                                     /\ file'[u] = "running" <=> file[u] = "running"
<1>1. snap[a] \in Files /\ file' = [snap[a] EXCEPT ![t] = e] /\ ~Stale(a)
    BY DEF Writes, Rename, Tear, TypeOK
<1>2. \A u \in Tasks : snap[a][u] = file[u] \/ {snap[a][u], file[u]} = {"later", "due"}
    BY <1>1 DEF Stale
<1>3. \A u \in Tasks : /\ snap[a][u] = "none" <=> file[u] = "none"
                       /\ snap[a][u] = "running" <=> file[u] = "running"
    <2> SUFFICES ASSUME NEW u \in Tasks, {snap[a][u], file[u]} = {"later", "due"}
                 PROVE  snap[a][u] \in {"later", "due"} /\ file[u] \in {"later", "due"}
        BY <1>2
    <2> QED
        OBVIOUS
<1> QED
    BY <1>1, <1>3 DEF Files

\* What the promise to a caller says of the file, and of those who still will write the task.
Told(t) ==
    /\ promise[t] = "kept" => file[t] # "none"
    /\ promise[t] = "gone" => file[t] = "none"
    /\ Copied(t) => promise[t] # "gone"

ToldAll == ~disturbed => \A t \in Tasks : Told(t)

LEMMA StillTold ==
    ASSUME NEW u \in Tasks, Told(u), promise'[u] = promise[u], file'[u] = "none" <=> file[u] = "none",
           Copied(u)' => Copied(u)
    PROVE  Told(u)'
BY DEF Told

LEMMA CopiesKept ==
    ASSUME NEW u \in Tasks, boot'[u] # "none" => boot[u] # "none",
           \A k \in Ticks : tick'[k].list \subseteq tick[k].list,
           \A r \in Runs : run'[r].pc = "marking" => run[r].pc = "marking" /\ run'[r].task = run[r].task
    PROVE  Copied(u)' => Copied(u)
BY DEF Copied

LEMMA StartTells ==
    ASSUME TypeOK, Owned, ToldAll, StartSteps, ~disturbed, ~disturbed', NEW u \in Tasks
    PROVE  Told(u)'
<1>0. Told(u) /\ \A t \in Tasks : t \in Actors
    BY DEF ToldAll, Actors
<1> USE DEF storeVars, timerVars, schedulerVars
<1>1. CASE ListAll
    <2>1. UNCHANGED <<file, promise, tick, run>> /\ (boot'[u] # "none" => file[u] # "none")
        BY <1>1 DEF ListAll
    <2> QED
        BY <1>0, <2>1 DEF Told, Copied
<1>2. CASE Started \/ \E t \in Tasks : BootRead(t)
    <2>1. UNCHANGED <<file, promise, boot, tick, run>>
        BY <1>2 DEF Started, BootRead
    <2> QED
        BY <1>0, <2>1 DEF Told, Copied
<1>3. ASSUME NEW t \in Tasks, BootWrite(t) PROVE Told(u)'
    <2>1. PICK e \in {"due", "later", "never"} : Writes(t, [snap[t] EXCEPT ![t] = e])
        BY <1>3 DEF BootWrite
    <2>2. /\ file'[t] = e
          /\ u # t => (file'[u] = "none" <=> file[u] = "none")
        BY <1>0, <2>1, WritesOne
    <2>3. boot[t] # "none"
        BY <1>0, <2>1 DEF Owned, Writes
    <2>4. UNCHANGED <<promise, tick, run>> /\ boot' = [boot EXCEPT ![t] = "none"]
        BY <1>3 DEF BootWrite
    <2>5. Copied(u)' => Copied(u)
        BY <2>4, CopiesKept DEF TypeOK
    <2>6. CASE u = t
        BY <1>0, <2>2, <2>3, <2>4, <2>5, <2>6 DEF Told, Copied
    <2>7. CASE u # t
        BY <1>0, <2>2, <2>4, <2>5, <2>7, StillTold
    <2> QED
        BY <2>6, <2>7
<1> QED
    BY <1>1, <1>2, <1>3 DEF StartSteps, BootRejected, Rejected

LEMMA TimersTell ==
    ASSUME TypeOK, ToldAll, TimerSteps, ~disturbed, NEW u \in Tasks
    PROVE  Told(u)'
<1>0. Told(u)
    BY DEF ToldAll
<1>1. UNCHANGED <<file, promise, boot, run>> /\ \E g \in 1..Generations : Begins(g)
    BY DEF TimerSteps, Fires, FiresLost, storeVars, TypeOK
<1>2. PICK k \in Ticks : /\ \A j \in Ticks : j # k => tick'[j] = tick[j]
                         /\ tick'[k].list = {t \in Tasks : file[t] = "due"}
    BY <1>1 DEF Begins, TypeOK, IdleTick
<1>3. Copied(u)' => Copied(u) \/ file[u] = "due"
    BY <1>1, <1>2 DEF Copied
<1> QED
    BY <1>0, <1>1, <1>3 DEF Told

LEMMA TicksTell ==
    ASSUME TypeOK, Owned, ToldAll, NEW k \in Ticks, TickSteps(k), ~disturbed, ~disturbed', NEW u \in Tasks
    PROVE  Told(u)'
<1>0. Told(u) /\ k \in Actors /\ tick[k] \in TickStates /\ tick[k].task \in Tasks
    BY DEF ToldAll, Actors, TypeOK, TickStates
<1> USE DEF storeVars, timerVars, schedulerVars
<1>1. CASE TickLoop(k)
    <2>1. PICK S \in SUBSET tick[k].list :
             /\ Starts(k, S)
             /\ \/ TickEnds(k)
                \/ \E t \in tick[k].list \ S :
                     tick' = [tick EXCEPT ![k].pc = "delay", ![k].task = t, ![k].list = @ \ S]
        BY <1>1 DEF TickLoop
    <2>2. PICK N \in SUBSET Free :
              /\ \A r \in Runs \ N : run'[r] = run[r]
              /\ \A r \in N : run'[r].task \in tick[k].list
        BY <2>1, StartsRuns
    <2>3. \A j \in Ticks : tick'[j].list \subseteq tick[j].list
        <3>1. CASE TickEnds(k)
            BY <3>1 DEF TickEnds, IdleTick, TypeOK
        <3>2. ASSUME NEW t, tick' = [tick EXCEPT ![k].pc = "delay", ![k].task = t, ![k].list = @ \ S]
              PROVE  \A j \in Ticks : tick'[j].list \subseteq tick[j].list
            BY <1>0, <3>2 DEF TypeOK, TickStates
        <3> QED
            BY <2>1, <3>1, <3>2
    <2>4. UNCHANGED <<file, promise, boot>>
        BY <1>1 DEF TickLoop
    <2>5. Copied(u)' => Copied(u)
        BY <2>2, <2>3, <2>4 DEF Copied
    <2> QED
        BY <1>0, <2>4, <2>5, StillTold
<1>2. CASE DelayReads(k)
    <2>1. UNCHANGED <<file, promise, boot, tick, run>>
        BY <1>2 DEF DelayReads
    <2> QED
        BY <1>0, <2>1 DEF Told, Copied
<1>3. CASE DelayWrites(k)
    <2> DEFINE t == tick[k].task
    <2>1. /\ file'[t] = "later"
          /\ u # t => (file'[u] = "none" <=> file[u] = "none")
        BY <1>0, <1>3, WritesOne DEF DelayWrites
    <2>2. t \in tick[k].list
        BY <1>3 DEF DelayWrites, Writes, Owned
    <2>3. UNCHANGED <<promise, boot, run>> /\ \A j \in Ticks : tick'[j].list \subseteq tick[j].list
        BY <1>0, <1>3 DEF DelayWrites, TypeOK, TickStates
    <2>4. Copied(u)' => Copied(u)
        BY <2>3, CopiesKept
    <2>5. CASE u = t
        BY <1>0, <2>1, <2>2, <2>3, <2>4, <2>5 DEF Told, Copied
    <2>6. CASE u # t
        BY <1>0, <2>1, <2>3, <2>4, <2>6, StillTold
    <2> QED
        BY <2>5, <2>6
<1> QED
    BY <1>1, <1>2, <1>3 DEF TickSteps, DelayRejected, Rejected

LEMMA RunCopies ==
    ASSUME TypeOK, NEW r \in Runs, RunSteps(r), NEW u \in Tasks
    PROVE  Copied(u)' => Copied(u)
<1>1. UNCHANGED <<boot, tick>> /\ RunMoves(r) /\ run[r] \in RunStates
    BY RunKeeps, RunStepMoves DEF TypeOK
<1>2. \A q \in Runs : run'[q].pc = "marking" => run[q].pc = "marking" /\ run'[q].task = run[q].task
    <2>1. ASSUME run'[r].pc = "marking" PROVE run'[r] = run[r]
        BY <1>1, <2>1 DEF RunMoves, RunStates, FreeRun
    <2> QED
        BY <1>1, <2>1 DEF RunMoves
<1> QED
    BY <1>1, <1>2, CopiesKept

LEMMA RunsTell ==
    ASSUME TypeOK, ToldAll, NEW r \in Runs, RunSteps(r), ~disturbed, ~disturbed', NEW u \in Tasks
    PROVE  Told(u)'
<1> DEFINE t == run[r].task
<1>0. Told(u) /\ r \in Actors /\ t \in Tasks /\ (Copied(u)' => Copied(u))
    BY RunCopies DEF ToldAll, Actors, TypeOK, RunStates
<1>1. ASSUME NEW e, Writes(r, [snap[r] EXCEPT ![t] = e])
      PROVE  /\ file'[t] = e /\ (snap[r][t] = "none" <=> file[t] = "none")
             /\ u # t => (file'[u] = "none" <=> file[u] = "none")
    BY <1>0, <1>1, WritesOne
<1> HIDE DEF t
<1> USE DEF storeVars, timerVars, schedulerVars
<1>2. CASE MarkReads(r) \/ TurnEnds(r) \/ Recorded(r) \/ RecordedOnly(r)
    BY <1>0, <1>2, StillTold DEF MarkReads, TurnEnds, Recorded, RecordedOnly
<1>3. CASE Marks(r)
    <2>1. /\ file'[t] = "running" /\ UNCHANGED promise
          /\ u # t => (file'[u] = "none" <=> file[u] = "none")
        BY <1>1, <1>3 DEF Marks, t
    <2>2. u = t => Copied(u)
        BY <1>3 DEF Marks, Copied, t
    <2>3. CASE u = t
        BY <1>0, <2>1, <2>2, <2>3 DEF Told
    <2>4. CASE u # t
        BY <1>0, <2>1, <2>4, StillTold
    <2> QED
        BY <2>3, <2>4
<1>4. CASE SettlesRecurring(r)
    <2>1. PICK e \in NextEntries(r) : Writes(r, [snap[r] EXCEPT ![t] = e])
        BY <1>4 DEF SettlesRecurring, t
    <2>2. e = "none" <=> snap[r][t] = "none"
        BY DEF NextEntries, t
    <2>3. file'[u] = "none" <=> file[u] = "none"
        BY <1>1, <2>1, <2>2
    <2> QED
        BY <1>0, <1>4, <2>3, StillTold DEF SettlesRecurring
<1>5. CASE SettlesOnce(r)
    <2>1. /\ file'[t] = "none" /\ promise' = Gone(t)
          /\ u # t => (file'[u] = "none" <=> file[u] = "none")
        BY <1>1, <1>5 DEF SettlesOnce, t
    <2>2. CASE u = t
        <3>1. promise'[u] = IF Copied(u) THEN "open" ELSE "gone"
            BY <1>0, <2>1, <2>2 DEF Gone, TypeOK
        <3> QED
            BY <1>0, <2>1, <2>2, <3>1 DEF Told
    <2>3. CASE u # t
        BY <1>0, <2>1, <2>3, StillTold DEF Gone, TypeOK
    <2> QED
        BY <2>2, <2>3
<1> QED
    BY <1>2, <1>3, <1>4, <1>5
    DEF RunSteps, MarkRejected, RecordRejected, SettleRejected, Rejected

LEMMA CallsTell ==
    ASSUME TypeOK, ToldAll, NEW c \in Calls, CallBegins(c) \/ CallSteps(c), ~disturbed, ~disturbed',
           NEW u \in Tasks
    PROVE  Told(u)'
<1> DEFINE t == call[c].task
<1>0. Told(u) /\ c \in Actors /\ t \in Tasks /\ (Copied(u)' <=> Copied(u))
    BY CallKeeps DEF ToldAll, Actors, TypeOK, CallStates, Copied
<1>1. ASSUME NEW e, Writes(c, [snap[c] EXCEPT ![t] = e])
      PROVE  /\ file'[t] = e
             /\ u # t => (file'[u] = "none" <=> file[u] = "none")
    BY <1>0, <1>1, WritesOne
<1> HIDE DEF t
<1> USE DEF storeVars, timerVars, schedulerVars
<1>2. ASSUME NEW v \in Tasks, CreateCalled(c, v) PROVE Told(u)'
    <2>1. UNCHANGED file /\ promise' = [promise EXCEPT ![v] = "open"]
        BY <1>2 DEF CreateCalled
    <2> QED
        BY <1>0, <2>1 DEF Told, TypeOK
<1>3. ASSUME NEW v \in Tasks, StopCalled(c, v) \/ DeleteCalled(c, v) \/ DeleteMisses(c, v) PROVE Told(u)'
    BY <1>0, <1>3, StillTold DEF StopCalled, DeleteCalled, DeleteMisses
<1>4. CASE Aborted(c) \/ AbortedOnly(c)
    BY <1>0, <1>4, StillTold DEF Aborted, AbortedOnly
<1>5. CASE Creates(c)
    <2>1. /\ file'[t] = "later" /\ promise' = [promise EXCEPT ![t] = "kept"]
          /\ u # t => (file'[u] = "none" <=> file[u] = "none")
        BY <1>1, <1>5 DEF Creates, t
    <2>2. CASE u = t
        BY <1>0, <2>1, <2>2 DEF Told, TypeOK
    <2>3. CASE u # t
        BY <1>0, <2>1, <2>3, StillTold DEF TypeOK
    <2> QED
        BY <2>2, <2>3
<1>6. CASE Deletes(c)
    <2>1. /\ file'[t] = "none" /\ promise' = Gone(t)
          /\ u # t => (file'[u] = "none" <=> file[u] = "none")
        BY <1>1, <1>6 DEF Deletes, t
    <2>2. CASE u = t
        <3>1. promise'[u] = IF Copied(u) THEN "open" ELSE "gone"
            BY <1>0, <2>1, <2>2 DEF Gone, TypeOK
        <3> QED
            BY <1>0, <2>1, <2>2, <3>1 DEF Told
    <2>3. CASE u # t
        BY <1>0, <2>1, <2>3, StillTold DEF Gone, TypeOK
    <2> QED
        BY <2>2, <2>3
<1> QED
    BY <1>2, <1>3, <1>4, <1>5, <1>6
    DEF CallBegins, RunNowCalled, CallSteps, CallRejected, Rejected

LEMMA StepTold == TypeOK /\ Owned /\ ToldAll /\ [Next]_vars => ToldAll'
<1> SUFFICES ASSUME TypeOK, Owned, ToldAll, [Next]_vars, ~disturbed', NEW u \in Tasks PROVE Told(u)'
    BY DEF ToldAll
<1>0. ~disturbed /\ Told(u)
    BY DisturbedStays DEF ToldAll
<1>1. CASE Stop \/ Stopped \/ Rebuild \/ UNCHANGED vars
    <2>1. UNCHANGED <<file, promise, boot, tick, run>>
        BY <1>1 DEF Stop, Stopped, Rebuild, vars, storeVars, schedulerVars
    <2> QED
        BY <1>0, <2>1 DEF Told, Copied
<1>2. ASSUME NEW t \in Tasks, TimePasses(t) PROVE Told(u)'
    <2>1. /\ UNCHANGED <<promise, boot, tick, run>>
          /\ file[t] = "later" /\ file' = [file EXCEPT ![t] = "due"]
        BY <1>2 DEF TimePasses, schedulerVars
    <2>2. file'[u] = "none" <=> file[u] = "none"
        BY <2>1 DEF TypeOK, Files
    <2> QED
        BY <1>0, <2>1, <2>2 DEF Told, Copied
<1> QED
    BY <1>0, <1>1, <1>2, StartTells, TimersTell, TicksTell, RunsTell, CallsTell DEF Next

\* As long as no update of the file was lost: a task a caller was told of is in the file until
\* it is deleted or has run once, and a deleted one does not come back unless a tick, a run or
\* the start held a copy of it.
THEOREM TasksComeAndGoAsToldHolds == Spec => []TasksComeAndGoAsTold
<1> DEFINE Inv == SchedulerInv /\ ToldAll
<1>1. Init => Inv
    <2>1. Init => ToldAll
        BY DEF Init, ToldAll, Told, Copied, IdleTick, FreeRun
    <2> QED
        BY <2>1, InitScheduler
<1>2. Inv /\ [Next]_vars => Inv'
    BY StepScheduler, StepTold DEF SchedulerInv
<1>3. Inv => TasksComeAndGoAsTold
    BY DEF ToldAll, Told, TasksComeAndGoAsTold, TasksAreKept, DeletedTasksStayGone
<1> QED
    BY <1>1, <1>2, <1>3, PTL DEF Spec

\* What the file calls running, somebody will schedule again.
Served(t) ==
    file[t] = "running" =>
        \/ phase = "starting" \/ boot[t] # "none"
        \/ \E r \in Runs : run[r].task = t /\ run[r].pc \in {"turn", "recording", "settling"}

LEMMA StartServes ==
    ASSUME TypeOK, StartSteps, ~disturbed', NEW u \in Tasks, Served(u) PROVE Served(u)'
<1>0. \A t \in Tasks : t \in Actors
    BY DEF Actors
<1> USE DEF storeVars, timerVars, schedulerVars
<1>1. CASE ListAll
    BY <1>1 DEF ListAll, Served
<1>2. CASE Started \/ \E t \in Tasks : BootRead(t)
    BY <1>2 DEF Started, BootRead, Served
<1>3. ASSUME NEW t \in Tasks, BootWrite(t) PROVE Served(u)'
    <2>1. PICK e \in {"due", "later", "never"} : Writes(t, [snap[t] EXCEPT ![t] = e])
        BY <1>3 DEF BootWrite
    <2>2. /\ file'[t] # "running"
          /\ u # t => (file'[u] = "running" <=> file[u] = "running")
        BY <1>0, <2>1, WritesOne
    <2>3. UNCHANGED <<phase, run>> /\ boot' = [boot EXCEPT ![t] = "none"]
        BY <1>3 DEF BootWrite
    <2>4. CASE u = t
        BY <2>2, <2>4 DEF Served
    <2>5. CASE u # t
        BY <2>2, <2>3, <2>5 DEF Served, TypeOK
    <2> QED
        BY <2>4, <2>5
<1> QED
    BY <1>1, <1>2, <1>3 DEF StartSteps, BootRejected, Rejected

LEMMA TicksServe ==
    ASSUME TypeOK, NEW k \in Ticks, TickSteps(k), ~disturbed', NEW u \in Tasks, Served(u)
    PROVE  Served(u)'
<1>0. k \in Actors /\ tick[k].task \in Tasks
    BY DEF Actors, TypeOK, TickStates
<1> USE DEF storeVars, timerVars, schedulerVars
<1>1. CASE TickLoop(k)
    <2>1. \E S : Starts(k, S)
        BY <1>1 DEF TickLoop
    <2>2. PICK N \in SUBSET Free : \A r \in Runs \ N : run'[r] = run[r]
        BY <2>1, StartsRuns
    <2> QED
        BY <1>1, <2>2 DEF TickLoop, Served, Free
<1>2. CASE DelayReads(k)
    BY <1>2 DEF DelayReads, Served
<1>3. CASE DelayWrites(k)
    <2>1. file'[u] = "running" => file[u] = "running"
        BY <1>0, <1>3, WritesOne DEF DelayWrites
    <2> QED
        BY <1>3, <2>1 DEF DelayWrites, Served
<1> QED
    BY <1>1, <1>2, <1>3 DEF TickSteps, DelayRejected, Rejected

LEMMA RunsServe ==
    ASSUME TypeOK, NEW r \in Runs, RunSteps(r), ~disturbed', NEW u \in Tasks, Served(u)
    PROVE  Served(u)'
<1> DEFINE t == run[r].task
<1>0. /\ UNCHANGED <<phase, boot>> /\ r \in Actors /\ run[r] \in RunStates /\ t \in Tasks
      /\ \A q \in Runs : q # r => run'[q] = run[q]
    BY RunKeeps, RunStepMoves DEF RunMoves, Actors, TypeOK, RunStates
<1>1. ASSUME NEW e, Writes(r, [snap[r] EXCEPT ![t] = e])
      PROVE  /\ file'[t] = e
             /\ u # t => (file'[u] = "running" <=> file[u] = "running")
    BY <1>0, <1>1, WritesOne
<1>2. ASSUME run'[r].task = t, run'[r].pc \in {"turn", "recording", "settling"},
             u # t => (file'[u] = "running" => file[u] = "running")
      PROVE  Served(u)'
    <2>1. CASE u = t
        BY <1>2, <2>1 DEF Served
    <2>2. CASE u # t
        BY <1>0, <1>2, <2>2 DEF Served
    <2> QED
        BY <2>1, <2>2
<1>3. ASSUME file'[t] # "running", u # t => (file'[u] = "running" => file[u] = "running")
      PROVE  Served(u)'
    <2>1. CASE u = t
        BY <1>3, <2>1 DEF Served
    <2>2. CASE u # t
        BY <1>0, <1>3, <2>2 DEF Served
    <2> QED
        BY <2>1, <2>2
<1> USE DEF storeVars, timerVars, schedulerVars
<1>4. CASE MarkReads(r)
    BY <1>4 DEF MarkReads, Served
<1>5. CASE Marks(r)
    <2>1. run'[r].task = t /\ run'[r].pc = "turn"
        BY <1>0, <1>5 DEF Marks, TypeOK, RunStates
    <2> QED
        BY <1>1, <1>2, <1>5, <2>1 DEF Marks
<1>6. CASE TurnEnds(r) \/ Recorded(r)
    <2>1. UNCHANGED file /\ run'[r].task = t /\ run'[r].pc \in {"recording", "settling"}
        BY <1>0, <1>6 DEF TurnEnds, Recorded, TypeOK, RunStates
    <2> QED
        BY <1>2, <2>1
<1>7. CASE RecordedOnly(r)
    BY <1>3, <1>7 DEF RecordedOnly, Forgotten
<1>8. CASE SettlesRecurring(r)
    <2>1. PICK e \in NextEntries(r) : Writes(r, [snap[r] EXCEPT ![t] = e])
        BY <1>8 DEF SettlesRecurring
    <2>2. e # "running"
        BY DEF NextEntries
    <2> QED
        BY <1>1, <1>3, <2>1, <2>2
<1>9. CASE SettlesOnce(r)
    <2>1. Writes(r, [snap[r] EXCEPT ![t] = "none"])
        BY <1>9 DEF SettlesOnce
    <2> QED
        BY <1>1, <1>3, <2>1
<1> QED
    BY <1>4, <1>5, <1>6, <1>7, <1>8, <1>9
    DEF RunSteps, MarkRejected, RecordRejected, SettleRejected, Rejected

LEMMA CallsServe ==
    ASSUME TypeOK, NEW c \in Calls, CallBegins(c) \/ CallSteps(c), ~disturbed',
           NEW u \in Tasks, Served(u)
    PROVE  Served(u)'
<1> DEFINE t == call[c].task
<1>0. UNCHANGED <<phase, boot, run>> /\ c \in Actors /\ t \in Tasks
    BY CallKeeps DEF Actors, TypeOK, CallStates
<1>1. ASSUME NEW e, e # "running", Writes(c, [snap[c] EXCEPT ![t] = e])
      PROVE  file'[u] = "running" => file[u] = "running"
    BY <1>0, <1>1, WritesOne
<1>2. file'[u] = "running" => file[u] = "running"
    <2> USE DEF storeVars, timerVars, schedulerVars
    <2>1. CASE Creates(c)
        BY <1>1, <2>1 DEF Creates
    <2>2. CASE Deletes(c)
        BY <1>1, <2>2 DEF Deletes
    <2>3. CASE CallBegins(c)
        BY <2>3 DEF CallBegins, CreateCalled, RunNowCalled, StopCalled, DeleteCalled, DeleteMisses
    <2>4. CASE Aborted(c) \/ AbortedOnly(c) \/ CallRejected(c)
        BY <2>4 DEF Aborted, AbortedOnly, CallRejected, Rejected
    <2> QED
        BY <2>1, <2>2, <2>3, <2>4 DEF CallSteps
<1> QED
    BY <1>0, <1>2 DEF Served

\* A task the file calls running, none of its updates lost, has a run that will schedule it
\* again, or a start of the scheduler that will.
THEOREM RunningTasksHaveRunsHolds == Spec => []RunningTasksHaveRuns
<1>1. Init => RunningTasksHaveRuns
    BY DEF Init, RunningTasksHaveRuns
<1>2. TypeOK /\ RunningTasksHaveRuns /\ [Next]_vars => RunningTasksHaveRuns'
    <2> SUFFICES ASSUME TypeOK, RunningTasksHaveRuns, [Next]_vars, ~disturbed', NEW u \in Tasks
                 PROVE  Served(u)'
        BY DEF RunningTasksHaveRuns, Served
    <2>0. Served(u)
        BY DisturbedStays DEF RunningTasksHaveRuns, Served
    <2>1. CASE Stop \/ Stopped \/ Rebuild \/ UNCHANGED vars
        BY <2>0, <2>1 DEF Stop, Stopped, Rebuild, vars, storeVars, schedulerVars, Served
    <2>2. ASSUME NEW t \in Tasks, TimePasses(t) PROVE Served(u)'
        BY <2>0, <2>2 DEF TimePasses, schedulerVars, Served, TypeOK, Files
    <2>3. CASE TimerSteps
        BY <2>0, <2>3 DEF TimerSteps, Fires, FiresLost, storeVars, Served
    <2> QED
        BY <2>0, <2>1, <2>2, <2>3, StartServes, TicksServe, RunsServe, CallsServe DEF Next
<1> QED
    BY <1>1, <1>2, TypeCorrect, PTL DEF Spec
==============================================================================
