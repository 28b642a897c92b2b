------------------------------ MODULE CronTasks ------------------------------
(***************************************************************************)
(* The scheduled tasks of one project: CronTaskStore rewrites the whole    *)
(* task file in every operation, CronScheduler's ticks start due tasks,    *)
(* CronFire carries out their runs, and CronRuntime serves the calls that  *)
(* create, delete, stop and start tasks.  A reload of the configuration    *)
(* replaces the runtime while its runs go on.                              *)
(*                                                                         *)
(* A task of the file is "later" or "due" (scheduled, its nextRunAt ahead  *)
(* or reached), "never" (scheduled without a nextRunAt) or "running".      *)
(* What a process left behind at its end, a crash included, is an initial  *)
(* file: the rename of writeTaskFile leaves a whole file at any moment.    *)
(***************************************************************************)
EXTENDS Naturals, FiniteSets

CONSTANTS
    Tasks,          \* task ids, each created at most once
    Recurring,      \* those with a cron expression; the others run once
    Rare,           \* those whose next date may be out of computeNextRunAt's reach
    Runs,           \* bound: runs that exist at a time
    Ticks,          \* bound: ticks and timers of one scheduler at a time
    Calls,          \* bound: calls of CronRuntime under way at a time
    MaxRuns,        \* config.maxConcurrentRuns
    MaxOpen,        \* bound: operations between their read and their write at a time
    Generations,    \* bound: runtimes built one after another in a process
    NoFile, NoTick  \* no snapshot, no tick

Actors == Tasks \cup Runs \cup Ticks \cup Calls

ASSUME CronAssumption ==
    /\ Tasks # {} /\ Rare \subseteq Recurring /\ Recurring \subseteq Tasks
    /\ MaxRuns \in Nat \ {0} /\ Generations \in Nat \ {0}
    /\ IsFiniteSet(Runs) /\ IsFiniteSet(Tasks) /\ IsFiniteSet(Ticks)
    /\ NoTick \notin Ticks /\ NoFile \notin [Tasks -> {"none", "later", "due", "never", "running"}]
    /\ Tasks \cap Runs = {} /\ (Tasks \cup Runs) \cap Ticks = {}
    /\ (Tasks \cup Runs \cup Ticks) \cap Calls = {}

VARIABLES
    file,       \* the task file
    snap,       \* what an operation has read and will write back changed
    disturbed,  \* an update was overwritten, torn or rejected (history)
    promise,    \* what the callers were told of a task (history)
    phase,      \* of the current runtime
    gen,        \* number of the current runtime
    timer,      \* is a timer pending whose handle is in this.timer?
    lost,       \* pending timers of each runtime whose handle was overwritten
    doubled,    \* runtimes that armed a second timer (history)
    tip,        \* tickInProgress
    boot,       \* the tasks recalculateAllNextRuns rewrites, as it has read them
    tick,       \* the ticks under way
    run,        \* the runs under way
    active,     \* activeRuns of all runtimes
    call        \* the calls under way

storeVars == <<file, snap, disturbed, promise>>
timerVars == <<timer, lost, doubled, tip>>
schedulerVars == <<phase, gen, timerVars, boot>>
vars == <<storeVars, schedulerVars, tick, run, active, call>>

Entries == {"later", "due", "never", "running"}
Files == [Tasks -> Entries \cup {"none"}]
Phases == {"starting", "resetting", "up", "failed", "stopping", "stopped"}
RunPhases == {"free", "marking", "turn", "recording", "settling", "leaked"}
AnyTask == CHOOSE t \in Tasks : TRUE
IdleTick == [pc |-> "idle", gen |-> 1, list |-> {}, task |-> AnyTask]
IdleCall == [pc |-> "idle", op |-> "none", task |-> AnyTask]
FreeRun == [pc |-> "free", gen |-> 1, task |-> AnyTask]
TickStates == [pc : {"idle", "loop", "delay"}, gen : 1..Generations, list : SUBSET Tasks, task : Tasks]
RunStates == [pc : RunPhases, gen : 1..Generations, task : Tasks]
CallStates == [pc : {"idle", "aborting", "store"},
               op : {"none", "create", "delete", "stop", "stopDelete"}, task : Tasks]

TypeOK ==
    /\ file \in Files
    /\ snap \in [Actors -> Files \cup {NoFile}]
    /\ disturbed \in BOOLEAN
    /\ promise \in [Tasks -> {"unused", "open", "kept", "gone"}]
    /\ phase \in Phases /\ gen \in 1..Generations
    /\ timer \in BOOLEAN /\ lost \in [1..Generations -> Nat]
    /\ doubled \subseteq 1..Generations /\ tip \in Ticks \cup {NoTick}
    /\ boot \in [Tasks -> {"none", "running", "never"}]
    /\ tick \in [Ticks -> TickStates]
    /\ run \in [Runs -> RunStates] /\ active \subseteq Runs
    /\ call \in [Calls -> CallStates]

Init ==
    /\ file \in Files
    /\ \A t \in Tasks : file[t] = "never" => t \in Rare
    /\ snap = [a \in Actors |-> NoFile]
    /\ disturbed = FALSE
    /\ promise = [t \in Tasks |-> IF file[t] = "none" THEN "unused" ELSE "kept"]
    /\ phase = "starting" /\ gen = 1
    /\ timer = FALSE /\ lost = [g \in 1..Generations |-> 0] /\ doubled = {} /\ tip = NoTick
    /\ boot = [t \in Tasks |-> "none"]
    /\ tick = [k \in Ticks |-> IdleTick]
    /\ run = [r \in Runs |-> FreeRun] /\ active = {}
    /\ call = [c \in Calls |-> IdleCall]

-----------------------------------------------------------------------------
(* CronTaskStore: every operation reads the file, waits, and writes it whole *)

Open == {a \in Actors : snap[a] # NoFile}

Read(a) ==
    /\ snap[a] = NoFile
    /\ Cardinality(Open) < MaxOpen
    /\ snap' = [snap EXCEPT ![a] = file]

\* Does the snapshot miss an update?  The passing of time is none.
Stale(a) ==
    \E t \in Tasks : /\ snap[a][t] # file[t]
                     /\ {snap[a][t], file[t]} # {"later", "due"}

\* The rename succeeds.
Rename(a, new) ==
    /\ file' = new
    /\ disturbed' = (disturbed \/ Stale(a))

\* Two operations that write in one millisecond share their temporary file: what is
\* renamed may have been truncated by the other, and reads as a file without tasks.
Tear(a) ==
    /\ \E b \in Actors \ {a} : snap[b] # NoFile
    /\ file' = [t \in Tasks |-> "none"]
    /\ disturbed' = TRUE

Writes(a, new) ==
    /\ snap[a] # NoFile
    /\ snap' = [snap EXCEPT ![a] = NoFile]
    /\ Rename(a, new) \/ Tear(a)

\* The write or the rename is rejected: the disk, or a temporary file renamed already.
Rejected(a) ==
    /\ snap[a] # NoFile
    /\ snap' = [snap EXCEPT ![a] = NoFile]
    /\ disturbed' = TRUE
    /\ UNCHANGED file

\* Someone will still write t as they have read it before.
Copied(t) ==
    \/ \E k \in Ticks : t \in tick[k].list
    \/ \E r \in Runs : run[r].pc = "marking" /\ run[r].task = t
    \/ boot[t] # "none"

\* What a caller may rely on once t is out of the file.
Gone(t) == [promise EXCEPT ![t] = IF Copied(t) THEN "open" ELSE "gone"]

TimePasses(t) ==
    /\ file[t] = "later"
    /\ file' = [file EXCEPT ![t] = "due"]
    /\ UNCHANGED <<snap, disturbed, promise, schedulerVars, tick, run, active, call>>

-----------------------------------------------------------------------------
(* CronScheduler: its start, its timers and its ticks *)

Scheduling == phase \in {"resetting", "up", "failed"}  \* running and not stopped

Busy(g) == {k \in Ticks : tick[k].pc # "idle" /\ tick[k].gen = g}
Chains == Cardinality(Busy(gen)) + lost[gen] + (IF timer THEN 1 ELSE 0)

\* scheduleNextTick, while the ticks in others are under way: the handle of a timer that is
\* still pending is overwritten.
ScheduleNextTick(others) ==
    IF Scheduling
    THEN /\ timer' = TRUE
         /\ lost' = IF timer THEN [lost EXCEPT ![gen] = @ + 1] ELSE lost
         /\ doubled' = IF timer \/ others # {} \/ lost[gen] > 0 THEN doubled \cup {gen} ELSE doubled
    ELSE UNCHANGED <<timer, lost, doubled>>

\* poke clears the timer it knows and arms another.  Bound: the chains of timers.
Poke ==
    IF Scheduling
    THEN /\ timer \/ Chains < Cardinality(Ticks)
         /\ timer' = TRUE
         /\ doubled' = IF Busy(gen) # {} \/ lost[gen] > 0 THEN doubled \cup {gen} ELSE doubled
         /\ UNCHANGED lost
    ELSE UNCHANGED <<timer, lost, doubled>>

\* Mutant: what was running stays so.
ListAllKeeping ==
    /\ phase = "starting"
    /\ phase' = "resetting"
    /\ boot' = [t \in Tasks |-> IF file[t] = "never" THEN file[t] ELSE "none"]
    /\ UNCHANGED <<storeVars, gen, timerVars, tick, run, active, call>>

\* CronRuntime.start finds no task of an old format, and recalculateAllNextRuns reads the
\* tasks and rewrites some of them, all at once.
ListAll ==
    /\ phase = "starting"
    /\ phase' = "resetting"
    /\ boot' = [t \in Tasks |-> IF file[t] \in {"running", "never"} THEN file[t] ELSE "none"]
    /\ UNCHANGED <<storeVars, gen, timerVars, tick, run, active, call>>

BootRead(t) ==
    /\ boot[t] # "none"
    /\ Read(t)
    /\ UNCHANGED <<file, disturbed, promise, schedulerVars, tick, run, active, call>>

\* A task that was running when the process ended is scheduled again; one without a
\* nextRunAt has it computed anew.
BootWrite(t) ==
    /\ \E e \in IF boot[t] = "running" THEN {"due"} ELSE {"later", "never"} :
           Writes(t, [snap[t] EXCEPT ![t] = e])
    /\ boot' = [boot EXCEPT ![t] = "none"]
    /\ UNCHANGED <<promise, phase, gen, timerVars, tick, run, active, call>>

\* start() rejects with the first rejected write, and arms no timer.
BootRejected(t) ==
    /\ Rejected(t)
    /\ boot' = [boot EXCEPT ![t] = "none"]
    /\ phase' = IF phase = "resetting" THEN "failed" ELSE phase
    /\ UNCHANGED <<promise, gen, timerVars, tick, run, active, call>>

\* Mutant: the first tick waits for a poke.
StartedIdle ==
    /\ phase = "resetting"
    /\ \A t \in Tasks : boot[t] = "none"
    /\ phase' = "up"
    /\ UNCHANGED <<storeVars, gen, timerVars, boot, tick, run, active, call>>

Started ==
    /\ phase = "resetting"
    /\ \A t \in Tasks : boot[t] = "none"
    /\ phase' = "up"
    /\ ScheduleNextTick(Busy(gen))
    /\ UNCHANGED <<storeVars, gen, tip, boot, tick, run, active, call>>

\* The callback of a timer: tick() reads the tasks.
Begins(g) ==
    \E k \in Ticks :
        /\ tick[k].pc = "idle"
        /\ tick' = [tick EXCEPT ![k] = [IdleTick EXCEPT !.pc = "loop", !.gen = g,
                                            !.list = {t \in Tasks : file[t] = "due"}]]
        /\ tip' = IF g = gen /\ Scheduling THEN k ELSE tip

Fires ==
    /\ timer
    /\ timer' = FALSE
    /\ Begins(gen)
    /\ UNCHANGED <<storeVars, phase, gen, lost, doubled, boot, run, active, call>>

\* Mutant: a lost timer fires again and again.
FiresLostAgain(g) ==
    /\ g = gen
    /\ lost' = [lost EXCEPT ![g] = @ - 1] /\ UNCHANGED timer
    /\ Begins(g)
    /\ UNCHANGED <<storeVars, phase, gen, doubled, boot, run, active, call>>

\* A timer whose handle was overwritten is beyond poke and stop, and its callback forgets
\* the handle of the timer that is pending.
FiresLost(g) ==
    /\ lost[g] > 0
    /\ IF g = gen /\ timer
       THEN timer' = FALSE /\ UNCHANGED lost
       ELSE lost' = [lost EXCEPT ![g] = @ - 1] /\ UNCHANGED timer
    /\ Begins(g)
    /\ UNCHANGED <<storeVars, phase, gen, doubled, boot, run, active, call>>

\* The tick is over, or failed, and the next one is scheduled.
TickEnds(k) ==
    /\ tick' = [tick EXCEPT ![k] = IdleTick]
    /\ tip' = IF tick[k].gen = gen /\ (Scheduling \/ tip = k) THEN NoTick ELSE tip
    /\ IF tick[k].gen = gen THEN ScheduleNextTick(Busy(gen) \ {k})
                             ELSE UNCHANGED <<timer, lost, doubled>>

Active(g) == {r \in active : run[r].gen = g}
Free == {r \in Runs : run[r].pc = "free"}
Slots(g) == MaxRuns - Cardinality(Active(g))

\* The loop of tick up to its next await: as many tasks as there are slots are started,
\* then one is put off.  The order of the tasks, by nextRunAt, is left open.
Starts(k, S) ==
    /\ S \subseteq tick[k].list
    /\ Cardinality(S) = IF Cardinality(tick[k].list) <= Slots(tick[k].gen)
                        THEN Cardinality(tick[k].list) ELSE Slots(tick[k].gen)
    /\ \E new \in [S -> Free] :
         /\ \A s, t \in S : new[s] = new[t] => s = t
         /\ active' = active \cup {new[t] : t \in S}
         /\ run' = [r \in Runs |->
                IF \E t \in S : new[t] = r
                THEN [pc |-> "marking", gen |-> tick[k].gen, task |-> CHOOSE t \in S : new[t] = r]
                ELSE run[r]]

TickLoop(k) ==
    /\ tick[k].pc = "loop"
    /\ \E S \in SUBSET tick[k].list :
         /\ Starts(k, S)
         /\ \/ /\ S = tick[k].list
               /\ TickEnds(k)
            \/ \E t \in tick[k].list \ S :
                 /\ tick' = [tick EXCEPT ![k].pc = "delay", ![k].task = t,
                                         ![k].list = @ \ S]
                 /\ UNCHANGED timerVars
    /\ UNCHANGED <<storeVars, phase, gen, boot, call>>

DelayReads(k) ==
    /\ tick[k].pc = "delay"
    /\ Read(k)
    /\ UNCHANGED <<file, disturbed, promise, schedulerVars, tick, run, active, call>>

\* delayTask puts the tick's copy of the task, a minute on.
DelayWrites(k) ==
    /\ Writes(k, [snap[k] EXCEPT ![tick[k].task] = "later"])
    /\ tick' = [tick EXCEPT ![k].pc = "loop", ![k].list = @ \ {tick[k].task}]
    /\ UNCHANGED <<promise, schedulerVars, run, active, call>>

\* Mutant: a tick that failed is the last.
DelayRejectedLast(k) ==
    /\ Rejected(k)
    /\ tick' = [tick EXCEPT ![k] = IdleTick]
    /\ UNCHANGED <<promise, phase, gen, timerVars, boot, run, active, call>>

DelayRejected(k) ==
    /\ Rejected(k)
    /\ TickEnds(k)
    /\ UNCHANGED <<promise, phase, gen, boot, run, active, call>>

\* Mutant: the timer is left to fire.
StopOnly ==
    /\ phase \in {"up", "failed"} /\ gen < Generations
    /\ phase' = "stopping"
    /\ UNCHANGED <<storeVars, gen, timerVars, boot, tick, run, active, call>>

\* stop() clears the timer it knows and waits for the tick it knows.
Stop ==
    /\ phase \in {"up", "failed"} /\ gen < Generations
    /\ phase' = "stopping"
    /\ timer' = FALSE
    /\ UNCHANGED <<storeVars, gen, lost, doubled, tip, boot, tick, run, active, call>>

Stopped ==
    /\ phase = "stopping" /\ tip = NoTick
    /\ phase' = "stopped"
    /\ UNCHANGED <<storeVars, gen, timerVars, boot, tick, run, active, call>>

\* The reload builds a new runtime; the runs of the old one go on.
Rebuild ==
    /\ phase = "stopped"
    /\ \A t \in Tasks : boot[t] = "none"   \* bound: a start that failed has settled
    /\ gen' = gen + 1
    /\ phase' = "starting"
    /\ UNCHANGED <<storeVars, timerVars, boot, tick, run, active, call>>

-----------------------------------------------------------------------------
(* CronFire.runTask *)

MarkReads(r) ==
    /\ run[r].pc = "marking"
    /\ Read(r)
    /\ UNCHANGED <<file, disturbed, promise, schedulerVars, tick, run, active, call>>

\* The run puts the tick's copy of the task, whatever the file says of it now.
Marks(r) ==
    /\ run[r].pc = "marking"
    /\ Writes(r, [snap[r] EXCEPT ![run[r].task] = "running"])
    /\ run' = [run EXCEPT ![r].pc = "turn"]
    /\ UNCHANGED <<promise, schedulerVars, tick, active, call>>

\* This write is outside the try: the run is over, and never unregistered.
MarkRejected(r) ==
    /\ run[r].pc = "marking"
    /\ Rejected(r)
    /\ run' = [run EXCEPT ![r].pc = "leaked"]
    /\ UNCHANGED <<promise, schedulerVars, tick, active, call>>

\* Mutant: a run that fails is not unregistered.
TurnEndsWell(r) ==
    /\ run[r].pc = "turn"
    /\ active' \in {active, active \ {r}}
    /\ run' = [run EXCEPT ![r].pc = "recording"]
    /\ UNCHANGED <<storeVars, schedulerVars, tick, call>>

\* The turn completes, fails, is aborted or refused, or an event cannot be recorded.
TurnEnds(r) ==
    /\ run[r].pc = "turn"
    /\ active' = active \ {r}
    /\ run' = [run EXCEPT ![r].pc = "recording"]
    /\ UNCHANGED <<storeVars, schedulerVars, tick, call>>

Forgotten(r) == run[r].task \notin Recurring /\ file[run[r].task] = "none"

\* appendRun, and the read of updateTask or deleteTask.
Recorded(r) ==
    /\ run[r].pc = "recording"
    /\ ~Forgotten(r)
    /\ Read(r)
    /\ run' = [run EXCEPT ![r].pc = "settling"]
    /\ UNCHANGED <<file, disturbed, promise, schedulerVars, tick, active, call>>

\* deleteTask does not find the task.
RecordedOnly(r) ==
    /\ run[r].pc = "recording"
    /\ Forgotten(r)
    /\ run' = [run EXCEPT ![r] = FreeRun]
    /\ UNCHANGED <<storeVars, schedulerVars, tick, active, call>>

\* appendRun rejects in the finally, and the task is not updated.
RecordRejected(r) ==
    /\ run[r].pc = "recording"
    /\ run' = [run EXCEPT ![r] = FreeRun]
    /\ disturbed' = TRUE
    /\ UNCHANGED <<file, snap, promise, schedulerVars, tick, active, call>>

\* Mutant: the task is put back, deleted or not.
NextEntriesPut(r) == {"later"}

\* What updateTask makes of a recurring task, if it is still there.
NextEntries(r) ==
    IF snap[r][run[r].task] = "none" THEN {"none"}
    ELSE {"later"} \cup (IF run[r].task \in Rare THEN {"never"} ELSE {})

SettlesRecurring(r) ==
    /\ run[r].pc = "settling" /\ run[r].task \in Recurring /\ snap[r] # NoFile
    /\ \E e \in NextEntries(r) : Writes(r, [snap[r] EXCEPT ![run[r].task] = e])
    /\ run' = [run EXCEPT ![r] = FreeRun]
    /\ UNCHANGED <<promise, schedulerVars, tick, active, call>>

SettlesOnce(r) ==
    /\ run[r].pc = "settling" /\ run[r].task \notin Recurring
    /\ Writes(r, [snap[r] EXCEPT ![run[r].task] = "none"])
    /\ promise' = Gone(run[r].task)
    /\ run' = [run EXCEPT ![r] = FreeRun]
    /\ UNCHANGED <<schedulerVars, tick, active, call>>

SettleRejected(r) ==
    /\ run[r].pc = "settling"
    /\ Rejected(r)
    /\ run' = [run EXCEPT ![r] = FreeRun]
    /\ UNCHANGED <<promise, schedulerVars, tick, active, call>>

-----------------------------------------------------------------------------
(* The calls of CronRuntime, by the tools of sessions and by the server *)

Begin(c, pc, op, t) ==
    /\ call[c].pc = "idle"
    /\ call' = [call EXCEPT ![c] = [pc |-> pc, op |-> op, task |-> t]]

\* createTask, with a date in the future.
CreateCalled(c, t) ==
    /\ promise[t] = "unused"
    /\ promise' = [promise EXCEPT ![t] = "open"]
    /\ Begin(c, "store", "create", t)
    /\ Read(c)
    /\ UNCHANGED <<file, disturbed, schedulerVars, tick, run, active>>

\* runTaskNow reads the tasks, and creates one whose date is this very moment.  It may have
\* passed when createTask looks at the clock: then the call throws.  Its task may be gone
\* again when createTask reads: that is any CreateCalled.
RunNowCalled(c, t) ==
    /\ file[t] \notin {"none", "running"}
    /\ \E u \in Tasks \ Recurring : CreateCalled(c, u)

\* deleteTask, without stopRunning or without an active run.
DeleteCalled(c, t) ==
    /\ file[t] # "none"
    /\ Begin(c, "store", "delete", t)
    /\ Read(c)
    /\ UNCHANGED <<file, disturbed, promise, schedulerVars, tick, run, active>>

DeleteMisses(c, t) ==
    /\ call[c].pc = "idle"
    /\ file[t] = "none" /\ promise[t] # "unused"
    /\ Poke
    /\ UNCHANGED <<storeVars, phase, gen, tip, boot, tick, run, active, call>>

\* stopTask finds an active run and awaits abortTurn, by itself or for deleteTask.
StopCalled(c, t) ==
    /\ \E r \in Active(gen) : run[r].task = t
    /\ \E op \in {"stop", "stopDelete"} : Begin(c, "aborting", op, t)
    /\ UNCHANGED <<storeVars, schedulerVars, tick, run, active>>

Ends(c) == call' = [call EXCEPT ![c] = IdleCall]

\* What is left to delete: stopTask deletes a one-time task, deleteTask any.
ToDelete(c) == call[c].task \notin Recurring \/ call[c].op \in {"stopDelete", "delete"}

Aborted(c) ==
    /\ call[c].pc = "aborting"
    /\ ToDelete(c) /\ file[call[c].task] # "none"
    /\ Read(c)
    /\ call' = [call EXCEPT ![c].pc = "store",
                            ![c].op = IF call[c].task \in Recurring THEN "delete" ELSE @]
    /\ IF call[c].op = "stopDelete" /\ call[c].task \in Recurring
       THEN Poke ELSE UNCHANGED <<timer, lost, doubled>>
    /\ UNCHANGED <<file, disturbed, promise, phase, gen, tip, boot, tick, run, active>>

\* deleteTask goes on to its own delete after that of stopTask.
StopReturns(c) ==
    /\ call' = [call EXCEPT ![c] = IF call[c].op = "stopDelete"
                                   THEN [@ EXCEPT !.pc = "aborting", !.op = "delete"]
                                   ELSE IdleCall]
    /\ Poke

AbortedOnly(c) ==
    /\ call[c].pc = "aborting"
    /\ ~ToDelete(c) \/ file[call[c].task] = "none"
    /\ StopReturns(c)
    /\ UNCHANGED <<storeVars, phase, gen, tip, boot, tick, run, active>>

Creates(c) ==
    /\ call[c].op = "create"
    /\ Writes(c, [snap[c] EXCEPT ![call[c].task] = "later"])
    /\ promise' = [promise EXCEPT ![call[c].task] = "kept"]
    /\ Ends(c)
    /\ Poke
    /\ UNCHANGED <<phase, gen, tip, boot, tick, run, active>>

Deletes(c) ==
    /\ call[c].op # "create"
    /\ Writes(c, [snap[c] EXCEPT ![call[c].task] = "none"])
    /\ promise' = Gone(call[c].task)
    /\ StopReturns(c)
    /\ UNCHANGED <<phase, gen, tip, boot, tick, run, active>>

CallRejected(c) ==
    /\ Rejected(c)
    /\ Ends(c)
    /\ UNCHANGED <<promise, schedulerVars, tick, run, active>>

-----------------------------------------------------------------------------

StartSteps ==
    \/ ListAll \/ Started
    \/ \E t \in Tasks : BootRead(t) \/ BootWrite(t) \/ BootRejected(t)

TimerSteps == Fires \/ \E g \in 1..Generations : FiresLost(g)

TickSteps(k) == TickLoop(k) \/ DelayReads(k) \/ DelayWrites(k) \/ DelayRejected(k)

RunSteps(r) ==
    \/ MarkReads(r) \/ Marks(r) \/ MarkRejected(r) \/ TurnEnds(r) \/ Recorded(r)
    \/ RecordedOnly(r) \/ RecordRejected(r) \/ SettlesRecurring(r)
    \/ SettlesOnce(r) \/ SettleRejected(r)

CallBegins(c) ==
    \E t \in Tasks : \/ CreateCalled(c, t) \/ RunNowCalled(c, t) \/ StopCalled(c, t) \/ DeleteCalled(c, t)
                        \/ DeleteMisses(c, t)

CallSteps(c) ==
    \/ Aborted(c) \/ AbortedOnly(c) \/ Creates(c) \/ Deletes(c) \/ CallRejected(c)

Next ==
    \/ StartSteps \/ TimerSteps \/ Stop \/ Stopped \/ Rebuild
    \/ \E t \in Tasks : TimePasses(t)
    \/ \E k \in Ticks : TickSteps(k)
    \/ \E r \in Runs : RunSteps(r)
    \/ \E c \in Calls : CallBegins(c) \/ CallSteps(c)

Spec == Init /\ [][Next]_vars

\* The loop of events runs what is ready: I/O settles, timers fire, time passes and a turn ends.
\* Strong where the bound MaxOpen can take an operation's place in turn.
Fairness ==
    /\ WF_vars(ListAll \/ Started \/ Stopped) /\ WF_vars(Fires)
    /\ SF_vars(\E t \in Tasks : BootRead(t))
    /\ WF_vars(\E t \in Tasks : BootWrite(t) \/ BootRejected(t))
    /\ WF_vars(\E t \in Tasks : TimePasses(t))
    /\ \A k \in Ticks : SF_vars(TickSteps(k))
    /\ \A r \in Runs : SF_vars(RunSteps(r))
    /\ \A c \in Calls : SF_vars(CallSteps(c))

FairSpec == Spec /\ Fairness

-----------------------------------------------------------------------------
(* Properties *)

\* activeRunCount is checked where the run is registered, with no await in between: no two
\* ticks, of whatever timers, start more runs than maxConcurrentRuns.
RunsWithinLimit == \A g \in 1..Generations : Cardinality(Active(g)) <= MaxRuns

\* A run holds its slot, and can be found by stopTask, from its start to the end of its
\* turn; it keeps the slot for ever only if its first write was rejected.
SlotsAreHeldByRuns ==
    /\ active = {r \in Runs : run[r].pc \in {"marking", "turn", "leaked"}}
    /\ (\E r \in Runs : run[r].pc = "leaked") => disturbed

\* Runs and slots belong together, and there are no more of them than configured.
RunsHoldSlots == RunsWithinLimit /\ SlotsAreHeldByRuns

\* One timer or tick keeps the scheduler going, and only one, unless it was poked during a
\* tick or while it started.
OneChain ==
    /\ phase = "up" => Chains >= 1
    /\ gen \notin doubled => Chains <= 1

\* A scheduler that has stopped does nothing any more, unless it had armed a second timer.
QuietAfterStop ==
    \A g \in 1..Generations :
        (g < gen \/ (g = gen /\ phase = "stopped")) /\ g \notin doubled
            => Busy(g) = {} /\ lost[g] = 0

\* A task a caller was told of is in the file until somebody deletes it or it has run once,
\* unless an update of the file was overwritten or rejected.
TasksAreKept ==
    \A t \in Tasks : promise[t] = "kept" /\ ~disturbed => file[t] # "none"

\* A deleted task does not come back, unless a tick or a run held a copy of it.
DeletedTasksStayGone ==
    \A t \in Tasks : promise[t] = "gone" /\ ~disturbed => file[t] = "none"

\* The file keeps what callers were told.
TasksComeAndGoAsTold == TasksAreKept /\ DeletedTasksStayGone

\* What the file calls running, a run will schedule again, or the start that is under way.
RunningTasksHaveRuns ==
    \A t \in Tasks :
        file[t] = "running" /\ ~disturbed =>
            \/ phase = "starting" \/ boot[t] # "none"
            \/ \E r \in Runs : run[r].task = t /\ run[r].pc \in {"turn", "recording", "settling"}

\* While a task waits in the file of a scheduler that is up, some run gets going.
WaitingTasksAreServed ==
    (phase = "up" /\ (\E t \in Tasks : file[t] \in {"later", "due"}))
        ~> (active # {} \/ phase # "up" \/ \A t \in Tasks : file[t] \notin {"later", "due"})
=============================================================================
