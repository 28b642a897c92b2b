------------------------------ MODULE Discovery ------------------------------
(***************************************************************************)
(* Always-on discovery of one project.  DiscoveryScheduler's timers start  *)
(* ticks, whose gates look at the state file and at the lock file; a tick  *)
(* that gets the lock carries out a fire (DiscoveryFire.run): it marks the *)
(* start, lets an agent look for a plan, and executes the plan in the      *)
(* workspace of the active work cycle, which it creates when there is      *)
(* none.  Beside it the user reruns plans, applies and archives cycles,    *)
(* and a watcher wakes a dormant scheduler.  A reload of the configuration *)
(* replaces the scheduler; a crash leaves the files as they are.           *)
(*                                                                         *)
(* Every operation of DiscoveryStateStore and WorkCycleStore reads a file, *)
(* awaits, and rewrites it in place: a file being rewritten is Torn, and   *)
(* who reads it then gets its default.  Dates are what the gates make of   *)
(* them: the cooldown since lastFireCompletedAt is over or not, and the    *)
(* day does not change.  A work cycle stands for its workspace too.        *)
(***************************************************************************)
EXTENDS Naturals, Sequences, FiniteSets

CONSTANTS
    Slots,          \* bound: activities at a time are the numbers 1..Slots
    Generations,    \* bound: schedulers built one after another
    Budget,         \* config.trigger.dailyBudget
    MaxFires,       \* bound: ticks that pass the gates
    MaxReruns,      \* bound: calls of rerunPlan
    MaxSignals,     \* bound: changes of the project that a watcher reports
    MaxEdits,       \* bound: cycles applied or archived by the user
    MaxFaults,      \* bound: rejected operations, failed starts and crashes
    Torn, Nothing   \* a file being rewritten, no content read

Activities == 1..Slots
Gens == 1..Generations
Cycles == 1..(MaxFires + MaxReruns)
NoCycle == 0

ASSUME DiscoveryAssumption ==
    /\ Slots \in Nat \ {0} /\ Generations \in Nat \ {0} /\ Budget \in Nat
    /\ MaxFires \in Nat /\ MaxReruns \in Nat /\ MaxSignals \in Nat
    /\ MaxEdits \in Nat /\ MaxFaults \in Nat

VARIABLES
    disk,       \* the state file and the index of the work cycles
    lock,       \* does the lock file exist?
    abandoned,  \* was it left behind by a tick that is over, or by a crash? (history)
    dirs,       \* the cycles whose workspace exists
    sched,      \* the scheduler of each generation
    act,        \* the activities under way
    real,       \* what has happened, whatever the files say (history)
    spoiled,    \* an update was overwritten, cut short or built on a torn read (history)
    beside,     \* a rerun or an edit ran beside another activity (history)
    forked,     \* a signal made a scheduler arm a timer during a tick (history)
    used        \* of each bound

vars == <<disk, lock, abandoned, dirs, sched, act, real, spoiled, beside, forked, used>>

Contents(f) ==
    IF f = "state"
      THEN [count : Nat, cooling : BOOLEAN, dormant : BOOLEAN, active : Cycles \cup {NoCycle}]
      ELSE [Cycles -> {"none", "active", "applying", "applied", "archived"}]
Default == [state |-> [count |-> 0, cooling |-> FALSE, dormant |-> FALSE, active |-> NoCycle],
            index |-> [c \in Cycles |-> "none"]]

ASSUME NoContentAssumption ==
    \A f \in {"state", "index"} : Torn \notin Contents(f) /\ Nothing \notin Contents(f)

StateOps == {"started", "clear", "rouse", "dormant", "completed", "activate"}
IndexOps == {"create", "addPlan", "applying", "applied", "restored", "archive"}
Updates == StateOps \cup IndexOps
OtherOps == {"gates", "acquire", "load", "discover", "workspace", "prepare", "execute",
             "rest", "release", "apply"}
FileOf(op) == IF op \in StateOps THEN "state" ELSE "index"

IdleActivity == [kind |-> "idle", gen |-> 1, todo |-> <<>>, seen |-> NoCycle, cycle |-> NoCycle,
                 held |-> Nothing, opened |-> FALSE]

TypeOK ==
    /\ DOMAIN disk = {"state", "index"}
    /\ \A f \in {"state", "index"} : disk[f] = Torn \/ disk[f] \in Contents(f)
    /\ lock \in BOOLEAN /\ abandoned \in BOOLEAN /\ dirs \subseteq Cycles
    /\ sched \in [Gens -> [status : {"new", "running", "failed", "stopping", "stopped", "dead"},
                           timer : BOOLEAN, lost : Nat, watcher : BOOLEAN,
                           tip : 0..Slots, wait : 0..Slots]]
    /\ \A a \in Activities :
        /\ act[a].kind \in {"idle", "tick", "signal", "rerun", "apply", "archive"}
        /\ act[a].gen \in Gens /\ act[a].todo \in Seq(Updates \cup OtherOps)
        /\ act[a].seen \in Cycles \cup {NoCycle} /\ act[a].cycle \in Cycles \cup {NoCycle}
        /\ act[a].held = Nothing \/ act[a].held \in Contents(FileOf(Head(act[a].todo)))
        /\ act[a].opened => act[a].held # Nothing
        /\ act[a].kind = "idle" <=> act[a].todo = <<>>
    /\ real \in [fires : Nat, cooling : BOOLEAN, asleep : BOOLEAN]
    /\ spoiled \in BOOLEAN /\ beside \in BOOLEAN /\ forked \in BOOLEAN

NewScheduler == [status |-> "new", timer |-> FALSE, lost |-> 0, watcher |-> FALSE,
                 tip |-> 0, wait |-> 0]

Init ==
    /\ disk = Default /\ lock = FALSE /\ abandoned = FALSE /\ dirs = {}
    /\ sched = [g \in Gens |-> NewScheduler]
    /\ act = [a \in Activities |-> IdleActivity]
    /\ real = [fires |-> 0, cooling |-> FALSE, asleep |-> FALSE]
    /\ spoiled = FALSE /\ beside = FALSE /\ forked = FALSE
    /\ used = [fires |-> 0, reruns |-> 0, signals |-> 0, edits |-> 0, faults |-> 0, cycles |-> 0]

-----------------------------------------------------------------------------
(* Schedulers. *)

Stopped(s) == s.status \notin {"new", "running", "failed"}

Rescheduled(s) ==
    IF Stopped(s) THEN s
    ELSE [s EXCEPT !.lost = IF s.timer THEN @ + 1 ELSE @, !.timer = TRUE]

TickOver(s, a) ==
    Rescheduled([s EXCEPT !.tip = 0, !.wait = IF @ = a THEN 0 ELSE @])

\* ensureDormancyWatcher().
Watched(s) == [s EXCEPT !.watcher = TRUE]

Reading(f) == IF disk[f] = Torn THEN Default[f] ELSE disk[f]

Free(a) == act[a].kind = "idle" /\ \A b \in 1..(a - 1) : act[b].kind # "idle"

\* Does an activity of this kind run beside another one that it may interfere with?
Overlaps(kind) ==
    \E b \in Activities : /\ {kind, act[b].kind} \cap {"idle", "signal"} = {}
                          /\ {kind, act[b].kind} # {"tick"}

Begins(a, kind, g, todo, cycle) ==
    /\ Free(a)
    /\ act' = [act EXCEPT ![a] = [IdleActivity EXCEPT
                   !.kind = kind, !.gen = g, !.todo = todo, !.cycle = cycle]]
    /\ beside' = (beside \/ Overlaps(kind))

MayStart(g) ==
    /\ sched[g].status = "new"
    /\ g > 1 => sched[g - 1].status \in {"stopped", "failed", "dead"}

\* start(): a project that was dormant is watched again.
Start(g) ==
    /\ MayStart(g)
    /\ LET s == [sched[g] EXCEPT !.status = "running"]
       IN sched' = [sched EXCEPT ![g] =
              Rescheduled(IF Reading("state").dormant THEN Watched(s) ELSE s)]
    /\ UNCHANGED <<disk, lock, abandoned, dirs, act, real, spoiled, beside, forked, used>>

\* The state file cannot be read: start() rejects, nothing is scheduled.
StartFails(g) ==
    /\ MayStart(g) /\ used.faults < MaxFaults
    /\ sched' = [sched EXCEPT ![g].status = "failed"]
    /\ used' = [used EXCEPT !.faults = @ + 1]
    /\ UNCHANGED <<disk, lock, abandoned, dirs, act, real, spoiled, beside, forked>>

\* stop() awaits the tick it knows of, the last one begun.
Stop(g) ==
    /\ sched[g].status = "running"
    /\ sched' = [sched EXCEPT ![g] =
           [@ EXCEPT !.status = "stopping", !.timer = FALSE, !.watcher = FALSE, !.wait = sched[g].tip]]
    /\ UNCHANGED <<disk, lock, abandoned, dirs, act, real, spoiled, beside, forked, used>>

StopDone(g) ==
    /\ sched[g].status = "stopping" /\ sched[g].wait = 0
    /\ sched' = [sched EXCEPT ![g].status = "stopped"]
    /\ UNCHANGED <<disk, lock, abandoned, dirs, act, real, spoiled, beside, forked, used>>

\* The callback of a timer forgets the handle in this.timer, be it its own or not.
TimerFires(g, a) ==
    /\ \E own \in BOOLEAN :
        LET s == sched[g]
        IN /\ IF own THEN s.timer ELSE s.lost > 0
           /\ sched' = [sched EXCEPT ![g] = [s EXCEPT
                  !.timer = FALSE, !.tip = a,
                  !.lost = IF own \/ s.timer THEN @ ELSE @ - 1]]
    /\ Begins(a, "tick", g, <<"gates">>, NoCycle)
    /\ UNCHANGED <<disk, lock, abandoned, dirs, real, spoiled, forked, used>>

-----------------------------------------------------------------------------
(* Who begins an activity. *)

\* A change of the project, debounced by the watcher: handleSignal.
Signal(g, a) ==
    /\ sched[g].watcher /\ ~Stopped(sched[g]) /\ used.signals < MaxSignals
    /\ Begins(a, "signal", g, <<"rouse">>, NoCycle)
    /\ real' = [real EXCEPT !.asleep = FALSE]
    /\ used' = [used EXCEPT !.signals = @ + 1]
    /\ UNCHANGED <<disk, lock, abandoned, dirs, sched, spoiled, forked>>

\* The error of a watcher disposes of it.
WatcherFails(g) ==
    /\ sched[g].watcher
    /\ sched' = [sched EXCEPT ![g].watcher = FALSE]
    /\ UNCHANGED <<disk, lock, abandoned, dirs, act, real, spoiled, beside, forked, used>>

\* rerunPlan() of a plan that exists: neither the gates nor the lock are asked.
Rerun(g, a) ==
    /\ sched[g].status \in {"running", "failed", "stopping"} /\ used.reruns < MaxReruns
    /\ Begins(a, "rerun", g, <<"load", "workspace">>, NoCycle)
    /\ used' = [used EXCEPT !.reruns = @ + 1]
    /\ UNCHANGED <<disk, lock, abandoned, dirs, sched, real, spoiled, forked>>

\* The user applies a cycle (its plans executed) or archives it.
Edit(a) ==
    /\ used.edits < MaxEdits
    /\ \E c \in 1..used.cycles, kind \in {"apply", "archive"} :
          Begins(a, kind, 1, IF kind = "apply" THEN <<"applying", "apply">> ELSE <<"archive">>, c)
    /\ used' = [used EXCEPT !.edits = @ + 1]
    /\ UNCHANGED <<disk, lock, abandoned, dirs, sched, real, spoiled, forked>>

-----------------------------------------------------------------------------
(* Updates of the two files: read, truncate, write. *)

\* What makes the operation write at all; "applying" throws otherwise.
Changes(op, c, content) ==
    CASE op \in {"clear", "rouse"} -> content.dormant
      [] op = "addPlan" -> content[c] # "none"
      [] op = "applying" -> content[c] = "active"
      [] op \in {"applied", "restored"} -> content[c] = "applying"
      [] op = "archive" -> content[c] \notin {"none", "applying"}
      [] OTHER -> TRUE

Changed(op, c, content) ==
    CASE op = "started" -> [content EXCEPT !.count = @ + 1]
      [] op \in {"clear", "rouse"} -> [content EXCEPT !.dormant = FALSE]
      [] op = "dormant" -> [content EXCEPT !.dormant = TRUE]
      [] op = "completed" -> [content EXCEPT !.cooling = TRUE]
      [] op = "activate" -> [content EXCEPT !.active = c]
      [] op \in {"create", "restored"} -> [content EXCEPT ![c] = "active"]
      [] op = "addPlan" -> content
      [] op = "applying" -> [content EXCEPT ![c] = "applying"]
      [] op = "applied" -> [content EXCEPT ![c] = "applied"]
      [] op = "archive" -> [content EXCEPT ![c] = "archived"]

Does(a, op) == act[a].todo # <<>> /\ Head(act[a].todo) = op

\* Mutant: the slot of a finished activity is not given back.
LeftOpen(r) == [r EXCEPT !.todo = Tail(@), !.held = Nothing, !.opened = FALSE]

Left(r) == IF Tail(r.todo) = <<>> THEN IdleActivity
           ELSE [r EXCEPT !.todo = Tail(@), !.held = Nothing, !.opened = FALSE]

\* clearDormant() is followed by disposeWatcher() in a tick, and in handleSignal
\* by a new timer in place of the one in this.timer.
Settled(s, op) ==
    CASE op = "clear" -> [s EXCEPT !.watcher = FALSE]
      [] op = "rouse" -> Rescheduled([s EXCEPT !.watcher = FALSE, !.timer = FALSE])
      [] OTHER -> s

Signalled == \E a \in Activities : act[a].kind = "signal"

Ticking(g) == \E a \in Activities : act[a].kind = "tick" /\ act[a].gen = g

Finishes(a, op) ==
    /\ act' = [act EXCEPT ![a] = Left(@)]
    /\ sched' = [sched EXCEPT ![act[a].gen] = Settled(@, op)]
    /\ real' = [real EXCEPT !.fires = IF op = "started" THEN @ + 1 ELSE @,
                            !.asleep = @ \/ (op = "dormant" /\ ~Signalled)]
    /\ forked' = (forked \/ (op = "rouse" /\ Ticking(act[a].gen)))

Reads(a) ==
    \E op \in Updates :
      LET f == FileOf(op)
          content == Reading(f)
      IN /\ Does(a, op) /\ act[a].held = Nothing
         /\ spoiled' = (spoiled \/ disk[f] = Torn
               \/ \E b \in Activities \ {a} : act[b].held # Nothing /\ FileOf(Head(act[b].todo)) = f)
         /\ \/ /\ Changes(op, act[a].cycle, content)
               /\ act' = [act EXCEPT ![a].held = Changed(op, act[a].cycle, content)]
               /\ real' = [real EXCEPT !.cooling = @ \/ op = "completed"]
               /\ UNCHANGED <<sched, forked>>
            \/ /\ ~Changes(op, act[a].cycle, content) \/ (op = "addPlan" /\ act[a].kind = "rerun")
               /\ IF op = "applying"
                    THEN act' = [act EXCEPT ![a] = IdleActivity] /\ UNCHANGED <<sched, real, forked>>
                    ELSE Finishes(a, op)
         /\ UNCHANGED <<disk, lock, abandoned, dirs, beside, used>>

\* A cycle's workspace is disposed of between the reading of the index and its rewriting.
Disposing(a) == (Does(a, "applied") \/ Does(a, "archive")) /\ act[a].cycle \in dirs

Disposes(a) ==
    /\ act[a].held # Nothing /\ ~act[a].opened /\ Disposing(a)
    /\ dirs' = dirs \ {act[a].cycle}
    /\ UNCHANGED <<disk, lock, abandoned, sched, act, real, spoiled, beside, forked, used>>

\* A disposal that rejects is swallowed: the workspace stays.
Opens(a) ==
    /\ act[a].held # Nothing /\ ~act[a].opened
    /\ IF Disposing(a) THEN used.faults < MaxFaults /\ used' = [used EXCEPT !.faults = @ + 1]
       ELSE UNCHANGED used
    /\ disk' = [disk EXCEPT ![FileOf(Head(act[a].todo))] = Torn]
    /\ act' = [act EXCEPT ![a].opened = TRUE]
    /\ UNCHANGED <<lock, abandoned, dirs, sched, real, spoiled, beside, forked>>

Writes(a) ==
    /\ act[a].opened
    /\ disk' = [disk EXCEPT ![FileOf(Head(act[a].todo))] = act[a].held]
    /\ Finishes(a, Head(act[a].todo))
    /\ UNCHANGED <<lock, abandoned, dirs, spoiled, beside, used>>

-----------------------------------------------------------------------------
(* A tick and the fire it may carry out; a rerun shares the steps from "load" on. *)

TickEnds(a) ==
    /\ act' = [act EXCEPT ![a] = IdleActivity]
    /\ sched' = [sched EXCEPT ![act[a].gen] = TickOver(@, a)]

Proceeds(a, todo) == act' = [act EXCEPT ![a].todo = todo]

\* Mutant: the cooldown is not waited for.
GatesOpenEarly(s) == ~s.dormant /\ s.count < Budget /\ ~lock

\* evaluateAlwaysOnDiscoveryGates on the state file and the lock file.
GatesOpen(s) == ~s.dormant /\ ~s.cooling /\ s.count < Budget /\ ~lock

\* Any of the other gates, behind "dormant", may hold the tick up as well: a busy agent,
\* a recent message.
Gates(a) ==
    LET s == Reading("state")
        scheduler == sched[act[a].gen]
    IN /\ Does(a, "gates")
       /\ \/ /\ act' = [act EXCEPT ![a] = IdleActivity]
             /\ sched' = [sched EXCEPT ![act[a].gen] =
                    TickOver(IF s.dormant THEN Watched(scheduler) ELSE scheduler, a)]
             /\ UNCHANGED <<spoiled, used>>
          \/ /\ GatesOpen(s) /\ used.fires < MaxFires
             /\ Proceeds(a, <<"acquire">>)
             /\ used' = [used EXCEPT !.fires = @ + 1]
             /\ spoiled' = (spoiled \/ disk.state = Torn)
             /\ UNCHANGED sched
       /\ UNCHANGED <<disk, lock, abandoned, dirs, real, beside, forked>>

\* Mutant: the lock file is written whether it exists or not.
AcquireAnyway(a) ==
    /\ Does(a, "acquire") /\ lock' = TRUE
    /\ Proceeds(a, <<"started", "clear", "load", "discover">>)
    /\ UNCHANGED <<disk, abandoned, dirs, sched, real, spoiled, beside, forked, used>>

\* The lock file is left behind by a tick that ends, and is followed by another.
Abandons ==
    /\ used.faults < MaxFaults
    /\ used' = [used EXCEPT !.faults = @ + 1]
    /\ abandoned' = TRUE

\* writeFile with the flag "wx": the file exists; or it is created and written; or it
\* is created and the write fails, which rejects the tick before its try.
Acquire(a) ==
    /\ Does(a, "acquire")
    /\ \/ lock /\ TickEnds(a) /\ UNCHANGED <<lock, abandoned, used>>
       \/ /\ ~lock /\ lock' = TRUE
          /\ Proceeds(a, <<"started", "clear", "load", "discover">>)
          /\ UNCHANGED <<abandoned, sched, used>>
       \/ ~lock /\ lock' = TRUE /\ TickEnds(a) /\ Abandons
    /\ UNCHANGED <<disk, dirs, real, spoiled, beside, forked>>

Load(a) ==
    /\ Does(a, "load")
    /\ act' = [act EXCEPT ![a] = [@ EXCEPT
           !.todo = Tail(act[a].todo), !.seen = Reading("state").active]]
    /\ spoiled' = (spoiled \/ disk.state = Torn)
    /\ UNCHANGED <<disk, lock, abandoned, dirs, sched, real, beside, forked, used>>

Released(a) == IF act[a].kind = "tick" THEN <<"release">> ELSE <<>>

\* The discovery turn fails, finds nothing to do, or leaves a plan.
Discover(a) ==
    /\ Does(a, "discover")
    /\ \E todo \in {<<"completed">>, <<"completed", "dormant", "rest">>, <<"workspace">>} :
          Proceeds(a, todo \o <<"release">>)
    /\ UNCHANGED <<disk, lock, abandoned, dirs, sched, real, spoiled, beside, forked, used>>

\* Mutant: an existing cycle is left alone.
NeverReusable(c) == FALSE

Reusable(c) == c # NoCycle /\ Reading("index")[c] = "active" /\ c \in dirs

Reuses(a) ==
    act' = [act EXCEPT ![a] = [@ EXCEPT
               !.cycle = act[a].seen, !.todo = <<"addPlan", "execute", "completed">> \o Released(a)]]

Workspace(a) ==
    /\ Does(a, "workspace")
    /\ IF Reusable(act[a].seen) THEN Reuses(a)
       ELSE Proceeds(a, <<"prepare">> \o Released(a))
    /\ spoiled' = (spoiled \/ disk.index = Torn)
    /\ UNCHANGED <<disk, lock, abandoned, dirs, sched, real, beside, forked, used>>

\* The workspace turn has prepared one, or ensureActiveWorkCycle looks again and
\* prepares one itself.
Prepare(a) ==
    /\ Does(a, "prepare")
    /\ \/ Reusable(act[a].seen) /\ Reuses(a) /\ UNCHANGED <<dirs, used>>
       \/ LET c == used.cycles + 1
          IN /\ dirs' = dirs \cup {c} /\ used' = [used EXCEPT !.cycles = c]
             /\ act' = [act EXCEPT ![a] = [@ EXCEPT !.cycle = c,
                    !.todo = <<"create", "activate", "addPlan", "execute", "completed">> \o Released(a)]]
    /\ UNCHANGED <<disk, lock, abandoned, sched, real, spoiled, beside, forked>>

\* The execution and the report, whatever they come to.
Execute(a) ==
    /\ Does(a, "execute") /\ Proceeds(a, Tail(act[a].todo))
    /\ UNCHANGED <<disk, lock, abandoned, dirs, sched, real, spoiled, beside, forked, used>>

\* no_plan: the history is written and the project watched.
Rest(a) ==
    /\ Does(a, "rest") /\ Proceeds(a, Tail(act[a].todo))
    /\ sched' = [sched EXCEPT ![act[a].gen] = Watched(@)]
    /\ UNCHANGED <<disk, lock, abandoned, dirs, real, spoiled, beside, forked, used>>

\* unlink, whose rejection is swallowed: the file stays and the tick ends as if it did not.
Release(a) ==
    /\ Does(a, "release") /\ TickEnds(a)
    /\ \/ lock' = FALSE /\ UNCHANGED <<abandoned, used>>
       \/ Abandons /\ UNCHANGED lock
    /\ UNCHANGED <<disk, dirs, real, spoiled, beside, forked>>

\* The apply turn succeeds or fails; applyWorkCycle settles the cycle either way.
Apply(a) ==
    /\ Does(a, "apply")
    /\ \E op \in {"applied", "restored"} : Proceeds(a, <<op>>)
    /\ UNCHANGED <<disk, lock, abandoned, dirs, sched, real, spoiled, beside, forked, used>>

-----------------------------------------------------------------------------
(* Faults, time, and the specification. *)

\* Mutant: the lock is released after the fire, not in a finally.
AfterFaultLocked(r) ==
    IF Head(r.todo) \in {"workspace", "prepare", "create", "activate"}
      THEN <<"completed">> \o (IF r.kind = "tick" THEN <<"release">> ELSE <<>>) ELSE <<>>

\* What is left to do when the operation at hand rejects: runWorkspacePhase's
\* errors are recorded, all others reach tick()'s finally.
AfterFault(r) ==
    LET op == Head(r.todo)
        release == IF r.kind = "tick" /\ op \notin {"gates", "acquire"} THEN <<"release">> ELSE <<>>
    IN IF op \in {"workspace", "prepare", "create", "activate"}
         THEN <<"completed">> \o release ELSE release

\* Any other operation rejects (for the lock file, that no directory can be made for it); what
\* becomes of the lock file then is up to Acquire and Release.  handleSignal's rejection is not
\* handled: it is a Crash.  What rejects in an apply or an archive may also be the end of the
\* web server's process.
Fault(a) ==
    /\ act[a].kind \notin {"idle", "signal"} /\ ~Does(a, "release") /\ used.faults < MaxFaults
    /\ used' = [used EXCEPT !.faults = @ + 1]
    /\ spoiled' = (spoiled \/ Head(act[a].todo) \in Updates)
    /\ IF AfterFault(act[a]) # <<>>
         THEN /\ act' = [act EXCEPT ![a] = [@ EXCEPT
                     !.todo = AfterFault(act[a]), !.held = Nothing, !.opened = FALSE]]
              /\ UNCHANGED sched
         ELSE IF act[a].kind = "tick" THEN TickEnds(a)
         ELSE act' = [act EXCEPT ![a] = IdleActivity] /\ UNCHANGED sched
    /\ UNCHANGED <<disk, lock, abandoned, dirs, real, beside, forked>>

Crash ==
    /\ used.faults < MaxFaults /\ \E g \in Gens : sched[g].status \in {"running", "failed", "stopping"}
    /\ used' = [used EXCEPT !.faults = @ + 1]
    /\ sched' = [g \in Gens |-> IF sched[g].status = "new" THEN sched[g]
                                ELSE [NewScheduler EXCEPT !.status = "dead"]]
    /\ act' = [a \in Activities |-> IdleActivity]
    /\ abandoned' = lock
    /\ spoiled' = (spoiled \/ \E a \in Activities : act[a].kind # "idle")
    /\ UNCHANGED <<disk, lock, dirs, real, beside, forked>>

CooldownEnds ==
    /\ real.cooling
    /\ real' = [real EXCEPT !.cooling = FALSE]
    /\ disk' = [disk EXCEPT !.state = IF @ = Torn THEN Torn ELSE [@ EXCEPT !.cooling = FALSE]]
    /\ act' = [a \in Activities |->
           IF act[a].held # Nothing /\ FileOf(Head(act[a].todo)) = "state"
             THEN [act[a] EXCEPT !.held.cooling = FALSE] ELSE act[a]]
    /\ UNCHANGED <<lock, abandoned, dirs, sched, spoiled, beside, forked, used>>

Step(a) ==
    \/ Reads(a) \/ Disposes(a) \/ Opens(a) \/ Writes(a)
    \/ Gates(a) \/ Acquire(a) \/ Load(a) \/ Discover(a) \/ Workspace(a) \/ Prepare(a)
    \/ Execute(a) \/ Rest(a) \/ Release(a) \/ Apply(a)

Next ==
    \/ \E g \in Gens : Start(g) \/ StartFails(g) \/ Stop(g) \/ StopDone(g) \/ WatcherFails(g)
    \/ \E g \in Gens, a \in Activities : TimerFires(g, a) \/ Signal(g, a) \/ Rerun(g, a)
    \/ \E a \in Activities : Edit(a) \/ Step(a) \/ Fault(a)
    \/ Crash \/ CooldownEnds

Spec == Init /\ [][Next]_vars

\* Timers run out, promises settle, and the turns of the agents end.
Fairness ==
    /\ \A g \in Gens : WF_vars(\E a \in Activities : TimerFires(g, a)) /\ WF_vars(StopDone(g))
    /\ \A a \in Activities : WF_vars(Step(a))

FairSpec == Spec /\ Fairness

-----------------------------------------------------------------------------
(* Properties. *)

Fires(a) == act[a].kind = "tick" /\ ~Does(a, "gates") /\ ~Does(a, "acquire")

\* At most one fire is under way, whatever the number of timers and schedulers.  It has
\* the lock, and a lock that no fire has was left behind: none begins any more.
OneDiscovery ==
    /\ Cardinality({a \in Activities : Fires(a)}) <= 1
    /\ (\E a \in Activities : Fires(a)) <=> lock /\ ~abandoned
    /\ abandoned => lock

\* While no update of a file has been lost, no signal came during a tick and
\* nothing ran beside a rerun or an edit, a fire begins only within the daily budget,
\* after the cooldown, and not before a dormant project has changed.
FiresAreDue ==
    [][~lock /\ lock' /\ ~spoiled /\ ~forked /\ ~beside
         => real.fires < Budget /\ ~real.cooling /\ ~real.asleep]_vars

ActiveCycles == {c \in dirs : Reading("index")[c] = "active"}

\* "Always-On runs at most one active cycle (and one workspace) per project": as long
\* as no update has been lost and nothing ran beside a rerun or an edit.
OneActiveCycle ==
    disk.index # Torn /\ ~spoiled /\ ~beside => Cardinality(ActiveCycles) <= 1

\* A scheduler whose stop() has returned begins no tick and fires nothing, unless a
\* signal had given it a second chain of timers.
StopIsFinal ==
    \A g \in Gens : sched[g].status = "stopped" /\ ~forked =>
        ~sched[g].timer /\ sched[g].lost = 0
        /\ \A a \in Activities : act[a].kind = "tick" => act[a].gen # g

\* Fires are alone, and belong to a scheduler that has not stopped.
FiresAreAlone == OneDiscovery /\ StopIsFinal

\* Ticking is under way or ahead at any time while a scheduler runs, whatever fails.
TicksKeepComing == []<>(\A g \in Gens : sched[g].status = "running" => Ticking(g))

\* The lock is released after every fire, a failing one included.  Only a crash leaves it, a
\* rejected unlink, and a lock file whose first write failed (tick, releaseDiscoveryLock).
LockIsReleased == []<>(lock => abandoned)

IsDormant == disk.state # Torn /\ disk.state.dormant

\* A project that stays dormant while a scheduler runs is watched sooner or later.
DormancyIsWatched ==
    []<>(\A g \in Gens : sched[g].status = "running" /\ IsDormant => sched[g].watcher)

\* Discovery goes on for as long as a scheduler runs, whatever fails.
DiscoveryGoesOn == TicksKeepComing /\ LockIsReleased /\ DormancyIsWatched
=============================================================================
