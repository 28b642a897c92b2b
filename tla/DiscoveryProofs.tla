-------------------------- MODULE DiscoveryProofs --------------------------
(***************************************************************************)
(* Proofs about Discovery, for every number of activities and schedulers.  *)
(*                                                                         *)
(* Types.  Typed gives the variables their types, and OnCourse says that   *)
(* what an activity has left to do is the rest of one of the programs of   *)
(* its kind, so that "what comes next" is a table (Successions, Moves).    *)
(* That a new work cycle has a number takes Accounted: as many cycles are  *)
(* made or owed as fires and reruns have begun.                            *)
(*                                                                         *)
(* Fires are alone.  Lone: a fire has the lock, and no two fires are under *)
(* way.  Chained: a scheduler has at most one of a timer and a tick, and   *)
(* when it has stopped neither, until a signal comes during a tick.        *)
(*                                                                         *)
(* Fires are due.  The gates go by a file, and the property is about what  *)
(* has happened.  Remembered relates the two: the file, or the activity    *)
(* that is about to write it, counts the fires, knows of the cooldown and  *)
(* of the dormancy.  It is kept because an update is never built on what   *)
(* another is about to overwrite (Alone), and nothing else runs between    *)
(* the gates and the lock (OneWorker, from Chained, Ordered and Apart).    *)
(*                                                                         *)
(* One active cycle.  It is on record twice, in the state file and in the  *)
(* index, which are written one after the other.  Pointed says what both   *)
(* files, those about to write them and those who have looked at them make *)
(* of it: the same cycle, but while a new one is on its way from the index *)
(* to the state file.  It is kept because one activity at a time deals     *)
(* with cycles (OneHand), and makes one only where none is active.         *)
(***************************************************************************)
EXTENDS Discovery, FiniteSetTheorems, SequenceTheorems, TLAPS

-----------------------------------------------------------------------------
(* What activities have left to do. *)

TickPrograms ==
    { <<"gates">>, <<"acquire">>,
      <<"started", "clear", "load", "discover">>, <<"clear", "load", "discover">>,
      <<"load", "discover">>, <<"discover">>,
      <<"completed", "dormant", "rest", "release">>, <<"dormant", "rest", "release">>,
      <<"rest", "release">>, <<"workspace", "release">>, <<"prepare", "release">>,
      <<"create", "activate", "addPlan", "execute", "completed", "release">>,
      <<"activate", "addPlan", "execute", "completed", "release">>,
      <<"addPlan", "execute", "completed", "release">>,
      <<"execute", "completed", "release">>, <<"completed", "release">>, <<"release">> }

RerunPrograms ==
    { <<"load", "workspace">>, <<"workspace">>, <<"prepare">>,
      <<"create", "activate", "addPlan", "execute", "completed">>,
      <<"activate", "addPlan", "execute", "completed">>,
      <<"addPlan", "execute", "completed">>, <<"execute", "completed">>, <<"completed">> }

ApplyPrograms == { <<"applying", "apply">>, <<"apply">>, <<"applied">>, <<"restored">> }

Programs(kind) ==
    CASE kind = "tick" -> TickPrograms
      [] kind = "rerun" -> RerunPrograms
      [] kind = "apply" -> ApplyPrograms
      [] kind = "signal" -> {<<"rouse">>}
      [] kind = "archive" -> {<<"archive">>}
      [] OTHER -> {<<>>}

Kinds == {"idle", "tick", "signal", "rerun", "apply", "archive"}

AllPrograms == UNION {Programs(k) : k \in Kinds}

\* What an activity of each kind does.
FireOps == {"load", "workspace", "prepare", "create", "activate", "addPlan", "execute",
            "completed"}
OpsOf(kind) ==
    CASE kind = "tick" -> FireOps \cup {"gates", "acquire", "started", "clear", "discover",
                                        "dormant", "rest", "release"}
      [] kind = "rerun" -> FireOps
      [] kind = "apply" -> {"applying", "apply", "applied", "restored"}
      [] kind = "signal" -> {"rouse"}
      [] kind = "archive" -> {"archive"}
      [] OTHER -> {}

LastOps(kind) ==
    CASE kind = "tick" -> {"gates", "acquire", "discover", "release"}
      [] kind = "rerun" -> {"workspace", "prepare", "completed"}
      [] kind = "apply" -> {"apply", "applied", "restored"}
      [] OTHER -> OpsOf(kind)

\* Which operation follows which in a program.
Successions ==
    { <<"started", "clear">>, <<"clear", "load">>, <<"load", "discover">>, <<"load", "workspace">>,
      <<"workspace", "release">>, <<"prepare", "release">>, <<"create", "activate">>,
      <<"activate", "addPlan">>, <<"addPlan", "execute">>, <<"execute", "completed">>,
      <<"completed", "dormant">>, <<"completed", "release">>, <<"dormant", "rest">>,
      <<"rest", "release">>, <<"applying", "apply">> }

\* A program p of an activity of kind k.
Sound(k, p) ==
    /\ p # <<>> /\ Head(p) \in OpsOf(k) /\ p \in Seq(Updates \cup OtherOps)
    /\ Tail(p) \in Programs(k) \cup {<<>>}
    /\ Tail(p) # <<>> => <<Head(p), Head(Tail(p))>> \in Successions
    /\ Tail(p) = <<>> <=> Head(p) \in LastOps(k)

\* What a tick has left to do is one of its programs, and its rest is one as well.
LEMMA TickIsSound ==
  ASSUME NEW p \in TickPrograms PROVE Sound("tick", p)
<1> USE DEF Sound, Programs, OpsOf, LastOps, FireOps, Successions, Updates, StateOps, IndexOps, OtherOps
<1>1. CASE p = <<"gates">>
  BY <1>1 DEF TickPrograms
<1>2. CASE p = <<"acquire">>
  BY <1>2 DEF TickPrograms
<1>3. CASE p = <<"started", "clear", "load", "discover">>
  BY <1>3 DEF TickPrograms
<1>4. CASE p = <<"clear", "load", "discover">>
  BY <1>4 DEF TickPrograms
<1>5. CASE p = <<"load", "discover">>
  BY <1>5 DEF TickPrograms
<1>6. CASE p = <<"discover">>
  BY <1>6 DEF TickPrograms
<1>7. CASE p = <<"completed", "dormant", "rest", "release">>
  BY <1>7 DEF TickPrograms
<1>8. CASE p = <<"dormant", "rest", "release">>
  BY <1>8 DEF TickPrograms
<1>9. CASE p = <<"rest", "release">>
  BY <1>9 DEF TickPrograms
<1>10. CASE p = <<"workspace", "release">>
  BY <1>10 DEF TickPrograms
<1>11. CASE p = <<"prepare", "release">>
  BY <1>11 DEF TickPrograms
<1>12. CASE p = <<"create", "activate", "addPlan", "execute", "completed", "release">>
  BY <1>12 DEF TickPrograms
<1>13. CASE p = <<"activate", "addPlan", "execute", "completed", "release">>
  BY <1>13 DEF TickPrograms
<1>14. CASE p = <<"addPlan", "execute", "completed", "release">>
  BY <1>14 DEF TickPrograms
<1>15. CASE p = <<"execute", "completed", "release">>
  BY <1>15 DEF TickPrograms
<1>16. CASE p = <<"completed", "release">>
  BY <1>16 DEF TickPrograms
<1>17. CASE p = <<"release">>
  BY <1>17 DEF TickPrograms
<1> QED
  BY <1>1, <1>2, <1>3, <1>4, <1>5, <1>6, <1>7, <1>8, <1>9, <1>10, <1>11, <1>12, <1>13, <1>14,
     <1>15, <1>16, <1>17 DEF TickPrograms

\* So is what a rerun has left to do.
LEMMA RerunIsSound ==
  ASSUME NEW p \in RerunPrograms PROVE Sound("rerun", p)
<1> USE DEF Sound, Programs, OpsOf, LastOps, FireOps, Successions, Updates, StateOps, IndexOps, OtherOps
<1>1. CASE p = <<"load", "workspace">>
  BY <1>1 DEF RerunPrograms
<1>2. CASE p = <<"workspace">>
  BY <1>2 DEF RerunPrograms
<1>3. CASE p = <<"prepare">>
  BY <1>3 DEF RerunPrograms
<1>4. CASE p = <<"create", "activate", "addPlan", "execute", "completed">>
  BY <1>4 DEF RerunPrograms
<1>5. CASE p = <<"activate", "addPlan", "execute", "completed">>
  BY <1>5 DEF RerunPrograms
<1>6. CASE p = <<"addPlan", "execute", "completed">>
  BY <1>6 DEF RerunPrograms
<1>7. CASE p = <<"execute", "completed">>
  BY <1>7 DEF RerunPrograms
<1>8. CASE p = <<"completed">>
  BY <1>8 DEF RerunPrograms
<1> QED
  BY <1>1, <1>2, <1>3, <1>4, <1>5, <1>6, <1>7, <1>8 DEF RerunPrograms

\* So is what an apply has left to do.
LEMMA ApplyIsSound ==
  ASSUME NEW p \in ApplyPrograms PROVE Sound("apply", p)
<1> USE DEF Sound, Programs, OpsOf, LastOps, FireOps, Successions, Updates, StateOps, IndexOps, OtherOps
<1>1. CASE p = <<"applying", "apply">>
  BY <1>1 DEF ApplyPrograms
<1>2. CASE p = <<"apply">>
  BY <1>2 DEF ApplyPrograms
<1>3. CASE p = <<"applied">>
  BY <1>3 DEF ApplyPrograms
<1>4. CASE p = <<"restored">>
  BY <1>4 DEF ApplyPrograms
<1> QED
  BY <1>1, <1>2, <1>3, <1>4 DEF ApplyPrograms

\* Every program of a kind begins with an operation of that kind, and goes on with one.
LEMMA ProgramsAreSound ==
  ASSUME NEW k \in Kinds, NEW p \in Programs(k)
  PROVE  IF k = "idle" THEN p = <<>> ELSE Sound(k, p)
<1>1. CASE k = "signal"
  <2>1. p = <<"rouse">>
    BY <1>1 DEF Programs
  <2> QED
    BY <1>1, <2>1 DEF Programs, Sound, OpsOf, LastOps, FireOps, Updates, StateOps, IndexOps,
       OtherOps
<1>2. CASE k = "archive"
  <2>1. p = <<"archive">>
    BY <1>2 DEF Programs
  <2> QED
    BY <1>2, <2>1 DEF Programs, Sound, OpsOf, LastOps, FireOps, Updates, StateOps, IndexOps,
       OtherOps
<1>3. CASE k \in {"idle", "tick", "rerun", "apply"}
  BY <1>3, TickIsSound, RerunIsSound, ApplyIsSound DEF Programs
<1> QED
  BY <1>1, <1>2, <1>3 DEF Kinds

(* Types *)

State == [count : Nat, cooling : BOOLEAN, dormant : BOOLEAN, active : Cycles \cup {NoCycle}]
Index == [Cycles -> {"none", "active", "applying", "applied", "archived"}]

\* The contents of the two files.
LEMMA ContentsAre == Contents("state") = State /\ Contents("index") = Index
  BY DEF Contents, State, Index

Activity == [kind : Kinds, gen : Gens, todo : AllPrograms, seen : Cycles \cup {NoCycle},
             cycle : Cycles \cup {NoCycle}, held : State \cup Index \cup {Nothing},
             opened : BOOLEAN]

Scheduler == [status : {"new", "running", "failed", "stopping", "stopped", "dead"},
              timer : BOOLEAN, lost : Nat, watcher : BOOLEAN, tip : 0..Slots, wait : 0..Slots]

Counters == [fires : Nat, reruns : Nat, signals : Nat, edits : Nat, faults : Nat, cycles : Nat]

Typed ==
    /\ disk \in [{"state", "index"} -> State \cup Index \cup {Torn}]
    /\ \A f \in {"state", "index"} : disk[f] = Torn \/ disk[f] \in Contents(f)
    /\ lock \in BOOLEAN /\ abandoned \in BOOLEAN /\ dirs \subseteq Cycles
    /\ sched \in [Gens -> Scheduler]
    /\ act \in [Activities -> Activity]
    /\ real \in [fires : Nat, cooling : BOOLEAN, asleep : BOOLEAN]
    /\ spoiled \in BOOLEAN /\ beside \in BOOLEAN /\ forked \in BOOLEAN
    /\ used \in Counters

\* What an activity has read and changed is of the file it is to write.
Course(r) ==
    /\ r.todo \in Programs(r.kind)
    /\ r.held # Nothing => /\ r.todo # <<>> /\ Head(r.todo) \in Updates
                           /\ r.held \in Contents(FileOf(Head(r.todo)))
    /\ r.opened => r.held # Nothing

OnCourse == \A a \in Activities : Course(act[a])

\* The types kept below imply the type invariant.
LEMMA TypedIsOK == Typed /\ OnCourse => TypeOK
<1> SUFFICES ASSUME Typed, OnCourse PROVE TypeOK
  OBVIOUS
<1>1. DOMAIN disk = {"state", "index"}
  BY DEF Typed
<1>2. ASSUME NEW a \in Activities
      PROVE  /\ act[a].kind \in {"idle", "tick", "signal", "rerun", "apply", "archive"}
             /\ act[a].gen \in Gens /\ act[a].todo \in Seq(Updates \cup OtherOps)
             /\ act[a].seen \in Cycles \cup {NoCycle} /\ act[a].cycle \in Cycles \cup {NoCycle}
             /\ act[a].held = Nothing \/ act[a].held \in Contents(FileOf(Head(act[a].todo)))
             /\ act[a].opened => act[a].held # Nothing
             /\ act[a].kind = "idle" <=> act[a].todo = <<>>
  <2>1. act[a] \in Activity /\ Course(act[a])
    BY DEF Typed, OnCourse
  <2>2. act[a].kind \in Kinds /\ act[a].todo \in Programs(act[a].kind)
    BY <2>1 DEF Activity, Course
  <2> QED
    <3>1. IF act[a].kind = "idle" THEN act[a].todo = <<>> ELSE Sound(act[a].kind, act[a].todo)
      BY <2>2, ProgramsAreSound
    <3>2. act[a].todo \in Seq(Updates \cup OtherOps) /\ (act[a].kind = "idle" <=> act[a].todo = <<>>)
      <4>1. CASE act[a].kind = "idle"
        <5>1. <<>> \in Seq(Updates \cup OtherOps)
          OBVIOUS
        <5> QED
          BY <3>1, <4>1, <5>1
      <4>2. CASE act[a].kind # "idle"
        BY <3>1, <4>2 DEF Sound
      <4> QED
        BY <4>1, <4>2
    <3> QED
      BY <2>1, <2>2, <3>2 DEF Activity, Course, Kinds
<1> QED
  BY <1>1, <1>2 DEF Typed, TypeOK, Scheduler

-----------------------------------------------------------------------------
(* What becomes of one activity. *)

\* Activities and schedulers are numbered from 1; 0 stands for none.
LEMMA SlotsAndGens ==
  Activities \subseteq Nat \ {0} /\ 1 \in Gens /\ 0 \notin Activities /\ Gens \subseteq Nat
  BY DiscoveryAssumption DEF Activities, Gens

\* A torn file and a file that was not read are told apart from every content.
LEMMA NoContent ==
  Nothing \notin State /\ Nothing \notin Index /\ Torn \notin State /\ Torn \notin Index
  BY NoContentAssumption, ContentsAre

\* A program of a kind is a program.
LEMMA ProgramIsKnown ==
  ASSUME NEW k \in Kinds, NEW p \in Programs(k) PROVE p \in AllPrograms
  BY DEF AllPrograms

\* A free slot has its type, and nothing to do.
LEMMA IdleIsTyped == IdleActivity \in Activity /\ Course(IdleActivity)
<1>1. <<>> \in Programs("idle") /\ "idle" \in Kinds
  BY DEF Programs, Kinds
<1>2. <<>> \in AllPrograms
  BY <1>1, ProgramIsKnown
<1> QED
  BY <1>1, <1>2, SlotsAndGens DEF IdleActivity, Activity, Course

\* The program goes on after an operation that holds nothing.
LEMMA GoesOn ==
  ASSUME NEW r \in Activity, Course(r), r.held = Nothing, NEW p \in Programs(r.kind),
         NEW s \in Cycles \cup {NoCycle}, NEW c \in Cycles \cup {NoCycle}
  PROVE  /\ [r EXCEPT !.todo = p] \in Activity /\ Course([r EXCEPT !.todo = p])
         /\ [r EXCEPT !.todo = p, !.seen = s] \in Activity /\ Course([r EXCEPT !.todo = p, !.seen = s])
         /\ [r EXCEPT !.cycle = c, !.todo = p] \in Activity /\ Course([r EXCEPT !.cycle = c, !.todo = p])
<1>1. p \in AllPrograms
  BY ProgramIsKnown DEF Activity
<1> QED
  BY <1>1 DEF Activity, Course

\* An activity that drops what it read and goes on with another program.
LEMMA Dropped ==
  ASSUME NEW r \in Activity, Course(r), NEW p \in Programs(r.kind)
  PROVE  /\ [r EXCEPT !.todo = p, !.held = Nothing, !.opened = FALSE] \in Activity
         /\ Course([r EXCEPT !.todo = p, !.held = Nothing, !.opened = FALSE])
<1>1. p \in AllPrograms
  BY ProgramIsKnown DEF Activity
<1> QED
  BY <1>1 DEF Activity, Course

\* An activity that is done with an operation.
LEMMA LeftIsTyped ==
  ASSUME NEW r \in Activity, Course(r), r.kind # "idle"
  PROVE  Left(r) \in Activity /\ Course(Left(r))
<1>1. r.kind \in Kinds /\ r.todo \in Programs(r.kind)
  BY DEF Activity, Course
<1>2. Tail(r.todo) \in Programs(r.kind) \cup {<<>>}
  BY <1>1, ProgramsAreSound DEF Sound
<1>3. CASE Tail(r.todo) = <<>>
  BY <1>3, IdleIsTyped DEF Left
<1>4. CASE Tail(r.todo) # <<>>
  <2>1. Tail(r.todo) \in Programs(r.kind)
    BY <1>2, <1>4
  <2>2. Left(r) = [r EXCEPT !.todo = Tail(r.todo), !.held = Nothing, !.opened = FALSE]
    BY <1>4 DEF Left
  <2> QED
    BY <2>1, <2>2, Dropped
<1> QED
  BY <1>3, <1>4

\* One activity changes, and keeps its type.
LEMMA Put ==
  ASSUME Typed, OnCourse, NEW a \in Activities, NEW r \in Activity, Course(r),
         act' = [act EXCEPT ![a] = r]
  PROVE  act' \in [Activities -> Activity] /\ OnCourse'
<1>1. act' \in [Activities -> Activity] /\ act'[a] = r /\ \A b \in Activities \ {a} : act'[b] = act[b]
  BY DEF Typed
<1>2. \A b \in Activities : Course(act'[b])
  BY <1>1 DEF OnCourse
<1> QED
  BY <1>1, <1>2 DEF OnCourse, Course

\* No activity changes.
LEMMA KeptCourse ==
  ASSUME Typed, OnCourse, act' = act
  PROVE  act' \in [Activities -> Activity] /\ OnCourse'
  BY DEF Typed, OnCourse, Course

\* What an operation makes of a file's content.
LEMMA ChangedIsTyped ==
  ASSUME NEW op \in Updates, NEW c \in Cycles \cup {NoCycle},
         NEW content \in Contents(FileOf(op))
  PROVE  Changed(op, c, content) \in Contents(FileOf(op))
<1>1. CASE op \in StateOps
  <2>1. content \in State /\ Contents(FileOf(op)) = State
    BY <1>1, ContentsAre DEF FileOf
  <2>2. CASE op \in {"clear", "rouse"}
    BY <2>1, <2>2 DEF State, Changed
  <2>3. CASE op = "started"
    BY <2>1, <2>3 DEF State, Changed
  <2>4. CASE op = "dormant"
    BY <2>1, <2>4 DEF State, Changed
  <2>5. CASE op = "completed"
    BY <2>1, <2>5 DEF State, Changed
  <2>6. CASE op = "activate"
    BY <2>1, <2>6 DEF State, Changed
  <2> QED
    BY <1>1, <2>2, <2>3, <2>4, <2>5, <2>6 DEF StateOps
<1>2. CASE op \in IndexOps
  <2>1. content \in Index /\ Contents(FileOf(op)) = Index
    BY <1>2, ContentsAre DEF FileOf, StateOps, IndexOps
  <2> QED
    BY <1>2, <2>1 DEF Index, IndexOps, Changed
<1> QED
  BY <1>1, <1>2 DEF Updates

\* What a reader of a file gets, torn or not.
LEMMA ReadingIsTyped ==
  ASSUME Typed, NEW f \in {"state", "index"} PROVE Reading(f) \in Contents(f)
<1>1. Default["state"] \in State
  BY DEF Default, State
<1>2. Default["index"] \in Index
  BY DEF Default, Index
<1> QED
  BY <1>1, <1>2, ContentsAre DEF Typed, Reading

-----------------------------------------------------------------------------
(* The type invariant. *)

\* Work cycles are numbered as they are made; every discovery that got past the gates and
\* every rerun may make one.
OwingOps == {"acquire", "started", "clear", "load", "discover", "workspace", "prepare"}
Owing == {a \in Activities : act[a].todo # <<>> /\ Head(act[a].todo) \in OwingOps}

Accounted ==
    /\ used.fires <= MaxFires /\ used.reruns <= MaxReruns
    /\ used.cycles + Cardinality(Owing) <= used.fires + used.reruns

\* Counting activities is counting a finite set.
LEMMA OwingIsFinite ==
  ASSUME NEW S \in SUBSET Activities PROVE IsFiniteSet(S) /\ Cardinality(S) \in Nat
<1>1. IsFiniteSet(Activities)
  BY FS_Interval, DiscoveryAssumption DEF Activities
<1> QED
  BY <1>1, FS_Subset, FS_CardinalityType

\* A fire or a rerun that is on its way to a new cycle finds a number for it.
LEMMA NextCycle ==
  ASSUME Typed, Accounted, NEW a \in Owing
  PROVE  used.cycles + 1 \in Cycles
<1>1. IsFiniteSet(Owing) /\ Cardinality(Owing) \in Nat
  BY OwingIsFinite DEF Owing
<1>2. Cardinality(Owing) # 0
  BY <1>1, FS_EmptySet
<1> QED
  BY <1>1, <1>2, DiscoveryAssumption DEF Typed, Counters, Accounted, Cycles

\* The cycles made so far are cycles.
LEMMA KnownCycles ==
  ASSUME Typed, Accounted PROVE 1..used.cycles \subseteq Cycles
<1>1. Cardinality(Owing) \in Nat
  BY OwingIsFinite DEF Owing
<1> QED
  BY <1>1, DiscoveryAssumption DEF Typed, Counters, Accounted, Cycles

\* What is known of an activity whose next operation is op.
LEMMA OpIs ==
  ASSUME Typed, OnCourse, NEW a \in Activities, NEW op, Does(a, op)
  PROVE  /\ act[a] \in Activity /\ Course(act[a]) /\ act[a].kind \in Kinds \ {"idle"}
         /\ Sound(act[a].kind, act[a].todo) /\ op \in OpsOf(act[a].kind) /\ op \in Updates \cup OtherOps
         /\ op \notin Updates => act[a].held = Nothing
         /\ Head(act[a].todo) = op
<1>1. act[a] \in Activity /\ Course(act[a])
  BY DEF Typed, OnCourse
<1>2. act[a].kind \in Kinds /\ act[a].todo \in Programs(act[a].kind)
  BY <1>1 DEF Activity, Course
<1>3. act[a].kind # "idle"
  BY <1>2, ProgramsAreSound DEF Does
<1>4. Sound(act[a].kind, act[a].todo)
  BY <1>2, <1>3, ProgramsAreSound
<1>5. Head(act[a].todo) = op
  BY DEF Does
<1>6. op \in OpsOf(act[a].kind)
  BY <1>4, <1>5 DEF Sound
<1>7. op \in Updates \cup OtherOps
  BY <1>6 DEF OpsOf, FireOps, Updates, StateOps, IndexOps, OtherOps
<1> QED
  BY <1>1, <1>2, <1>3, <1>4, <1>5, <1>6, <1>7 DEF Course

\* An activity that is not idle has an operation to do.
LEMMA DoesSomething ==
  ASSUME Typed, OnCourse, NEW a \in Activities, act[a].kind # "idle"
  PROVE  Does(a, Head(act[a].todo))
<1>1. act[a].kind \in Kinds /\ act[a].todo \in Programs(act[a].kind)
  BY DEF Typed, OnCourse, Activity, Course
<1> QED
  BY <1>1, ProgramsAreSound DEF Sound, Does

\* The operations that tell the kind of their activity.
LEMMA TickOps ==
  ASSUME NEW k \in Kinds, NEW op \in OpsOf(k)
  PROVE  /\ op \in {"gates", "acquire", "started", "clear", "discover", "dormant", "rest", "release"} => k = "tick"
         /\ op \in FireOps => k \in {"tick", "rerun"}
         /\ op \in {"applying", "apply", "applied", "restored"} => k = "apply"
         /\ op = "rouse" => k = "signal"
         /\ op = "archive" => k = "archive"
  BY DEF Kinds, OpsOf, FireOps

\* What follows a phase of a fire, in a tick or in a rerun.
Ops == Updates \cup OtherOps

\* A program that ends with the release of the lock.
LEMMA AddsRelease ==
  ASSUME NEW s \in Seq(Ops), NEW t \in Seq(Ops), Len(t) = Len(s) + 1, t[Len(t)] = "release",
         \A i \in 1..Len(s) : t[i] = s[i]
  PROVE  s \o <<"release">> = t
<1>1. <<"release">> \in Seq(Ops) /\ Len(<<"release">>) = 1 /\ <<"release">>[1] = "release"
  BY DEF Ops, OtherOps
<1>2. s \o <<"release">> \in Seq(Ops) /\ Len(s \o <<"release">>) = Len(s) + 1
  BY <1>1, ConcatProperties
<1>3. ASSUME NEW i \in 1..Len(t) PROVE (s \o <<"release">>)[i] = t[i]
  <2>1. Len(s) \in Nat /\ i \in 1..(Len(s) + 1)
    OBVIOUS
  <2>2. (s \o <<"release">>)[i] = IF i <= Len(s) THEN s[i] ELSE <<"release">>[i - Len(s)]
    BY <1>1, <2>1, ConcatProperties
  <2>3. CASE i <= Len(s)
    BY <2>1, <2>2, <2>3
  <2>4. CASE i = Len(s) + 1
    BY <1>1, <2>1, <2>2, <2>4
  <2> QED
    BY <2>1, <2>3, <2>4
<1> QED
  BY <1>2, <1>3, SeqEqual

\* What follows a phase of a fire, in a tick or in a rerun.
LEMMA Concatenated ==
  /\ <<"completed">> \o <<"release">>
       = <<"completed", "release">>
  /\ <<"completed", "dormant", "rest">> \o <<"release">>
       = <<"completed", "dormant", "rest", "release">>
  /\ <<"workspace">> \o <<"release">>
       = <<"workspace", "release">>
  /\ <<"prepare">> \o <<"release">>
       = <<"prepare", "release">>
  /\ <<"addPlan", "execute", "completed">> \o <<"release">>
       = <<"addPlan", "execute", "completed", "release">>
  /\ <<"create", "activate", "addPlan", "execute", "completed">> \o <<"release">>
       = <<"create", "activate", "addPlan", "execute", "completed", "release">>
<1>1. <<"completed">> \o <<"release">> = <<"completed", "release">>
  <2> DEFINE s == <<"completed">>
             t == <<"completed", "release">>
  <2>1. s \in Seq(Ops) /\ t \in Seq(Ops)
    BY DEF Ops, Updates, StateOps, IndexOps, OtherOps
  <2>2. Len(t) = Len(s) + 1 /\ t[Len(t)] = "release" /\ \A i \in 1..Len(s) : t[i] = s[i]
    OBVIOUS
  <2> QED
    BY <2>1, <2>2, AddsRelease
<1>2. <<"completed", "dormant", "rest">> \o <<"release">> = <<"completed", "dormant", "rest", "release">>
  <2> DEFINE s == <<"completed", "dormant", "rest">>
             t == <<"completed", "dormant", "rest", "release">>
  <2>1. s \in Seq(Ops) /\ t \in Seq(Ops)
    BY DEF Ops, Updates, StateOps, IndexOps, OtherOps
  <2>2. Len(t) = Len(s) + 1 /\ t[Len(t)] = "release" /\ \A i \in 1..Len(s) : t[i] = s[i]
    OBVIOUS
  <2> QED
    BY <2>1, <2>2, AddsRelease
<1>3. <<"workspace">> \o <<"release">> = <<"workspace", "release">>
  <2> DEFINE s == <<"workspace">>
             t == <<"workspace", "release">>
  <2>1. s \in Seq(Ops) /\ t \in Seq(Ops)
    BY DEF Ops, Updates, StateOps, IndexOps, OtherOps
  <2>2. Len(t) = Len(s) + 1 /\ t[Len(t)] = "release" /\ \A i \in 1..Len(s) : t[i] = s[i]
    OBVIOUS
  <2> QED
    BY <2>1, <2>2, AddsRelease
<1>4. <<"prepare">> \o <<"release">> = <<"prepare", "release">>
  <2> DEFINE s == <<"prepare">>
             t == <<"prepare", "release">>
  <2>1. s \in Seq(Ops) /\ t \in Seq(Ops)
    BY DEF Ops, Updates, StateOps, IndexOps, OtherOps
  <2>2. Len(t) = Len(s) + 1 /\ t[Len(t)] = "release" /\ \A i \in 1..Len(s) : t[i] = s[i]
    OBVIOUS
  <2> QED
    BY <2>1, <2>2, AddsRelease
<1>5. <<"addPlan", "execute", "completed">> \o <<"release">> = <<"addPlan", "execute", "completed", "release">>
  <2> DEFINE s == <<"addPlan", "execute", "completed">>
             t == <<"addPlan", "execute", "completed", "release">>
  <2>1. s \in Seq(Ops) /\ t \in Seq(Ops)
    BY DEF Ops, Updates, StateOps, IndexOps, OtherOps
  <2>2. Len(t) = Len(s) + 1 /\ t[Len(t)] = "release" /\ \A i \in 1..Len(s) : t[i] = s[i]
    OBVIOUS
  <2> QED
    BY <2>1, <2>2, AddsRelease
<1>6. <<"create", "activate", "addPlan", "execute", "completed">> \o <<"release">> = <<"create", "activate", "addPlan", "execute", "completed", "release">>
  <2> DEFINE s == <<"create", "activate", "addPlan", "execute", "completed">>
             t == <<"create", "activate", "addPlan", "execute", "completed", "release">>
  <2>1. s \in Seq(Ops) /\ t \in Seq(Ops)
    BY DEF Ops, Updates, StateOps, IndexOps, OtherOps
  <2>2. Len(t) = Len(s) + 1 /\ t[Len(t)] = "release" /\ \A i \in 1..Len(s) : t[i] = s[i]
    OBVIOUS
  <2> QED
    BY <2>1, <2>2, AddsRelease
<1> QED
  BY <1>1, <1>2, <1>3, <1>4, <1>5, <1>6

\* The programs of a rerun, which ends without a release.
LEMMA ConcatenatedEmpty ==
  /\ <<"completed">> \o <<>> = <<"completed">>
  /\ <<"prepare">> \o <<>> = <<"prepare">>
  /\ <<"addPlan", "execute", "completed">> \o <<>> = <<"addPlan", "execute", "completed">>
  /\ <<"create", "activate", "addPlan", "execute", "completed">> \o <<>>
       = <<"create", "activate", "addPlan", "execute", "completed">>
  OBVIOUS

\* What is done to a scheduler keeps its type.
LEMMA SchedulerIsTyped ==
  ASSUME NEW s \in Scheduler
  PROVE  /\ Rescheduled(s) \in Scheduler /\ Watched(s) \in Scheduler
         /\ \A op : Settled(s, op) \in Scheduler
         /\ \A a \in Activities : TickOver(s, a) \in Scheduler
<1>1. ASSUME NEW q \in Scheduler PROVE Rescheduled(q) \in Scheduler
  <2>1. ASSUME NEW n \in Nat PROVE [q EXCEPT !.lost = n, !.timer = TRUE] \in Scheduler
    BY DEF Scheduler
  <2>2. q.lost \in Nat /\ q.lost + 1 \in Nat
    BY DEF Scheduler
  <2>3. (IF q.timer THEN q.lost + 1 ELSE q.lost) \in Nat
    BY <2>2
  <2> QED
    BY <2>1, <2>3 DEF Rescheduled
<1>2. Watched(s) \in Scheduler
  BY DEF Watched, Scheduler
<1>3. ASSUME NEW op PROVE Settled(s, op) \in Scheduler
  <2>1. [s EXCEPT !.watcher = FALSE] \in Scheduler
    BY DEF Scheduler
  <2>2. [s EXCEPT !.watcher = FALSE, !.timer = FALSE] \in Scheduler
    BY DEF Scheduler
  <2>3. Rescheduled([s EXCEPT !.watcher = FALSE, !.timer = FALSE]) \in Scheduler
    BY <2>2, <1>1
  <2> QED
    BY <2>1, <2>3 DEF Settled
<1>4. ASSUME NEW a \in Activities PROVE TickOver(s, a) \in Scheduler
  <2>1. ASSUME NEW w \in 0..Slots PROVE [s EXCEPT !.tip = 0, !.wait = w] \in Scheduler
    <3>1. 0 \in 0..Slots
      BY DiscoveryAssumption
    <3> QED
      BY <3>1 DEF Scheduler
  <2>2. (IF s.wait = a THEN 0 ELSE s.wait) \in 0..Slots
    BY DiscoveryAssumption DEF Scheduler
  <2> QED
    BY <2>1, <2>2, <1>1 DEF TickOver
<1> QED
  BY <1>1, <1>2, <1>3, <1>4

\* One scheduler changes.
LEMMA PutScheduler ==
  ASSUME Typed, NEW g \in Gens, NEW s \in Scheduler, sched' = [sched EXCEPT ![g] = s]
  PROVE  sched' \in [Gens -> Scheduler]
  BY DEF Typed

\* An activity begins with one of the programs of its kind.
LEMMA BeginsIsTyped ==
  ASSUME Typed, OnCourse, NEW a \in Activities, NEW k \in Kinds, NEW g \in Gens,
         NEW p \in Programs(k),
         NEW c \in Cycles \cup {NoCycle}, Begins(a, k, g, p, c)
  PROVE  act' \in [Activities -> Activity] /\ OnCourse' /\ beside' \in BOOLEAN
<1> DEFINE r == [IdleActivity EXCEPT !.kind = k, !.gen = g, !.todo = p, !.cycle = c]
<1>1. p \in AllPrograms
  BY ProgramIsKnown
<1>2. r \in Activity /\ Course(r)
  BY <1>1 DEF IdleActivity, Activity, Course
<1>3. act' = [act EXCEPT ![a] = r]
  BY DEF Begins
<1>4. beside' \in BOOLEAN
  BY DEF Begins, Typed
<1> HIDE DEF r
<1> QED
  BY <1>2, <1>3, <1>4, Put

\* A tick ends, and its scheduler arms the next timer.
LEMMA TickEndsIsTyped ==
  ASSUME Typed, OnCourse, NEW a \in Activities, TickEnds(a)
  PROVE  act' \in [Activities -> Activity] /\ OnCourse' /\ sched' \in [Gens -> Scheduler]
<1>1. act[a].gen \in Gens /\ sched[act[a].gen] \in Scheduler
  BY DEF Typed, Activity
<1>2. TickOver(sched[act[a].gen], a) \in Scheduler
  BY <1>1, SchedulerIsTyped
<1>3. sched' = [sched EXCEPT ![act[a].gen] = TickOver(sched[act[a].gen], a)]
  BY DEF TickEnds
<1>4. act' = [act EXCEPT ![a] = IdleActivity]
  BY DEF TickEnds
<1> QED
  BY <1>1, <1>2, <1>3, <1>4, PutScheduler, Put, IdleIsTyped

\* An activity goes on with one of the programs of its kind.
LEMMA ProceedsIsTyped ==
  ASSUME Typed, OnCourse, NEW a \in Activities, act[a].held = Nothing,
         NEW p \in Programs(act[a].kind),
         Proceeds(a, p)
  PROVE  act' \in [Activities -> Activity] /\ OnCourse'
<1>1. act[a] \in Activity /\ Course(act[a])
  BY DEF Typed, OnCourse
<1>2. [act[a] EXCEPT !.todo = p] \in Activity /\ Course([act[a] EXCEPT !.todo = p])
  BY <1>1, GoesOn
<1>3. act' = [act EXCEPT ![a] = [act[a] EXCEPT !.todo = p]]
  BY <1>1 DEF Proceeds, Typed
<1> QED
  BY <1>2, <1>3, Put

\* An update is done: what it leaves of the activity, its scheduler and the history.
LEMMA FinishesIsTyped ==
  ASSUME Typed, OnCourse, NEW a \in Activities, NEW op, Does(a, op), Finishes(a, op)
  PROVE  /\ act' \in [Activities -> Activity] /\ OnCourse' /\ sched' \in [Gens -> Scheduler]
         /\ real' \in [fires : Nat, cooling : BOOLEAN, asleep : BOOLEAN] /\ forked' \in BOOLEAN
<1>1. act[a] \in Activity /\ Course(act[a]) /\ act[a].kind # "idle"
  BY OpIs
<1>2. act' = [act EXCEPT ![a] = Left(act[a])]
  BY DEF Finishes
<1>3. act' \in [Activities -> Activity] /\ OnCourse'
  BY <1>1, <1>2, LeftIsTyped, Put
<1>4. act[a].gen \in Gens /\ sched[act[a].gen] \in Scheduler
  BY DEF Typed, Activity
<1>5. sched' = [sched EXCEPT ![act[a].gen] = Settled(sched[act[a].gen], op)]
  BY DEF Finishes
<1>6. sched' \in [Gens -> Scheduler]
  BY <1>4, <1>5, SchedulerIsTyped, PutScheduler
<1>7. real' \in [fires : Nat, cooling : BOOLEAN, asleep : BOOLEAN] /\ forked' \in BOOLEAN
  <2>1. real.fires + 1 \in Nat /\ real.fires \in Nat
    BY DEF Typed
  <2>2. (IF op = "started" THEN real.fires + 1 ELSE real.fires) \in Nat
    BY <2>1
  <2>3. ASSUME NEW n \in Nat, NEW b \in BOOLEAN
        PROVE  [real EXCEPT !.fires = n, !.asleep = b] \in [fires : Nat, cooling : BOOLEAN, asleep : BOOLEAN]
    BY DEF Typed
  <2>4. (real.asleep \/ (op = "dormant" /\ ~Signalled)) \in BOOLEAN
    BY DEF Signalled
  <2>5. forked' \in BOOLEAN
    BY DEF Finishes, Ticking
  <2> QED
    BY <2>2, <2>3, <2>4, <2>5 DEF Finishes
<1> QED
  BY <1>3, <1>6, <1>7

Goal == Typed' /\ OnCourse'

\* A file is rewritten.
LEMMA DiskIsTyped ==
  ASSUME Typed, NEW f \in {"state", "index"}, NEW x, x = Torn \/ x \in Contents(f),
         disk' = [disk EXCEPT ![f] = x]
  PROVE  /\ disk' \in [{"state", "index"} -> State \cup Index \cup {Torn}]
         /\ \A g \in {"state", "index"} : disk'[g] = Torn \/ disk'[g] \in Contents(g)
<1>1. x \in State \cup Index \cup {Torn}
  BY ContentsAre
<1>2. disk' \in [{"state", "index"} -> State \cup Index \cup {Torn}]
  BY <1>1 DEF Typed
<1>3. disk'[f] = x /\ \A g \in {"state", "index"} \ {f} : disk'[g] = disk[g]
  BY DEF Typed
<1> QED
  BY <1>2, <1>3 DEF Typed

\* An activity holds what it is about to write.
LEMMA HoldsIsTyped ==
  ASSUME Typed, OnCourse, NEW a \in Activities, NEW op \in Updates, Does(a, op),
         NEW x \in Contents(FileOf(op))
  PROVE  [act[a] EXCEPT !.held = x] \in Activity /\ Course([act[a] EXCEPT !.held = x])
<1>1. act[a] \in Activity /\ Course(act[a]) /\ Head(act[a].todo) = op
  BY OpIs
<1>2. x \in State \cup Index \cup {Nothing} /\ x # Nothing
  BY ContentsAre, NoContent DEF FileOf
<1> QED
  BY <1>1, <1>2 DEF Activity, Course, Does

\* Reads keeps the types.
LEMMA ReadsIsTyped ==
  ASSUME Typed, OnCourse, NEW a \in Activities, Reads(a)
  PROVE  Goal
<1>1. PICK op \in Updates :
        /\ Does(a, op)
        /\ spoiled' \in BOOLEAN
        /\ \/ /\ act' = [act EXCEPT ![a].held = Changed(op, act[a].cycle, Reading(FileOf(op)))]
              /\ real' = [real EXCEPT !.cooling = real.cooling \/ op = "completed"]
              /\ UNCHANGED <<sched, forked>>
           \/ act' = [act EXCEPT ![a] = IdleActivity] /\ UNCHANGED <<sched, real, forked>>
           \/ Finishes(a, op)
        /\ UNCHANGED <<disk, lock, abandoned, dirs, beside, used>>
  BY DEF Reads, Typed
<1>2. act[a] \in Activity /\ FileOf(op) \in {"state", "index"}
  BY DEF Typed, FileOf
<1>3. CASE Finishes(a, op)
  BY <1>1, <1>3, FinishesIsTyped DEF Goal, Typed
<1>4. CASE act' = [act EXCEPT ![a] = IdleActivity] /\ UNCHANGED <<sched, real, forked>>
  BY <1>1, <1>4, IdleIsTyped, Put DEF Goal, Typed
<1>5. CASE /\ act' = [act EXCEPT ![a].held = Changed(op, act[a].cycle, Reading(FileOf(op)))]
           /\ real' = [real EXCEPT !.cooling = real.cooling \/ op = "completed"]
           /\ UNCHANGED <<sched, forked>>
  <2> DEFINE x == Changed(op, act[a].cycle, Reading(FileOf(op)))
  <2>1. x \in Contents(FileOf(op))
    BY <1>2, ReadingIsTyped, ChangedIsTyped DEF Activity
  <2>2. act' = [act EXCEPT ![a] = [act[a] EXCEPT !.held = x]]
    BY <1>5
  <2> HIDE DEF x
  <2>3. act' \in [Activities -> Activity] /\ OnCourse'
    BY <1>1, <2>1, <2>2, HoldsIsTyped, Put
  <2>4. (real.cooling \/ op = "completed") \in BOOLEAN
    OBVIOUS
  <2>5. real' \in [fires : Nat, cooling : BOOLEAN, asleep : BOOLEAN]
    BY <1>5, <2>4 DEF Typed
  <2> QED
    BY <1>1, <1>5, <2>3, <2>5 DEF Goal, Typed
<1> QED
  BY <1>1, <1>3, <1>4, <1>5

\* Disposing of a workspace keeps the types.
LEMMA DisposesIsTyped ==
  ASSUME Typed, OnCourse, NEW a \in Activities, Disposes(a)
  PROVE  Goal
<1>1. dirs' \subseteq Cycles
  BY DEF Disposes, Typed
<1> QED
  BY <1>1, KeptCourse DEF Disposes, Goal, Typed

\* A counter that goes up keeps its type.
LEMMA FaultIsCounted ==
  ASSUME Typed, UNCHANGED used \/ used' = [used EXCEPT !.faults = used.faults + 1]
  PROVE  /\ used' \in Counters
         /\ used'.cycles = used.cycles /\ used'.fires = used.fires /\ used'.reruns = used.reruns
<1>1. used \in Counters
  BY DEF Typed
<1> QED
  BY <1>1 DEF Counters

\* Opens keeps the types.
LEMMA OpensIsTyped ==
  ASSUME Typed, OnCourse, NEW a \in Activities, Opens(a)
  PROVE  Goal
<1>1. act[a] \in Activity /\ Course(act[a]) /\ act[a].held # Nothing
  BY DEF Opens, Typed, OnCourse
<1>2. FileOf(Head(act[a].todo)) \in {"state", "index"}
  BY DEF FileOf
<1>3. act' = [act EXCEPT ![a] = [act[a] EXCEPT !.opened = TRUE]]
  BY DEF Opens
<1>4. [act[a] EXCEPT !.opened = TRUE] \in Activity /\ Course([act[a] EXCEPT !.opened = TRUE])
  BY <1>1 DEF Activity, Course
<1>5. act' \in [Activities -> Activity] /\ OnCourse'
  BY <1>3, <1>4, Put
<1>6. disk' = [disk EXCEPT ![FileOf(Head(act[a].todo))] = Torn]
  BY DEF Opens
<1>7. /\ disk' \in [{"state", "index"} -> State \cup Index \cup {Torn}]
      /\ \A g \in {"state", "index"} : disk'[g] = Torn \/ disk'[g] \in Contents(g)
  BY <1>2, <1>6, DiskIsTyped
<1>8. used' \in Counters
  <2>1. UNCHANGED used \/ used' = [used EXCEPT !.faults = used.faults + 1]
    BY DEF Opens
  <2> QED
    BY <2>1, FaultIsCounted
<1> QED
  BY <1>5, <1>7, <1>8 DEF Opens, Goal, Typed

\* Writes keeps the types.
LEMMA WritesIsTyped ==
  ASSUME Typed, OnCourse, NEW a \in Activities, Writes(a)
  PROVE  Goal
<1>1. act[a] \in Activity /\ Course(act[a]) /\ act[a].held # Nothing
  BY DEF Writes, Typed, OnCourse, Course
<1>2. Does(a, Head(act[a].todo))
  BY <1>1 DEF Course, Does
<1>3. FileOf(Head(act[a].todo)) \in {"state", "index"}
  BY DEF FileOf
<1>4. disk' = [disk EXCEPT ![FileOf(Head(act[a].todo))] = act[a].held] /\ Finishes(a, Head(act[a].todo))
  BY DEF Writes
<1>5. /\ disk' \in [{"state", "index"} -> State \cup Index \cup {Torn}]
      /\ \A g \in {"state", "index"} : disk'[g] = Torn \/ disk'[g] \in Contents(g)
  BY <1>1, <1>3, <1>4, DiskIsTyped DEF Course
<1> QED
  BY <1>2, <1>4, <1>5, FinishesIsTyped DEF Writes, Goal, Typed

\* Gates keeps the types.
LEMMA GatesIsTyped ==
  ASSUME Typed, OnCourse, NEW a \in Activities, Gates(a)
  PROVE  Goal
<1>1. Does(a, "gates")
  BY DEF Gates
<1>2. act[a] \in Activity /\ Course(act[a]) /\ act[a].held = Nothing /\ act[a].kind = "tick"
  BY <1>1, OpIs, TickOps DEF Updates, StateOps, IndexOps
<1>3. act[a].gen \in Gens /\ sched[act[a].gen] \in Scheduler
  BY <1>2 DEF Typed, Activity
<1>4. CASE /\ act' = [act EXCEPT ![a] = IdleActivity]
           /\ sched' = [sched EXCEPT ![act[a].gen] = TickOver(
                  IF Reading("state").dormant THEN Watched(sched[act[a].gen]) ELSE sched[act[a].gen], a)]
           /\ UNCHANGED <<spoiled, used>>
  <2>1. act' \in [Activities -> Activity] /\ OnCourse'
    BY <1>4, IdleIsTyped, Put
  <2>2. TickOver(IF Reading("state").dormant THEN Watched(sched[act[a].gen]) ELSE sched[act[a].gen], a)
          \in Scheduler
    BY <1>3, SchedulerIsTyped
  <2>3. sched' \in [Gens -> Scheduler]
    BY <1>3, <1>4, <2>2, PutScheduler
  <2> QED
    BY <1>4, <2>1, <2>3 DEF Gates, Goal, Typed
<1>5. CASE /\ Proceeds(a, <<"acquire">>)
           /\ used' = [used EXCEPT !.fires = used.fires + 1]
           /\ spoiled' = (spoiled \/ disk.state = Torn)
           /\ UNCHANGED sched
  <2>1. <<"acquire">> \in Programs(act[a].kind)
    BY <1>2 DEF Programs, TickPrograms
  <2>2. act' \in [Activities -> Activity] /\ OnCourse'
    BY <1>2, <1>5, <2>1, ProceedsIsTyped
  <2>3. used' \in Counters
    BY <1>5 DEF Typed, Counters
  <2>4. spoiled' \in BOOLEAN
    BY <1>5 DEF Typed
  <2> QED
    BY <1>5, <2>2, <2>3, <2>4 DEF Gates, Goal, Typed
<1> QED
  BY <1>4, <1>5 DEF Gates

\* Acquire keeps the types.
LEMMA AcquireIsTyped ==
  ASSUME Typed, OnCourse, NEW a \in Activities, Acquire(a)
  PROVE  Goal
<1>1. Does(a, "acquire")
  BY DEF Acquire
<1>2. act[a] \in Activity /\ Course(act[a]) /\ act[a].held = Nothing /\ act[a].kind = "tick"
  BY <1>1, OpIs, TickOps DEF Updates, StateOps, IndexOps
<1>3. CASE lock /\ TickEnds(a) /\ UNCHANGED <<lock, abandoned, used>>
  BY <1>3, TickEndsIsTyped DEF Acquire, Goal, Typed
<1>5. CASE ~lock /\ lock' = TRUE /\ TickEnds(a) /\ Abandons
  BY <1>5, TickEndsIsTyped, FaultIsCounted DEF Acquire, Abandons, Goal, Typed
<1>4. CASE /\ ~lock /\ lock' = TRUE
           /\ Proceeds(a, <<"started", "clear", "load", "discover">>)
           /\ UNCHANGED <<abandoned, sched, used>>
  <2>1. <<"started", "clear", "load", "discover">> \in Programs(act[a].kind)
    BY <1>2 DEF Programs, TickPrograms
  <2>2. act' \in [Activities -> Activity] /\ OnCourse'
    BY <1>2, <2>1, <1>4, ProceedsIsTyped
  <2> QED
    BY <1>4, <2>2 DEF Acquire, Goal, Typed
<1> QED
  BY <1>3, <1>4, <1>5 DEF Acquire

\* Load keeps the types.
LEMMA LoadIsTyped ==
  ASSUME Typed, OnCourse, NEW a \in Activities, Load(a)
  PROVE  Goal
<1>1. Does(a, "load")
  BY DEF Load
<1>2. act[a] \in Activity /\ Course(act[a]) /\ act[a].held = Nothing /\ act[a].kind \in {"tick", "rerun"}
  <2>1. "load" \notin Updates /\ "load" \in FireOps
    BY DEF Updates, StateOps, IndexOps, FireOps
  <2>2. /\ act[a] \in Activity /\ Course(act[a]) /\ act[a].held = Nothing
        /\ act[a].kind \in Kinds /\ "load" \in OpsOf(act[a].kind)
    BY <1>1, <2>1, OpIs
  <2> QED
    BY <2>1, <2>2, TickOps
<1>3. Tail(act[a].todo) \in Programs(act[a].kind)
  <2>1. Sound(act[a].kind, act[a].todo) /\ Head(act[a].todo) = "load"
    BY <1>1, OpIs
  <2>2. "load" \notin LastOps(act[a].kind)
    BY <1>2 DEF LastOps
  <2> QED
    BY <2>1, <2>2 DEF Sound
<1>4. Reading("state").active \in Cycles \cup {NoCycle}
  <2>1. Reading("state") \in State
    BY ReadingIsTyped, ContentsAre
  <2> QED
    BY <2>1 DEF State
<1>5. act' = [act EXCEPT ![a] = [act[a] EXCEPT !.todo = Tail(act[a].todo), !.seen = Reading("state").active]]
  BY DEF Load
<1>6. act' \in [Activities -> Activity] /\ OnCourse'
  BY <1>2, <1>3, <1>4, <1>5, GoesOn, Put
<1>7. spoiled' \in BOOLEAN
  BY DEF Load, Typed
<1> QED
  BY <1>6, <1>7 DEF Load, Goal, Typed

\* Discover keeps the types.
LEMMA DiscoverIsTyped ==
  ASSUME Typed, OnCourse, NEW a \in Activities, Discover(a)
  PROVE  Goal
<1>1. Does(a, "discover")
  BY DEF Discover
<1>2. act[a] \in Activity /\ Course(act[a]) /\ act[a].held = Nothing /\ act[a].kind = "tick"
  BY <1>1, OpIs, TickOps DEF Updates, StateOps, IndexOps
<1>3. PICK todo \in {<<"completed">>, <<"completed", "dormant", "rest">>, <<"workspace">>} :
         Proceeds(a, todo \o <<"release">>)
  BY DEF Discover
<1>4. todo \o <<"release">> \in Programs("tick")
  <2>1. CASE todo = <<"completed">>
    BY <2>1, Concatenated DEF Programs, TickPrograms
  <2>2. CASE todo = <<"completed", "dormant", "rest">>
    BY <2>2, Concatenated DEF Programs, TickPrograms
  <2>3. CASE todo = <<"workspace">>
    BY <2>3, Concatenated DEF Programs, TickPrograms
  <2> QED
    BY <2>1, <2>2, <2>3
<1>5. act' \in [Activities -> Activity] /\ OnCourse'
  BY <1>2, <1>3, <1>4, ProceedsIsTyped
<1> QED
  BY <1>5 DEF Discover, Goal, Typed

\* What a tick or a rerun goes on with.
LEMMA RestOfFire ==
  ASSUME NEW a \in Activities, act[a].kind \in {"tick", "rerun"}
  PROVE  /\ <<"prepare">> \o Released(a) \in Programs(act[a].kind)
         /\ <<"addPlan", "execute", "completed">> \o Released(a) \in Programs(act[a].kind)
         /\ <<"create", "activate", "addPlan", "execute", "completed">> \o Released(a)
              \in Programs(act[a].kind)
<1>1. CASE act[a].kind = "tick"
  <2>1. Released(a) = <<"release">> /\ Programs(act[a].kind) = TickPrograms
    BY <1>1 DEF Released, Programs
  <2>2. <<"prepare", "release">> \in TickPrograms
    BY DEF TickPrograms
  <2>3. <<"addPlan", "execute", "completed", "release">> \in TickPrograms
    BY DEF TickPrograms
  <2>4. <<"create", "activate", "addPlan", "execute", "completed", "release">> \in TickPrograms
    BY DEF TickPrograms
  <2> QED
    BY <2>1, <2>2, <2>3, <2>4, Concatenated
<1>2. CASE act[a].kind = "rerun"
  <2>1. Released(a) = <<>> /\ Programs(act[a].kind) = RerunPrograms
    BY <1>2 DEF Released, Programs
  <2>2. <<"prepare">> \in RerunPrograms
    BY DEF RerunPrograms
  <2>3. <<"addPlan", "execute", "completed">> \in RerunPrograms
    BY DEF RerunPrograms
  <2>4. <<"create", "activate", "addPlan", "execute", "completed">> \in RerunPrograms
    BY DEF RerunPrograms
  <2> QED
    BY <2>1, <2>2, <2>3, <2>4, ConcatenatedEmpty
<1> QED
  BY <1>1, <1>2

\* Taking the active cycle over keeps the types.
LEMMA ReusesIsTyped ==
  ASSUME Typed, OnCourse, NEW a \in Activities, act[a].kind \in {"tick", "rerun"},
         act[a].held = Nothing,
         Reuses(a)
  PROVE  act' \in [Activities -> Activity] /\ OnCourse'
<1> DEFINE p == <<"addPlan", "execute", "completed">> \o Released(a)
<1>1. act[a] \in Activity /\ Course(act[a]) /\ act[a].seen \in Cycles \cup {NoCycle}
  BY DEF Typed, OnCourse, Activity
<1>2. p \in Programs(act[a].kind)
  BY RestOfFire
<1>3. act' = [act EXCEPT ![a] = [act[a] EXCEPT !.cycle = act[a].seen, !.todo = p]]
  BY DEF Reuses
<1> HIDE DEF p
<1>4. /\ [act[a] EXCEPT !.cycle = act[a].seen, !.todo = p] \in Activity
      /\ Course([act[a] EXCEPT !.cycle = act[a].seen, !.todo = p])
  BY <1>1, <1>2, GoesOn
<1> QED
  BY <1>3, <1>4, Put

\* Workspace keeps the types.
LEMMA WorkspaceIsTyped ==
  ASSUME Typed, OnCourse, NEW a \in Activities, Workspace(a)
  PROVE  Goal
<1>1. Does(a, "workspace")
  BY DEF Workspace
<1>2. act[a] \in Activity /\ Course(act[a]) /\ act[a].held = Nothing /\ act[a].kind \in {"tick", "rerun"}
  BY <1>1, OpIs, TickOps DEF Updates, StateOps, IndexOps, FireOps
<1>3. spoiled' \in BOOLEAN
  BY DEF Workspace, Typed
<1>4. CASE Reuses(a)
  BY <1>2, <1>3, <1>4, ReusesIsTyped DEF Workspace, Goal, Typed
<1>5. CASE Proceeds(a, <<"prepare">> \o Released(a))
  BY <1>2, <1>3, <1>5, ProceedsIsTyped, RestOfFire DEF Workspace, Goal, Typed
<1> QED
  BY <1>4, <1>5 DEF Workspace

\* Prepare keeps the types; that the new cycle has a number takes the accounts.
LEMMA PrepareIsTyped ==
  ASSUME Typed, OnCourse, Accounted, NEW a \in Activities, Prepare(a)
  PROVE  Goal
<1>1. Does(a, "prepare")
  BY DEF Prepare
<1>2. act[a] \in Activity /\ Course(act[a]) /\ act[a].held = Nothing /\ act[a].kind \in {"tick", "rerun"}
  BY <1>1, OpIs, TickOps DEF Updates, StateOps, IndexOps, FireOps
<1>3. CASE Reuses(a) /\ UNCHANGED <<dirs, used>>
  BY <1>2, <1>3, ReusesIsTyped DEF Prepare, Goal, Typed
<1>4. CASE /\ dirs' = dirs \cup {used.cycles + 1}
           /\ used' = [used EXCEPT !.cycles = used.cycles + 1]
           /\ act' = [act EXCEPT ![a] = [act[a] EXCEPT !.cycle = used.cycles + 1,
                  !.todo = <<"create", "activate", "addPlan", "execute", "completed">> \o Released(a)]]
  <2> DEFINE p == <<"create", "activate", "addPlan", "execute", "completed">> \o Released(a)
  <2>1. used.cycles + 1 \in Cycles
    BY <1>1, NextCycle DEF Owing, OwingOps, Does
  <2>2. p \in Programs(act[a].kind)
    BY <1>2, RestOfFire
  <2>3. act' = [act EXCEPT ![a] = [act[a] EXCEPT !.cycle = used.cycles + 1, !.todo = p]]
    BY <1>4
  <2> HIDE DEF p
  <2>4. act' \in [Activities -> Activity] /\ OnCourse'
    BY <1>2, <2>1, <2>2, <2>3, GoesOn, Put
  <2>5. used' \in Counters
    BY <1>4 DEF Typed, Counters
  <2>6. dirs' \subseteq Cycles
    BY <1>4, <2>1 DEF Typed
  <2> QED
    BY <2>4, <2>5, <2>6 DEF Prepare, Goal, Typed
<1> QED
  BY <1>3, <1>4 DEF Prepare

\* Execute keeps the types.
LEMMA ExecuteIsTyped ==
  ASSUME Typed, OnCourse, NEW a \in Activities, Execute(a)
  PROVE  Goal
<1>1. Does(a, "execute")
  BY DEF Execute
<1>2. act[a].held = Nothing /\ act[a].kind \in {"tick", "rerun"}
  <2>1. "execute" \notin Updates /\ "execute" \in FireOps
    BY DEF Updates, StateOps, IndexOps, FireOps
  <2>2. act[a].held = Nothing /\ act[a].kind \in Kinds /\ "execute" \in OpsOf(act[a].kind)
    BY <1>1, <2>1, OpIs
  <2> QED
    BY <2>1, <2>2, TickOps
<1>3. Tail(act[a].todo) \in Programs(act[a].kind)
  <2>1. Sound(act[a].kind, act[a].todo) /\ Head(act[a].todo) = "execute"
    BY <1>1, OpIs
  <2>2. "execute" \notin LastOps(act[a].kind)
    BY <1>2 DEF LastOps
  <2> QED
    BY <2>1, <2>2 DEF Sound
<1>4. act' \in [Activities -> Activity] /\ OnCourse'
  BY <1>2, <1>3, ProceedsIsTyped DEF Execute
<1> QED
  BY <1>4 DEF Execute, Goal, Typed

\* Rest keeps the types.
LEMMA RestIsTyped ==
  ASSUME Typed, OnCourse, NEW a \in Activities, Rest(a)
  PROVE  Goal
<1>1. Does(a, "rest")
  BY DEF Rest
<1>2. act[a].held = Nothing /\ act[a].kind = "tick"
  <2>1. "rest" \notin Updates
    BY DEF Updates, StateOps, IndexOps
  <2>2. act[a].held = Nothing /\ act[a].kind \in Kinds /\ "rest" \in OpsOf(act[a].kind)
    BY <1>1, <2>1, OpIs
  <2> QED
    BY <2>1, <2>2, TickOps
<1>3. Tail(act[a].todo) \in Programs(act[a].kind)
  <2>1. Sound(act[a].kind, act[a].todo) /\ Head(act[a].todo) = "rest"
    BY <1>1, OpIs
  <2>2. "rest" \notin LastOps(act[a].kind)
    BY <1>2 DEF LastOps
  <2> QED
    BY <2>1, <2>2 DEF Sound
<1>4. act' \in [Activities -> Activity] /\ OnCourse'
  BY <1>2, <1>3, ProceedsIsTyped DEF Rest
<1>5. act[a].gen \in Gens /\ sched[act[a].gen] \in Scheduler
  BY DEF Typed, Activity
<1>6. sched' = [sched EXCEPT ![act[a].gen] = Watched(sched[act[a].gen])]
  BY DEF Rest
<1>7. sched' \in [Gens -> Scheduler]
  BY <1>5, <1>6, SchedulerIsTyped, PutScheduler
<1> QED
  BY <1>4, <1>7 DEF Rest, Goal, Typed

\* Release keeps the types.
LEMMA ReleaseIsTyped ==
  ASSUME Typed, OnCourse, NEW a \in Activities, Release(a)
  PROVE  Goal
<1>1. CASE lock' = FALSE /\ UNCHANGED <<abandoned, used>>
  BY <1>1, TickEndsIsTyped DEF Release, Goal, Typed
<1>2. CASE Abandons /\ UNCHANGED lock
  BY <1>2, TickEndsIsTyped, FaultIsCounted DEF Release, Abandons, Goal, Typed
<1> QED
  BY <1>1, <1>2 DEF Release

\* Apply keeps the types.
LEMMA ApplyIsTyped ==
  ASSUME Typed, OnCourse, NEW a \in Activities, Apply(a)
  PROVE  Goal
<1>1. Does(a, "apply")
  BY DEF Apply
<1>2. act[a].held = Nothing /\ act[a].kind = "apply"
  <2>1. "apply" \notin Updates
    BY DEF Updates, StateOps, IndexOps
  <2>2. act[a].held = Nothing /\ act[a].kind \in Kinds /\ "apply" \in OpsOf(act[a].kind)
    BY <1>1, <2>1, OpIs
  <2> QED
    BY <2>1, <2>2, TickOps
<1>3. PICK op \in {"applied", "restored"} : Proceeds(a, <<op>>)
  BY DEF Apply
<1>4. <<op>> \in Programs(act[a].kind)
  BY <1>2 DEF Programs, ApplyPrograms
<1>5. act' \in [Activities -> Activity] /\ OnCourse'
  BY <1>2, <1>3, <1>4, ProceedsIsTyped
<1> QED
  BY <1>5 DEF Apply, Goal, Typed

\* What is left after an operation that rejects.
LEMMA AfterFaultIs ==
  ASSUME Typed, OnCourse, NEW a \in Activities, act[a].kind \notin {"idle", "signal"}
  PROVE  \/ AfterFault(act[a]) = <<>>
         \/ AfterFault(act[a]) = <<"release">> /\ act[a].kind = "tick"
         \/ AfterFault(act[a]) = <<"completed", "release">> /\ act[a].kind = "tick"
         \/ AfterFault(act[a]) = <<"completed">> /\ act[a].kind = "rerun"
<1> DEFINE op == Head(act[a].todo)
           release == IF act[a].kind = "tick" /\ op \notin {"gates", "acquire"} THEN <<"release">> ELSE <<>>
<1>1. act[a].kind \in Kinds /\ op \in OpsOf(act[a].kind)
  BY DoesSomething, OpIs
<1>2. AfterFault(act[a]) = IF op \in {"workspace", "prepare", "create", "activate"}
                             THEN <<"completed">> \o release ELSE release
  BY DEF AfterFault
<1>3. CASE op \in {"workspace", "prepare", "create", "activate"}
  <2>1. act[a].kind \in {"tick", "rerun"}
    BY <1>1, <1>3, TickOps DEF FireOps
  <2>2. CASE act[a].kind = "tick"
    <3>1. release = <<"release">>
      BY <1>3, <2>2
    <3> QED
      BY <1>2, <1>3, <2>2, <3>1, Concatenated
  <2>3. CASE act[a].kind = "rerun"
    <3>1. release = <<>>
      BY <1>3, <2>3
    <3> QED
      BY <1>2, <1>3, <2>3, <3>1, ConcatenatedEmpty
  <2> QED
    BY <2>1, <2>2, <2>3
<1>4. CASE op \notin {"workspace", "prepare", "create", "activate"}
  BY <1>2, <1>4
<1> QED
  BY <1>3, <1>4

\* A rejected operation keeps the types.
LEMMA FaultIsTyped ==
  ASSUME Typed, OnCourse, NEW a \in Activities, Fault(a)
  PROVE  Goal
<1>1. act[a].kind \notin {"idle", "signal"} /\ act[a] \in Activity /\ Course(act[a])
  BY DEF Fault, Typed, OnCourse
<1>2. used' \in Counters
  BY DEF Fault, Typed, Counters
<1>3. spoiled' \in BOOLEAN
  BY DEF Fault, Typed
<1>4. CASE TickEnds(a)
  BY <1>2, <1>3, <1>4, TickEndsIsTyped DEF Fault, Goal, Typed
<1>5. CASE act' = [act EXCEPT ![a] = IdleActivity] /\ UNCHANGED sched
  <2>1. act' \in [Activities -> Activity] /\ OnCourse'
    BY <1>5, IdleIsTyped, Put
  <2> QED
    BY <1>2, <1>3, <1>5, <2>1 DEF Fault, Goal, Typed
<1>6. CASE /\ AfterFault(act[a]) # <<>>
           /\ act' = [act EXCEPT ![a] = [act[a] EXCEPT
                  !.todo = AfterFault(act[a]), !.held = Nothing, !.opened = FALSE]]
           /\ UNCHANGED sched
  <2>1. AfterFault(act[a]) \in Programs(act[a].kind)
    BY <1>1, <1>6, AfterFaultIs DEF Programs, TickPrograms, RerunPrograms
  <2>2. act' \in [Activities -> Activity] /\ OnCourse'
    BY <1>1, <1>6, <2>1, Dropped, Put
  <2> QED
    BY <1>2, <1>3, <1>6, <2>2 DEF Fault, Goal, Typed
<1> QED
  BY <1>4, <1>5, <1>6 DEF Fault

\* A crash keeps the types.
LEMMA CrashIsTyped == ASSUME Typed, OnCourse, Crash PROVE Goal
<1>1. NewScheduler \in Scheduler /\ [NewScheduler EXCEPT !.status = "dead"] \in Scheduler
  <2>1. 0 \in 0..Slots
    BY DiscoveryAssumption
  <2>2. NewScheduler \in Scheduler
    BY <2>1 DEF NewScheduler, Scheduler
  <2> QED
    BY <2>2 DEF Scheduler
<1>2. sched' \in [Gens -> Scheduler]
  BY <1>1 DEF Crash, Typed
<1>3. act' \in [Activities -> Activity] /\ OnCourse'
  BY IdleIsTyped DEF Crash, OnCourse, Course
<1>4. used' \in Counters
  BY DEF Crash, Typed, Counters
<1>5. spoiled' \in BOOLEAN
  BY DEF Crash, Typed
<1> QED
  BY <1>2, <1>3, <1>4, <1>5 DEF Crash, Goal, Typed

\* The end of the cooldown keeps the types.
LEMMA CooldownIsTyped == ASSUME Typed, OnCourse, CooldownEnds PROVE Goal
<1>1. ASSUME NEW s \in State PROVE [s EXCEPT !.cooling = FALSE] \in State
  BY DEF State
<1>2. real' \in [fires : Nat, cooling : BOOLEAN, asleep : BOOLEAN]
  BY DEF CooldownEnds, Typed
<1>3. /\ disk' \in [{"state", "index"} -> State \cup Index \cup {Torn}]
      /\ \A g \in {"state", "index"} : disk'[g] = Torn \/ disk'[g] \in Contents(g)
  <2> DEFINE x == IF disk.state = Torn THEN Torn ELSE [disk.state EXCEPT !.cooling = FALSE]
  <2>1. disk["state"] = Torn \/ disk["state"] \in State
    BY ContentsAre DEF Typed
  <2>2. x = Torn \/ x \in Contents("state")
    BY <1>1, <2>1, ContentsAre
  <2>3. disk' = [disk EXCEPT !["state"] = x]
    BY DEF CooldownEnds
  <2> HIDE DEF x
  <2> QED
    BY <2>2, <2>3, DiskIsTyped
<1>4. ASSUME NEW a \in Activities PROVE act'[a] \in Activity /\ Course(act'[a])
  <2>1. act[a] \in Activity /\ Course(act[a])
    BY DEF Typed, OnCourse
  <2>2. CASE act[a].held # Nothing /\ FileOf(Head(act[a].todo)) = "state"
    <3>1. act'[a] = [act[a] EXCEPT !.held = [act[a].held EXCEPT !.cooling = FALSE]]
      BY <2>2 DEF CooldownEnds
    <3>2. act[a].held \in State
      BY <2>1, <2>2, ContentsAre DEF Course
    <3>3. [act[a].held EXCEPT !.cooling = FALSE] \in State
      BY <3>2, <1>1
    <3>4. Does(a, Head(act[a].todo)) /\ Head(act[a].todo) \in Updates
      BY <2>1, <2>2 DEF Course, Does
    <3> QED
      BY <2>2, <3>1, <3>3, <3>4, HoldsIsTyped, ContentsAre
  <2>3. CASE ~(act[a].held # Nothing /\ FileOf(Head(act[a].todo)) = "state")
    <3>1. act'[a] = act[a]
      BY <2>3 DEF CooldownEnds
    <3> QED
      BY <2>1, <3>1
  <2> QED
    BY <2>2, <2>3
<1>5. act' \in [Activities -> Activity]
  BY <1>4 DEF CooldownEnds
<1>6. OnCourse'
  BY <1>4 DEF OnCourse, Course
<1> QED
  BY <1>2, <1>3, <1>5, <1>6 DEF CooldownEnds, Goal, Typed

\* Starting and stopping a scheduler keeps the types.
LEMMA SchedulesIsTyped ==
  ASSUME Typed, OnCourse, NEW g \in Gens,
         Start(g) \/ StartFails(g) \/ Stop(g) \/ StopDone(g) \/ WatcherFails(g)
  PROVE  Goal
<1>1. sched[g] \in Scheduler
  BY DEF Typed
<1>2. act' \in [Activities -> Activity] /\ OnCourse'
  <2>1. act' = act
    BY DEF Start, StartFails, Stop, StopDone, WatcherFails
  <2> QED
    BY <2>1, KeptCourse
<1>3. CASE Start(g)
  <2> DEFINE s == [sched[g] EXCEPT !.status = "running"]
             q == Rescheduled(IF Reading("state").dormant THEN Watched(s) ELSE s)
  <2>1. s \in Scheduler
    BY <1>1 DEF Scheduler
  <2> HIDE DEF s
  <2>2. q \in Scheduler
    BY <2>1, SchedulerIsTyped
  <2>3. sched' = [sched EXCEPT ![g] = q]
    BY <1>3 DEF Start, s
  <2> HIDE DEF q
  <2>4. sched' \in [Gens -> Scheduler]
    BY <2>2, <2>3, PutScheduler
  <2> QED
    BY <1>2, <1>3, <2>4 DEF Start, Goal, Typed
<1>4. CASE StartFails(g)
  <2>1. [sched[g] EXCEPT !.status = "failed"] \in Scheduler
    BY <1>1 DEF Scheduler
  <2>2. sched' = [sched EXCEPT ![g] = [sched[g] EXCEPT !.status = "failed"]]
    BY <1>4 DEF StartFails
  <2>3. sched' \in [Gens -> Scheduler]
    BY <2>1, <2>2, PutScheduler
  <2>4. used' \in Counters
    BY <1>4 DEF StartFails, Typed, Counters
  <2> QED
    BY <1>2, <1>4, <2>3, <2>4 DEF StartFails, Goal, Typed
<1>5. CASE Stop(g)
  <2>1. sched[g].tip \in 0..Slots
    BY <1>1 DEF Scheduler
  <2>2. [sched[g] EXCEPT !.status = "stopping", !.timer = FALSE, !.watcher = FALSE,
                         !.wait = sched[g].tip] \in Scheduler
    BY <1>1, <2>1 DEF Scheduler
  <2>3. sched' = [sched EXCEPT ![g] = [sched[g] EXCEPT !.status = "stopping", !.timer = FALSE,
                                                       !.watcher = FALSE, !.wait = sched[g].tip]]
    BY <1>5 DEF Stop
  <2>4. sched' \in [Gens -> Scheduler]
    BY <2>2, <2>3, PutScheduler
  <2> QED
    BY <1>2, <1>5, <2>4 DEF Stop, Goal, Typed
<1>6. CASE StopDone(g)
  <2>1. [sched[g] EXCEPT !.status = "stopped"] \in Scheduler
    BY <1>1 DEF Scheduler
  <2>2. sched' = [sched EXCEPT ![g] = [sched[g] EXCEPT !.status = "stopped"]]
    BY <1>6 DEF StopDone
  <2>3. sched' \in [Gens -> Scheduler]
    BY <2>1, <2>2, PutScheduler
  <2> QED
    BY <1>2, <1>6, <2>3 DEF StopDone, Goal, Typed
<1>7. CASE WatcherFails(g)
  <2>1. [sched[g] EXCEPT !.watcher = FALSE] \in Scheduler
    BY <1>1 DEF Scheduler
  <2>2. sched' = [sched EXCEPT ![g] = [sched[g] EXCEPT !.watcher = FALSE]]
    BY <1>7 DEF WatcherFails
  <2>3. sched' \in [Gens -> Scheduler]
    BY <2>1, <2>2, PutScheduler
  <2> QED
    BY <1>2, <1>7, <2>3 DEF WatcherFails, Goal, Typed
<1> QED
  BY <1>3, <1>4, <1>5, <1>6, <1>7

\* A timer that runs out was armed or lost, and is no more.
LEMMA TimerFiresIs ==
  ASSUME Typed, NEW g \in Gens, NEW a \in Activities, TimerFires(g, a)
  PROVE  \E n \in Nat :
           /\ n = sched[g].lost \/ (n = sched[g].lost - 1 /\ sched[g].lost > 0)
           /\ sched[g].timer \/ sched[g].lost > 0
           /\ sched' = [sched EXCEPT ![g] = [sched[g] EXCEPT !.timer = FALSE, !.tip = a, !.lost = n]]
<1>1. sched[g].lost \in Nat
  BY DEF Typed, Scheduler
<1>2. PICK own \in BOOLEAN :
        /\ IF own THEN sched[g].timer ELSE sched[g].lost > 0
        /\ sched' = [sched EXCEPT ![g] = [sched[g] EXCEPT !.timer = FALSE, !.tip = a,
              !.lost = IF own \/ sched[g].timer THEN sched[g].lost ELSE sched[g].lost - 1]]
  BY DEF TimerFires
<1> DEFINE n == IF own \/ sched[g].timer THEN sched[g].lost ELSE sched[g].lost - 1
<1>3. n \in Nat /\ (n = sched[g].lost \/ (n = sched[g].lost - 1 /\ sched[g].lost > 0))
  BY <1>1, <1>2
<1> QED
  BY <1>2, <1>3

\* TimerFires keeps the types.
LEMMA TimerFiresIsTyped ==
  ASSUME Typed, OnCourse, NEW g \in Gens, NEW a \in Activities, TimerFires(g, a) PROVE Goal
<1>1. PICK n \in Nat :
        /\ n = sched[g].lost \/ (n = sched[g].lost - 1 /\ sched[g].lost > 0)
        /\ sched[g].timer \/ sched[g].lost > 0
        /\ sched' = [sched EXCEPT ![g] = [sched[g] EXCEPT !.timer = FALSE, !.tip = a, !.lost = n]]
  BY TimerFiresIs
<1>2. a \in 0..Slots
  BY DEF Activities
<1>3. sched[g] \in Scheduler
  BY DEF Typed
<1>4. [sched[g] EXCEPT !.timer = FALSE, !.tip = a, !.lost = n] \in Scheduler
  BY <1>2, <1>3 DEF Scheduler
<1>5. sched' \in [Gens -> Scheduler]
  BY <1>1, <1>4, PutScheduler
<1>6. <<"gates">> \in Programs("tick") /\ "tick" \in Kinds
  BY DEF Programs, TickPrograms, Kinds
<1>7. act' \in [Activities -> Activity] /\ OnCourse' /\ beside' \in BOOLEAN
  BY <1>6, BeginsIsTyped DEF TimerFires
<1> QED
  BY <1>5, <1>7 DEF TimerFires, Goal, Typed

\* Signal keeps the types.
LEMMA SignalIsTyped ==
  ASSUME Typed, OnCourse, NEW g \in Gens, NEW a \in Activities, Signal(g, a) PROVE Goal
<1>1. <<"rouse">> \in Programs("signal") /\ "signal" \in Kinds
  BY DEF Programs, Kinds
<1>2. act' \in [Activities -> Activity] /\ OnCourse' /\ beside' \in BOOLEAN
  BY <1>1, BeginsIsTyped DEF Signal
<1>3. used' \in Counters /\ real' \in [fires : Nat, cooling : BOOLEAN, asleep : BOOLEAN]
  <2>1. used' = [used EXCEPT !.signals = used.signals + 1] /\ real' = [real EXCEPT !.asleep = FALSE]
    BY DEF Signal
  <2>2. used.signals + 1 \in Nat
    BY DEF Typed, Counters
  <2> QED
    BY <2>1, <2>2 DEF Typed, Counters
<1> QED
  BY <1>2, <1>3 DEF Signal, Goal, Typed

\* Rerun keeps the types.
LEMMA RerunIsTyped ==
  ASSUME Typed, OnCourse, NEW g \in Gens, NEW a \in Activities, Rerun(g, a) PROVE Goal
<1>1. <<"load", "workspace">> \in Programs("rerun") /\ "rerun" \in Kinds
  BY DEF Programs, RerunPrograms, Kinds
<1>2. act' \in [Activities -> Activity] /\ OnCourse' /\ beside' \in BOOLEAN
  BY <1>1, BeginsIsTyped DEF Rerun
<1>3. used' \in Counters
  <2>1. used' = [used EXCEPT !.reruns = used.reruns + 1]
    BY DEF Rerun
  <2>2. used.reruns + 1 \in Nat
    BY DEF Typed, Counters
  <2> QED
    BY <2>1, <2>2 DEF Typed, Counters
<1> QED
  BY <1>2, <1>3 DEF Rerun, Goal, Typed

\* Edit keeps the types: a cycle the user names has been made.
LEMMA EditIsTyped ==
  ASSUME Typed, OnCourse, Accounted, NEW a \in Activities, Edit(a) PROVE Goal
<1>1. PICK c \in 1..used.cycles, kind \in {"apply", "archive"} :
        Begins(a, kind, 1, IF kind = "apply" THEN <<"applying", "apply">> ELSE <<"archive">>, c)
  BY DEF Edit
<1>2. c \in Cycles /\ 1 \in Gens
  BY KnownCycles, SlotsAndGens
<1>3. act' \in [Activities -> Activity] /\ OnCourse' /\ beside' \in BOOLEAN
  <2>1. CASE kind = "apply"
    <3>1. <<"applying", "apply">> \in Programs("apply") /\ "apply" \in Kinds
      BY DEF Programs, ApplyPrograms, Kinds
    <3>2. Begins(a, "apply", 1, <<"applying", "apply">>, c)
      BY <1>1, <2>1
    <3> QED
      BY <1>2, <3>1, <3>2, BeginsIsTyped
  <2>2. CASE kind = "archive"
    <3>1. <<"archive">> \in Programs("archive") /\ "archive" \in Kinds
      BY DEF Programs, Kinds
    <3>2. Begins(a, "archive", 1, <<"archive">>, c)
      BY <1>1, <2>2
    <3> QED
      BY <1>2, <3>1, <3>2, BeginsIsTyped
  <2> QED
    BY <2>1, <2>2
<1>4. used' \in Counters
  <2>1. used' = [used EXCEPT !.edits = used.edits + 1]
    BY DEF Edit
  <2>2. used.edits + 1 \in Nat
    BY DEF Typed, Counters
  <2> QED
    BY <2>1, <2>2 DEF Typed, Counters
<1> QED
  BY <1>3, <1>4 DEF Edit, Goal, Typed

\* So does a step that changes nothing.
LEMMA StutterIsTyped == ASSUME Typed, OnCourse, UNCHANGED vars PROVE Goal
  BY KeptCourse DEF vars, Goal, Typed

\* Every step keeps the types.
LEMMA StepIsTyped ==
  ASSUME Typed, OnCourse, Accounted, [Next]_vars
  PROVE  Typed' /\ OnCourse'
<1>1. ASSUME NEW a \in Activities, Step(a) PROVE Goal
  BY <1>1, ReadsIsTyped, DisposesIsTyped, OpensIsTyped, WritesIsTyped, GatesIsTyped, AcquireIsTyped, LoadIsTyped,
     DiscoverIsTyped, WorkspaceIsTyped, PrepareIsTyped, ExecuteIsTyped, RestIsTyped, ReleaseIsTyped,
     ApplyIsTyped DEF Step
<1>2. Goal
  BY <1>1, SchedulesIsTyped, TimerFiresIsTyped, SignalIsTyped, RerunIsTyped, EditIsTyped,
     FaultIsTyped,
     CrashIsTyped, CooldownIsTyped, StutterIsTyped DEF Next
<1> QED
  BY <1>2 DEF Goal

-----------------------------------------------------------------------------
(* Which operation comes after which. *)

Moves ==
    Successions \cup
    { <<"gates", "acquire">>, <<"acquire", "started">>, <<"discover", "completed">>,
      <<"discover", "workspace">>, <<"workspace", "addPlan">>, <<"workspace", "prepare">>,
      <<"prepare", "addPlan">>, <<"prepare", "create">>, <<"apply", "applied">>,
      <<"apply", "restored">> }

Op(a) == Head(act[a].todo)

\* Activity a alone moves: it ends, stays at its operation, or goes on to the next one.
Moved(a) ==
    /\ \A b \in Activities \ {a} : act'[b] = act[b]
    /\ \/ act'[a] = IdleActivity
       \/ /\ act'[a].kind = act[a].kind /\ act'[a].gen = act[a].gen /\ act'[a].todo # <<>>
          /\ Op(a)' = Op(a) \/ <<Op(a), Op(a)'>> \in Moves

\* Who goes on with a program whose head may follow moves.
LEMMA ProceedsMoves ==
  ASSUME Typed, OnCourse, NEW a \in Activities, NEW p, p # <<>>, <<Op(a), Head(p)>> \in Moves,
         Proceeds(a, p)
  PROVE  Moved(a)
  BY DEF Proceeds, Moved, Op, Typed, Activity

\* Who leaves an operation with others behind it keeps who it is.
LEMMA LeftGoesOn ==
  ASSUME NEW r \in Activity, Tail(r.todo) # <<>>
  PROVE  Left(r).kind = r.kind /\ Left(r).gen = r.gen /\ Left(r).todo = Tail(r.todo)
<1> DEFINE t == Tail(r.todo)
<1>1. Left(r) = [r EXCEPT !.todo = t, !.held = Nothing, !.opened = FALSE]
  BY DEF Left
<1> HIDE DEF t
<1>2. Left(r).kind = r.kind /\ Left(r).gen = r.gen /\ Left(r).todo = t
  BY <1>1 DEF Activity
<1> QED
  BY <1>2 DEF t

\* Who is done with an operation moves.
LEMMA LeftMoves ==
  ASSUME Typed, OnCourse, NEW a \in Activities, act[a].kind # "idle",
         act' = [act EXCEPT ![a] = Left(act[a])]
  PROVE  Moved(a)
<1>1. act[a] \in Activity /\ Sound(act[a].kind, act[a].todo)
  BY DoesSomething, OpIs
<1>2. CASE Tail(act[a].todo) = <<>>
  BY <1>2 DEF Left, Moved, Typed
<1>3. CASE Tail(act[a].todo) # <<>>
  <2>1. act'[a] = Left(act[a])
    BY DEF Typed
  <2>2. act'[a].kind = act[a].kind /\ act'[a].gen = act[a].gen /\ act'[a].todo = Tail(act[a].todo)
    BY <1>1, <1>3, <2>1, LeftGoesOn
  <2>3. <<Op(a), Op(a)'>> \in Moves
    <3>1. <<Head(act[a].todo), Head(Tail(act[a].todo))>> \in Successions
      BY <1>1, <1>3 DEF Sound
    <3>2. Op(a)' = Head(Tail(act[a].todo)) /\ Op(a) = Head(act[a].todo)
      BY <2>2 DEF Op
    <3> QED
      BY <3>1, <3>2 DEF Moves
  <2>4. \A b \in Activities \ {a} : act'[b] = act[b]
    BY DEF Typed
  <2> QED
    BY <1>3, <2>2, <2>3, <2>4 DEF Moved
<1> QED
  BY <1>2, <1>3

\* Who ends moves.
LEMMA IdleMoves ==
  ASSUME Typed, NEW a \in Activities, act' = [act EXCEPT ![a] = IdleActivity]
  PROVE  Moved(a)
  BY DEF Moved, Typed

\* The heads of what Discover, Workspace and Prepare go on with.
LEMMA RestHeads ==
  ASSUME NEW a \in Activities
  PROVE  /\ <<"prepare">> \o Released(a) # <<>> /\ Head(<<"prepare">> \o Released(a)) = "prepare"
         /\ LET p == <<"addPlan", "execute", "completed">> \o Released(a)
            IN  p # <<>> /\ Head(p) = "addPlan"
         /\ LET p == <<"create", "activate", "addPlan", "execute", "completed">> \o Released(a)
            IN  p # <<>> /\ Head(p) = "create"
<1>1. Released(a) \in {<<"release">>, <<>>}
  BY DEF Released
<1>2. CASE Released(a) = <<"release">>
  BY <1>2, Concatenated
<1>3. CASE Released(a) = <<>>
  BY <1>3, ConcatenatedEmpty
<1> QED
  BY <1>1, <1>2, <1>3

\* Who takes the active cycle over moves.
LEMMA ReusesMoves ==
  ASSUME Typed, OnCourse, NEW a \in Activities, Op(a) \in {"workspace", "prepare"}, Reuses(a)
  PROVE  Moved(a)
<1> DEFINE p == <<"addPlan", "execute", "completed">> \o Released(a)
<1>1. p # <<>> /\ Head(p) = "addPlan"
  BY RestHeads
<1>2. act' = [act EXCEPT ![a] = [act[a] EXCEPT !.cycle = act[a].seen, !.todo = p]]
  BY DEF Reuses
<1> HIDE DEF p
<1>3. act'[a].kind = act[a].kind /\ act'[a].gen = act[a].gen /\ act'[a].todo = p
  BY <1>2 DEF Typed, Activity
<1>4. \A b \in Activities \ {a} : act'[b] = act[b]
  BY <1>2 DEF Typed
<1>5. <<Op(a), Op(a)'>> \in Moves
  BY <1>1, <1>3 DEF Op, Moves
<1> QED
  BY <1>1, <1>3, <1>4, <1>5 DEF Moved

\* An operation that neither ends nor changes what is left to do.
LEMMA StaysMoves ==
  ASSUME Typed, NEW a \in Activities, act[a].todo # <<>>, NEW r, act' = [act EXCEPT ![a] = r],
         r.kind = act[a].kind, r.gen = act[a].gen, r.todo = act[a].todo
  PROVE  Moved(a)
  BY DEF Moved, Typed, Op

\* Every step of an activity moves it alone.
LEMMA StepMoves ==
  ASSUME Typed, OnCourse, NEW a \in Activities, Step(a)
  PROVE  Moved(a) /\ act[a].todo # <<>>
<1>1. CASE Reads(a)
  <2>1. PICK op \in Updates :
          /\ Does(a, op)
          /\ \/ act' = [act EXCEPT ![a].held = Changed(op, act[a].cycle, Reading(FileOf(op)))]
             \/ act' = [act EXCEPT ![a] = IdleActivity]
             \/ Finishes(a, op)
    BY <1>1 DEF Reads
  <2>2. act[a] \in Activity /\ act[a].kind # "idle" /\ act[a].todo # <<>>
    BY <2>1, OpIs DEF Does
  <2>3. CASE Finishes(a, op)
    BY <2>2, <2>3, LeftMoves DEF Finishes
  <2>4. CASE act' = [act EXCEPT ![a] = IdleActivity]
    BY <2>2, <2>4, IdleMoves
  <2>5. CASE act' = [act EXCEPT ![a].held = Changed(op, act[a].cycle, Reading(FileOf(op)))]
    <3> DEFINE x == Changed(op, act[a].cycle, Reading(FileOf(op)))
    <3>1. act' = [act EXCEPT ![a] = [act[a] EXCEPT !.held = x]]
      BY <2>5
    <3> HIDE DEF x
    <3> QED
      BY <2>2, <3>1, StaysMoves DEF Activity
  <2> QED
    BY <2>1, <2>3, <2>4, <2>5
<1>2. CASE Opens(a)
  <2>1. act[a] \in Activity /\ act[a].todo # <<>>
    BY <1>2 DEF Opens, Typed, OnCourse, Course
  <2>2. act' = [act EXCEPT ![a] = [act[a] EXCEPT !.opened = TRUE]]
    BY <1>2 DEF Opens
  <2> QED
    BY <2>1, <2>2, StaysMoves DEF Activity
<1>13. CASE Disposes(a)
  <2>1. act[a].todo # <<>> /\ act' = act
    BY <1>13 DEF Disposes, OnCourse, Course
  <2> QED
    BY <2>1 DEF Moved, Op
<1>3. CASE Writes(a)
  <2>1. act[a].todo # <<>>
    BY <1>3 DEF Writes, OnCourse, Course
  <2>2. act[a].kind # "idle"
    BY <2>1, OpIs DEF Does
  <2> QED
    BY <1>3, <2>1, <2>2, LeftMoves DEF Writes, Finishes
<1>4. CASE Gates(a)
  <2>1. Op(a) = "gates" /\ act[a].todo # <<>>
    BY <1>4 DEF Gates, Does, Op
  <2>2. CASE act' = [act EXCEPT ![a] = IdleActivity]
    BY <2>1, <2>2, IdleMoves
  <2>3. CASE Proceeds(a, <<"acquire">>)
    <3>1. <<"acquire">> # <<>> /\ Head(<<"acquire">>) = "acquire"
      OBVIOUS
    <3>2. <<"gates", "acquire">> \in Moves
      BY DEF Moves
    <3> QED
      BY <2>1, <2>3, <3>1, <3>2, ProceedsMoves
  <2> QED
    BY <1>4, <2>2, <2>3 DEF Gates
<1>5. CASE Acquire(a)
  <2>1. Op(a) = "acquire" /\ act[a].todo # <<>>
    BY <1>5 DEF Acquire, Does, Op
  <2>2. CASE TickEnds(a)
    BY <2>1, <2>2, IdleMoves DEF TickEnds
  <2>3. CASE Proceeds(a, <<"started", "clear", "load", "discover">>)
    <3>1. /\ <<"started", "clear", "load", "discover">> # <<>>
          /\ Head(<<"started", "clear", "load", "discover">>) = "started"
      OBVIOUS
    <3>2. <<"acquire", "started">> \in Moves
      BY DEF Moves
    <3> QED
      BY <2>1, <2>3, <3>1, <3>2, ProceedsMoves
  <2> QED
    BY <1>5, <2>2, <2>3 DEF Acquire
<1>6. CASE Load(a)
  <2>1. Does(a, "load")
    BY <1>6 DEF Load
  <2>2. /\ act[a] \in Activity /\ act[a].kind \in Kinds /\ "load" \in OpsOf(act[a].kind)
        /\ Sound(act[a].kind, act[a].todo) /\ Head(act[a].todo) = "load"
    BY <2>1, OpIs
  <2>3. "load" \notin LastOps(act[a].kind)
    BY <2>2 DEF OpsOf, LastOps, Kinds
  <2>4. Tail(act[a].todo) # <<>> /\ <<"load", Head(Tail(act[a].todo))>> \in Successions
    BY <2>2, <2>3 DEF Sound
  <2>5. act' = [act EXCEPT ![a] = [act[a] EXCEPT !.todo = Tail(act[a].todo),
                                                !.seen = Reading("state").active]]
    BY <1>6 DEF Load
  <2>6. act'[a].kind = act[a].kind /\ act'[a].gen = act[a].gen /\ act'[a].todo = Tail(act[a].todo)
    BY <2>2, <2>5 DEF Typed, Activity
  <2>7. \A b \in Activities \ {a} : act'[b] = act[b]
    BY <2>5 DEF Typed
  <2>8. <<Op(a), Op(a)'>> \in Moves
    BY <2>2, <2>4, <2>6 DEF Op, Moves
  <2> QED
    BY <2>1, <2>4, <2>6, <2>7, <2>8 DEF Moved, Does
<1>7. CASE Discover(a)
  <2>1. Op(a) = "discover" /\ act[a].todo # <<>>
    BY <1>7 DEF Discover, Does, Op
  <2>2. PICK todo \in {<<"completed">>, <<"completed", "dormant", "rest">>, <<"workspace">>} :
           Proceeds(a, todo \o <<"release">>)
    BY <1>7 DEF Discover
  <2>3. \E p : Proceeds(a, p) /\ p # <<>> /\ Head(p) \in {"completed", "workspace"}
    <3>1. CASE todo = <<"completed">>
      <4>1. Proceeds(a, <<"completed", "release">>)
        BY <2>2, <3>1, Concatenated
      <4>2. <<"completed", "release">> # <<>> /\ Head(<<"completed", "release">>) = "completed"
        OBVIOUS
      <4> QED
        BY ONLY <4>1, <4>2
    <3>2. CASE todo = <<"completed", "dormant", "rest">>
      <4>1. Proceeds(a, <<"completed", "dormant", "rest", "release">>)
        BY <2>2, <3>2, Concatenated
      <4>2. /\ <<"completed", "dormant", "rest", "release">> # <<>>
            /\ Head(<<"completed", "dormant", "rest", "release">>) = "completed"
        OBVIOUS
      <4> QED
        BY ONLY <4>1, <4>2
    <3>3. CASE todo = <<"workspace">>
      <4>1. Proceeds(a, <<"workspace", "release">>)
        BY <2>2, <3>3, Concatenated
      <4>2. <<"workspace", "release">> # <<>> /\ Head(<<"workspace", "release">>) = "workspace"
        OBVIOUS
      <4> QED
        BY ONLY <4>1, <4>2
    <3> QED
      BY <3>1, <3>2, <3>3
  <2>4. PICK p : Proceeds(a, p) /\ p # <<>> /\ Head(p) \in {"completed", "workspace"}
    BY <2>3
  <2>5. <<Op(a), Head(p)>> \in Moves
    BY <2>1, <2>4 DEF Moves
  <2> QED
    BY <2>1, <2>4, <2>5, ProceedsMoves
<1>8. CASE Workspace(a)
  <2>1. Op(a) = "workspace" /\ act[a].todo # <<>>
    BY <1>8 DEF Workspace, Does, Op
  <2>2. CASE Reuses(a)
    BY <2>1, <2>2, ReusesMoves
  <2>3. CASE Proceeds(a, <<"prepare">> \o Released(a))
    <3>1. <<"workspace", "prepare">> \in Moves
      BY DEF Moves
    <3> QED
      BY <2>1, <2>3, <3>1, RestHeads, ProceedsMoves
  <2> QED
    BY <1>8, <2>2, <2>3 DEF Workspace
<1>9. CASE Prepare(a)
  <2>1. Op(a) = "prepare" /\ act[a].todo # <<>>
    BY <1>9 DEF Prepare, Does, Op
  <2>2. CASE Reuses(a)
    BY <2>1, <2>2, ReusesMoves
  <2>3. CASE act' = [act EXCEPT ![a] = [act[a] EXCEPT !.cycle = used.cycles + 1,
                  !.todo = <<"create", "activate", "addPlan", "execute", "completed">> \o Released(a)]]
    <3> DEFINE p == <<"create", "activate", "addPlan", "execute", "completed">> \o Released(a)
    <3>1. p # <<>> /\ Head(p) = "create"
      BY RestHeads
    <3>2. act' = [act EXCEPT ![a] = [act[a] EXCEPT !.cycle = used.cycles + 1, !.todo = p]]
      BY <2>3
    <3> HIDE DEF p
    <3>3. act'[a].kind = act[a].kind /\ act'[a].gen = act[a].gen /\ act'[a].todo = p
      BY <3>2 DEF Typed, Activity
    <3>4. \A b \in Activities \ {a} : act'[b] = act[b]
      BY <3>2 DEF Typed
    <3>5. <<Op(a), Op(a)'>> \in Moves
      BY <2>1, <3>1, <3>3 DEF Op, Moves
    <3> QED
      BY <2>1, <3>1, <3>3, <3>4, <3>5 DEF Moved
  <2> QED
    BY <1>9, <2>2, <2>3 DEF Prepare
<1>10. CASE Execute(a) \/ Rest(a)
  <2> DEFINE p == Tail(act[a].todo)
  <2>1. PICK op \in {"execute", "rest"} : Does(a, op)
    BY <1>10 DEF Execute, Rest
  <2>2. /\ act[a].kind \in Kinds /\ op \in OpsOf(act[a].kind)
        /\ Sound(act[a].kind, act[a].todo) /\ Head(act[a].todo) = op
    BY <2>1, OpIs
  <2>3. op \notin LastOps(act[a].kind)
    BY <2>2 DEF OpsOf, LastOps, Kinds
  <2>4. p # <<>> /\ <<op, Head(p)>> \in Successions
    BY <2>2, <2>3 DEF Sound
  <2>5. Proceeds(a, p)
    BY <1>10 DEF Execute, Rest
  <2> HIDE DEF p
  <2>6. <<Op(a), Head(p)>> \in Moves
    BY <2>2, <2>4 DEF Op, Moves
  <2> QED
    BY <2>1, <2>4, <2>5, <2>6, ProceedsMoves DEF Does
<1>11. CASE Release(a)
  BY <1>11, IdleMoves DEF Release, TickEnds, Does
<1>12. CASE Apply(a)
  <2>1. Op(a) = "apply" /\ act[a].todo # <<>>
    BY <1>12 DEF Apply, Does, Op
  <2>2. PICK op \in {"applied", "restored"} : Proceeds(a, <<op>>)
    BY <1>12 DEF Apply
  <2>3. <<op>> # <<>> /\ Head(<<op>>) = op
    OBVIOUS
  <2>4. <<Op(a), op>> \in Moves
    BY <2>1 DEF Moves
  <2> QED
    BY <2>1, <2>2, <2>3, <2>4, ProceedsMoves
<1> QED
  BY <1>1, <1>2, <1>3, <1>4, <1>5, <1>6, <1>7, <1>8, <1>9, <1>10, <1>11, <1>12, <1>13 DEF Step

\* A rejected operation ends the activity, or leaves it what it owes to others.
LEMMA FaultMoves ==
  ASSUME Typed, OnCourse, NEW a \in Activities, Fault(a)
  PROVE  /\ act[a].todo # <<>> /\ act[a].kind # "idle"
         /\ \A b \in Activities \ {a} : act'[b] = act[b]
         /\ \/ act'[a] = IdleActivity
            \/ /\ act'[a].kind = act[a].kind /\ act'[a].gen = act[a].gen /\ act'[a].todo # <<>>
               /\ Op(a)' \in {"release", "completed"} /\ act'[a].held = Nothing
               /\ act[a].kind = "tick" => Op(a) \notin {"gates", "acquire"}
               /\ Op(a)' = "completed" => Op(a) \in {"workspace", "prepare", "create", "activate"}
<1>1. act[a].kind \notin {"idle", "signal"} /\ act[a] \in Activity
  BY DEF Fault, Typed
<1>2. act[a].todo # <<>>
  BY <1>1, DoesSomething DEF Does
<1>3. CASE act' = [act EXCEPT ![a] = IdleActivity]
  BY <1>1, <1>2, <1>3 DEF Typed
<1>4. CASE TickEnds(a)
  BY <1>1, <1>2, <1>4 DEF TickEnds, Typed
<1>5. CASE /\ AfterFault(act[a]) # <<>>
           /\ act' = [act EXCEPT ![a] = [act[a] EXCEPT
                        !.todo = AfterFault(act[a]), !.held = Nothing, !.opened = FALSE]]
  <2> DEFINE p == AfterFault(act[a])
  <2>1. p # <<>> /\ Head(p) \in {"release", "completed"}
    BY <1>1, <1>5, AfterFaultIs
  <2>2. act' = [act EXCEPT ![a] = [act[a] EXCEPT !.todo = p, !.held = Nothing, !.opened = FALSE]]
    BY <1>5
  <2>3. act[a].kind = "tick" => Op(a) \notin {"gates", "acquire"}
    <3>1. SUFFICES ASSUME act[a].kind = "tick", Op(a) \in {"gates", "acquire"} PROVE p = <<>>
      BY <2>1
    <3> QED
      BY <3>1 DEF AfterFault, Op
  <2>6. Op(a) \notin {"workspace", "prepare", "create", "activate"} => Head(p) # "completed"
    <3>1. SUFFICES ASSUME Op(a) \notin {"workspace", "prepare", "create", "activate"}
          PROVE  p \in {<<"release">>, <<>>}
      BY <2>1
    <3> QED
      BY <3>1 DEF AfterFault, Op
  <2> HIDE DEF p
  <2>4. /\ act'[a].kind = act[a].kind /\ act'[a].gen = act[a].gen /\ act'[a].todo = p
        /\ act'[a].held = Nothing
    BY <1>1, <2>2 DEF Typed, Activity
  <2>5. \A b \in Activities \ {a} : act'[b] = act[b]
    BY <2>2 DEF Typed
  <2> QED
    BY <1>1, <1>2, <2>1, <2>3, <2>4, <2>5, <2>6 DEF Op
<1> QED
  BY <1>3, <1>4, <1>5 DEF Fault

\* An activity begins in the place of one that was idle.
LEMMA BeginsMoves ==
  ASSUME Typed, OnCourse, NEW a \in Activities, NEW k, NEW g, NEW p, NEW c, Begins(a, k, g, p,
         c)
  PROVE  /\ act[a].kind = "idle" /\ act[a].todo = <<>>
         /\ \A b \in Activities \ {a} : act'[b] = act[b]
         /\ act'[a].kind = k /\ act'[a].gen = g /\ act'[a].todo = p /\ act'[a].held = Nothing
<1>1. act[a].kind = "idle" /\ act[a].todo = <<>>
  BY DEF Begins, Free, OnCourse, Course, Programs
<1>2. act' = [act EXCEPT ![a] = [IdleActivity EXCEPT !.kind = k, !.gen = g, !.todo = p, !.cycle = c]]
  BY DEF Begins
<1> QED
  BY <1>1, <1>2 DEF Typed, IdleActivity

\* What CooldownEnds does to an activity.
LEMMA CooldownMoves ==
  ASSUME Typed, OnCourse, CooldownEnds
  PROVE  \A a \in Activities :
           /\ act'[a].kind = act[a].kind /\ act'[a].gen = act[a].gen /\ act'[a].todo = act[a].todo
           /\ act'[a].cycle = act[a].cycle /\ act'[a].seen = act[a].seen
           /\ act'[a].opened = act[a].opened
<1>1. TAKE a \in Activities
<1>2. act[a] \in Activity
  BY DEF Typed
<1>3. act'[a] = act[a] \/ act'[a] = [act[a] EXCEPT !.held.cooling = FALSE]
  BY DEF CooldownEnds
<1> QED
  BY <1>2, <1>3 DEF Activity

-----------------------------------------------------------------------------
(* Every cycle is accounted for. *)

\* The accounts stay balanced when no cycle is made and nobody new owes one.
LEMMA StillAccounted ==
  ASSUME Typed, Accounted, Owing' \subseteq Owing, used'.cycles = used.cycles,
         used'.fires = used.fires, used'.reruns = used.reruns
  PROVE  Accounted'
<1>1. IsFiniteSet(Owing) /\ Cardinality(Owing) \in Nat
  BY OwingIsFinite DEF Owing
<1>2. Cardinality(Owing') <= Cardinality(Owing) /\ Cardinality(Owing') \in Nat
  BY <1>1, FS_Subset, FS_CardinalityType
<1> QED
  BY <1>1, <1>2 DEF Accounted, Typed, Counters

\* A fire or a rerun that begins is counted with the cycle it may make.
LEMMA AccountedFor ==
  ASSUME Typed, Accounted, NEW a \in Activities, Owing' \subseteq Owing \cup {a},
         used'.cycles = used.cycles,
         used'.fires + used'.reruns = used.fires + used.reruns + 1,
         used'.fires <= MaxFires, used'.reruns <= MaxReruns, used' \in Counters
  PROVE  Accounted'
<1>1. IsFiniteSet(Owing) /\ Cardinality(Owing) \in Nat
  BY OwingIsFinite DEF Owing
<1>2. IsFiniteSet(Owing \cup {a}) /\ Cardinality(Owing \cup {a}) <= Cardinality(Owing) + 1
  BY <1>1, FS_AddElement
<1>3. Cardinality(Owing \cup {a}) \in Nat
  BY <1>2, FS_CardinalityType
<1>4. Cardinality(Owing') <= Cardinality(Owing \cup {a}) /\ Cardinality(Owing') \in Nat
  BY <1>2, FS_Subset, FS_CardinalityType
<1> QED
  BY <1>1, <1>2, <1>3, <1>4 DEF Accounted, Typed, Counters

\* A cycle that is made is no longer owed.
LEMMA AccountedOff ==
  ASSUME Typed, Accounted, NEW a \in Owing, Owing' \subseteq Owing \ {a},
         used' = [used EXCEPT !.cycles = used.cycles + 1]
  PROVE  Accounted'
<1>1. IsFiniteSet(Owing) /\ Cardinality(Owing) \in Nat
  BY OwingIsFinite DEF Owing
<1>2. IsFiniteSet(Owing \ {a}) /\ Cardinality(Owing \ {a}) = Cardinality(Owing) - 1
  BY <1>1, FS_RemoveElement
<1>3. Cardinality(Owing \ {a}) \in Nat
  BY <1>2, FS_CardinalityType
<1>4. Cardinality(Owing') <= Cardinality(Owing \ {a}) /\ Cardinality(Owing') \in Nat
  BY <1>2, FS_Subset, FS_CardinalityType
<1> QED
  BY <1>1, <1>2, <1>3, <1>4 DEF Accounted, Typed, Counters

\* Whoever goes on owes no more than before, unless it has just got past the gates.
LEMMA MovedOwes ==
  ASSUME NEW a \in Activities, Moved(a), act[a].todo # <<>>
  PROVE  /\ Owing' \subseteq Owing \cup {a}
         /\ Op(a) # "gates" => Owing' \subseteq Owing
<1>1. \A b \in Activities \ {a} : b \in Owing' => b \in Owing
  BY DEF Moved, Owing
<1>2. Owing' \subseteq Activities
  BY DEF Owing
<1>3. ASSUME a \in Owing', Op(a) # "gates" PROVE a \in Owing
  <2>1. act'[a].todo # <<>> /\ Op(a)' \in OwingOps
    BY <1>3 DEF Owing, Op
  <2>2. Op(a)' = Op(a) \/ <<Op(a), Op(a)'>> \in Moves
    BY <2>1 DEF Moved, IdleActivity
  <2>3. Op(a) \in OwingOps
    BY <1>3, <2>1, <2>2 DEF OwingOps, Moves, Successions
  <2> QED
    BY <2>3 DEF Owing, Op
<1> QED
  BY <1>1, <1>2, <1>3

\* Who begins owes a cycle only when its program leads to one.
LEMMA BeginsOwes ==
  ASSUME Typed, OnCourse, NEW a \in Activities, NEW k, NEW g, NEW p, NEW c, Begins(a, k, g, p,
         c)
  PROVE  /\ Owing' \subseteq Owing \cup {a}
         /\ Head(p) \notin OwingOps => Owing' \subseteq Owing
<1>1. /\ \A b \in Activities \ {a} : act'[b] = act[b]
      /\ act'[a].todo = p
  BY BeginsMoves
<1> QED
  BY <1>1 DEF Owing

\* A step of an activity keeps the accounts.
LEMMA StepAccounts ==
  ASSUME Typed, OnCourse, Accounted, NEW a \in Activities, Step(a), Typed'
  PROVE  Accounted'
<1>1. Moved(a) /\ act[a].todo # <<>>
  BY StepMoves
<1>2. CASE Gates(a)
  <2>1. CASE UNCHANGED used /\ act' = [act EXCEPT ![a] = IdleActivity]
    <3>1. act'[a].todo = <<>> /\ \A b \in Activities \ {a} : act'[b] = act[b]
      BY <2>1 DEF Typed, IdleActivity
    <3>2. Owing' \subseteq Owing
      BY <3>1 DEF Owing
    <3> QED
      BY <2>1, <3>2, StillAccounted
  <2>2. CASE used' = [used EXCEPT !.fires = used.fires + 1] /\ used.fires < MaxFires
    <3>1. /\ used'.fires = used.fires + 1 /\ used'.reruns = used.reruns /\ used'.cycles = used.cycles
          /\ used' \in Counters /\ used.fires \in Nat /\ used.reruns \in Nat
      BY <2>2 DEF Typed, Counters
    <3>2. /\ used'.fires + used'.reruns = used.fires + used.reruns + 1
          /\ used'.fires <= MaxFires /\ used'.reruns <= MaxReruns
      BY <2>2, <3>1, DiscoveryAssumption DEF Accounted
    <3>3. Owing' \subseteq Owing \cup {a}
      BY <1>1, MovedOwes
    <3> QED
      BY <3>1, <3>2, <3>3, AccountedFor
  <2> QED
    BY <1>2, <2>1, <2>2 DEF Gates
<1>3. CASE Prepare(a) /\ used' # used
  <2> DEFINE p == <<"create", "activate", "addPlan", "execute", "completed">> \o Released(a)
  <2>1. p # <<>> /\ Head(p) = "create"
    BY RestHeads
  <2>2. /\ act' = [act EXCEPT ![a] = [act[a] EXCEPT !.cycle = used.cycles + 1, !.todo = p]]
        /\ used' = [used EXCEPT !.cycles = used.cycles + 1]
    BY <1>3 DEF Prepare
  <2> HIDE DEF p
  <2>3. act'[a].todo = p /\ \A b \in Activities \ {a} : act'[b] = act[b]
    BY <2>2 DEF Typed, Activity
  <2>4. a \in Owing
    BY <1>3 DEF Prepare, Does, Owing, OwingOps
  <2>5. Owing' \subseteq Owing \ {a}
    BY <2>1, <2>3 DEF Owing, OwingOps
  <2> QED
    BY <2>2, <2>4, <2>5, AccountedOff
<1>4. CASE /\ ~Gates(a)
           /\ used'.cycles = used.cycles /\ used'.fires = used.fires /\ used'.reruns = used.reruns
  <2>1. Op(a) # "gates"
    <3>1. SUFFICES ASSUME Op(a) = "gates" PROVE FALSE
      OBVIOUS
    <3>2. Does(a, "gates")
      BY <1>1, <3>1 DEF Does, Op
    <3>3. act[a].held = Nothing /\ ~act[a].opened
      <4>1. "gates" \notin Updates
        BY DEF Updates, StateOps, IndexOps
      <4> QED
        BY <3>2, <4>1, OpIs DEF Course
    <3>4. ~Disposes(a) /\ ~Opens(a) /\ ~Writes(a)
      BY <3>3 DEF Disposes, Opens, Writes
    <3>5. ~Reads(a)
      BY <3>1 DEF Reads, Does, Op, Updates, StateOps, IndexOps
    <3> QED
      BY <1>4, <3>1, <3>4, <3>5 DEF Step, Acquire, Load, Discover, Workspace, Prepare, Execute,
         Rest,
         Release, Apply, Does, Op
  <2> QED
    BY <1>1, <1>4, <2>1, MovedOwes, StillAccounted
<1>5. \/ Gates(a) \/ Prepare(a)
      \/ UNCHANGED used \/ used' = [used EXCEPT !.faults = used.faults + 1]
  BY DEF Step, Reads, Disposes, Opens, Writes, Acquire, Abandons, Load, Discover, Workspace,
     Execute, Rest, Release, Apply
<1> QED
  BY <1>2, <1>3, <1>4, <1>5, FaultIsCounted

\* Every step keeps the accounts.
LEMMA NextAccounts ==
  ASSUME Typed, OnCourse, Accounted, [Next]_vars, Typed'
  PROVE  Accounted'
<1>1. CASE \E g \in Gens : Start(g) \/ StartFails(g) \/ Stop(g) \/ StopDone(g) \/ WatcherFails(g)
  <2>1. UNCHANGED act
    BY <1>1 DEF Start, StartFails, Stop, StopDone, WatcherFails
  <2>2. used'.cycles = used.cycles /\ used'.fires = used.fires /\ used'.reruns = used.reruns
    BY <1>1 DEF Start, StartFails, Stop, StopDone, WatcherFails, Typed, Counters
  <2>3. Owing' = Owing
    BY <2>1 DEF Owing
  <2> QED
    BY <2>2, <2>3, StillAccounted
<1>2. ASSUME NEW g \in Gens, NEW a \in Activities, TimerFires(g, a) \/ Signal(g, a)
      PROVE  Accounted'
  <2>1. Begins(a, "tick", g, <<"gates">>, NoCycle) \/ Begins(a, "signal", g, <<"rouse">>, NoCycle)
    BY <1>2 DEF TimerFires, Signal
  <2>2. Head(<<"gates">>) \notin OwingOps /\ Head(<<"rouse">>) \notin OwingOps
    BY DEF OwingOps
  <2>3. Owing' \subseteq Owing
    BY <2>1, <2>2, BeginsOwes
  <2>4. used'.cycles = used.cycles /\ used'.fires = used.fires /\ used'.reruns = used.reruns
    BY <1>2 DEF TimerFires, Signal, Typed, Counters
  <2> QED
    BY <2>3, <2>4, StillAccounted
<1>3. ASSUME NEW g \in Gens, NEW a \in Activities, Rerun(g, a) PROVE Accounted'
  <2>1. used' = [used EXCEPT !.reruns = used.reruns + 1] /\ used.reruns < MaxReruns
    BY <1>3 DEF Rerun
  <2>2. /\ used'.fires = used.fires /\ used'.reruns = used.reruns + 1 /\ used'.cycles = used.cycles
        /\ used' \in Counters /\ used.fires \in Nat /\ used.reruns \in Nat
    BY <2>1 DEF Typed, Counters
  <2>3. /\ used'.fires + used'.reruns = used.fires + used.reruns + 1
        /\ used'.fires <= MaxFires /\ used'.reruns <= MaxReruns
    BY <2>1, <2>2, DiscoveryAssumption DEF Accounted
  <2>4. Owing' \subseteq Owing \cup {a}
    BY <1>3, BeginsOwes DEF Rerun
  <2> QED
    BY <2>2, <2>3, <2>4, AccountedFor
<1>4. ASSUME NEW a \in Activities, Edit(a) PROVE Accounted'
  <2>1. PICK c \in 1..used.cycles, kind \in {"apply", "archive"} :
          Begins(a, kind, 1, IF kind = "apply" THEN <<"applying", "apply">> ELSE <<"archive">>, c)
    BY <1>4 DEF Edit
  <2>2. Head(IF kind = "apply" THEN <<"applying", "apply">> ELSE <<"archive">>) \notin OwingOps
    BY DEF OwingOps
  <2>3. Owing' \subseteq Owing
    BY <2>1, <2>2, BeginsOwes
  <2>4. used'.cycles = used.cycles /\ used'.fires = used.fires /\ used'.reruns = used.reruns
    BY <1>4 DEF Edit, Typed, Counters
  <2> QED
    BY <2>3, <2>4, StillAccounted
<1>5. ASSUME NEW a \in Activities, Step(a) PROVE Accounted'
  BY <1>5, StepAccounts
<1>6. ASSUME NEW a \in Activities, Fault(a) PROVE Accounted'
  <2>1. /\ \A b \in Activities \ {a} : act'[b] = act[b]
        /\ act'[a].todo = <<>> \/ Op(a)' \in {"release", "completed"}
    BY <1>6, FaultMoves DEF IdleActivity
  <2>2. Owing' \subseteq Owing
    BY <2>1 DEF Owing, OwingOps, Op
  <2>3. used'.cycles = used.cycles /\ used'.fires = used.fires /\ used'.reruns = used.reruns
    BY <1>6 DEF Fault, Typed, Counters
  <2> QED
    BY <2>2, <2>3, StillAccounted
<1>7. CASE Crash
  <2>1. \A a \in Activities : act'[a].todo = <<>>
    BY <1>7 DEF Crash, IdleActivity
  <2>2. Owing' \subseteq Owing
    BY <2>1 DEF Owing
  <2>3. used'.cycles = used.cycles /\ used'.fires = used.fires /\ used'.reruns = used.reruns
    BY <1>7 DEF Crash, Typed, Counters
  <2> QED
    BY <2>2, <2>3, StillAccounted
<1>8. CASE CooldownEnds
  <2>1. Owing' \subseteq Owing
    BY <1>8, CooldownMoves DEF Owing
  <2> QED
    BY <1>8, <2>1, StillAccounted DEF CooldownEnds
<1>9. CASE UNCHANGED vars
  BY <1>9, StillAccounted DEF vars, Owing
<1> QED
  BY <1>1, <1>2, <1>3, <1>4, <1>5, <1>6, <1>7, <1>8, <1>9 DEF Next

\* The types, the programs and the accounts hold at first.
LEMMA InitIsTyped == Init => Typed /\ OnCourse /\ Accounted
<1> SUFFICES ASSUME Init PROVE Typed /\ OnCourse /\ Accounted
  OBVIOUS
<1>1. Default["state"] \in State /\ Default["index"] \in Index /\ DOMAIN Default = {"state", "index"}
  BY DEF Default, State, Index
<1>2. NewScheduler \in Scheduler
  BY DiscoveryAssumption DEF NewScheduler, Scheduler
<1>3. act \in [Activities -> Activity] /\ OnCourse
  BY IdleIsTyped DEF Init, OnCourse, Course
<1>4. disk \in [{"state", "index"} -> State \cup Index \cup {Torn}]
      /\ \A f \in {"state", "index"} : disk[f] = Torn \/ disk[f] \in Contents(f)
  <2>1. disk = Default
    BY DEF Init
  <2>2. disk = [f \in {"state", "index"} |-> disk[f]]
    BY <2>1 DEF Default
  <2>3. disk["state"] \in State /\ disk["index"] \in Index
    BY <1>1, <2>1
  <2> QED
    BY <2>2, <2>3, ContentsAre
<1>5. Owing = {}
  BY DEF Init, Owing, IdleActivity
<1>6. Accounted
  <2>1. Cardinality(Owing) = 0
    BY <1>5, FS_EmptySet
  <2> QED
    BY <2>1, DiscoveryAssumption DEF Init, Accounted
<1>7. used \in Counters
  BY DEF Init, Counters
<1> QED
  BY <1>2, <1>3, <1>4, <1>6, <1>7 DEF Init, Typed

\* They are invariants of the specification.
LEMMA SpecIsTyped == Spec => [](Typed /\ OnCourse /\ Accounted)
<1>1. Init => Typed /\ OnCourse /\ Accounted
  BY InitIsTyped
<1>2. Typed /\ OnCourse /\ Accounted /\ [Next]_vars => (Typed /\ OnCourse /\ Accounted)'
  BY StepIsTyped, NextAccounts
<1> QED
  BY <1>1, <1>2, PTL DEF Spec

\* Every variable keeps its type, for all values of the constants: what an activity holds is
\* a content of the file it is about to write, and work cycles never run out of numbers.
THEOREM TypeCorrect == Spec => []TypeOK
  BY SpecIsTyped, TypedIsOK, PTL

-----------------------------------------------------------------------------
(* Fires are alone. *)

\* A fire is under way exactly while the lock is there and was not left behind, and no two are.
Lone ==
    /\ \A a \in Activities : Fires(a) => lock /\ ~abandoned
    /\ lock /\ ~abandoned => \E a \in Activities : Fires(a)
    /\ abandoned => lock
    /\ \A a, b \in Activities : Fires(a) /\ Fires(b) => a = b

\* Activities of which no two are under way are one at most.
LEMMA LoneIsOne == Lone => OneDiscovery
<1> SUFFICES ASSUME Lone PROVE OneDiscovery
  OBVIOUS
<1> DEFINE F == {a \in Activities : Fires(a)}
<1>1. CASE F = {}
  <2>1. Cardinality(F) = 0
    BY <1>1, FS_EmptySet
  <2> QED
    BY <1>1, <2>1 DEF Lone, OneDiscovery
<1>2. ASSUME NEW a \in F PROVE OneDiscovery
  <2>1. F = {a}
    BY <1>2 DEF Lone
  <2>2. Cardinality(F) = 1
    BY <2>1, FS_Singleton
  <2> QED
    BY <1>2, <2>2 DEF Lone, OneDiscovery
<1> QED
  BY <1>1, <1>2

\* A fire begins where a tick has acquired the lock.
LEMMA MovedFires ==
  ASSUME NEW a \in Activities, Moved(a), act[a].todo # <<>>, Op(a) # "acquire",
         NEW b \in Activities, Fires(b)'
  PROVE  Fires(b)
<1>1. CASE b # a
  BY <1>1 DEF Moved, Fires, Does
<1>2. CASE b = a
  <2>1. act'[a] # IdleActivity
    BY <1>2 DEF Fires, IdleActivity
  <2>2. /\ act'[a].kind = act[a].kind /\ act'[a].todo # <<>>
        /\ Op(a)' = Op(a) \/ <<Op(a), Op(a)'>> \in Moves
    BY <2>1 DEF Moved
  <2>3. Op(a)' \notin {"gates", "acquire"} /\ act[a].kind = "tick"
    BY <1>2, <2>2 DEF Fires, Does, Op
  <2>4. Op(a) \notin {"gates", "acquire"}
    BY <2>2, <2>3 DEF Moves, Successions
  <2> QED
    BY <1>2, <2>3, <2>4 DEF Fires, Does, Op
<1> QED
  BY <1>1, <1>2

\* A tick that fires and moves on within its program still fires.
LEMMA MovesFire ==
  ASSUME NEW a \in Activities, Moved(a), Op(a) \notin {"gates", "acquire"}, act'[a].kind = "tick"
  PROVE  Fires(a)'
<1>1. act'[a] # IdleActivity
  BY DEF IdleActivity
<1>2. act'[a].todo # <<>> /\ (Op(a)' = Op(a) \/ <<Op(a), Op(a)'>> \in Moves)
  BY <1>1 DEF Moved
<1>3. Op(a)' \notin {"gates", "acquire"}
  BY <1>2 DEF Moves, Successions
<1> QED
  BY <1>3 DEF Fires, Does, Op

\* Fires go on, and the lock stays.
LEMMA SameFires ==
  ASSUME Lone, UNCHANGED <<lock, abandoned>>, \A b \in Activities : Fires(b)' <=> Fires(b)
  PROVE  Lone'
  BY DEF Lone

\* No fire is under way, and the lock, if it is there, was left behind.
LEMMA NothingFires ==
  ASSUME \A b \in Activities : ~Fires(b)', abandoned' <=> lock' PROVE Lone'
  BY DEF Lone

\* A tick that fires ends with the release of the lock and not before.
LEMMA FireGoesOn ==
  ASSUME Typed, OnCourse, NEW a \in Activities, Step(a), Fires(a), ~Release(a)
  PROVE  Fires(a)'
<1>1. /\ act[a].kind = "tick" /\ act[a].todo # <<>> /\ act[a] \in Activity /\ Moved(a)
      /\ Op(a) \notin {"gates", "acquire"}
  BY StepMoves DEF Fires, Typed, Does, Op
<1>2. ASSUME NEW op \in Updates, Does(a, op), Finishes(a, op) PROVE act'[a].kind = "tick"
  <2>1. Sound("tick", act[a].todo) /\ Head(act[a].todo) = op
    BY <1>1, <1>2, OpIs
  <2>2. op \notin LastOps("tick")
    BY DEF LastOps, Updates, StateOps, IndexOps
  <2>3. Tail(act[a].todo) # <<>>
    BY <2>1, <2>2 DEF Sound
  <2> QED
    BY <1>1, <1>2, <2>3, LeftGoesOn DEF Finishes, Typed
<1>3. ASSUME NEW p, Proceeds(a, p) PROVE act'[a].kind = "tick"
  BY <1>1, <1>3 DEF Proceeds, Typed, Activity
<1>4. CASE Reads(a)
  <2>1. PICK op \in Updates :
          /\ Does(a, op)
          /\ \/ act' = [act EXCEPT ![a].held = Changed(op, act[a].cycle, Reading(FileOf(op)))]
             \/ op = "applying"
             \/ Finishes(a, op)
    BY <1>4 DEF Reads
  <2>2. op # "applying"
    BY <1>1, <2>1, OpIs DEF OpsOf, FireOps
  <2>3. ASSUME act' = [act EXCEPT ![a].held = Changed(op, act[a].cycle, Reading(FileOf(op)))]
        PROVE  act'[a].kind = "tick"
    BY <1>1, <2>3 DEF Typed, Activity
  <2>4. act'[a].kind = "tick"
    BY <1>2, <2>1, <2>2, <2>3, <1>1
  <2> QED
    BY <1>1, <2>4, MovesFire
<1>5. CASE Writes(a)
  <2>1. Does(a, Head(act[a].todo)) /\ Head(act[a].todo) \in Updates
    BY <1>5 DEF Writes, OnCourse, Course, Does
  <2>2. act'[a].kind = "tick"
    BY <1>2, <1>5, <2>1 DEF Writes
  <2> QED
    BY <1>1, <2>2, MovesFire
<1>6. CASE Disposes(a) \/ Opens(a)
  <2>1. act'[a].kind = "tick"
    BY <1>1, <1>6 DEF Disposes, Opens, Typed, Activity
  <2> QED
    BY <1>1, <2>1, MovesFire
<1>7. CASE Load(a) \/ Discover(a) \/ Execute(a) \/ Rest(a) \/ Apply(a)
  <2>1. CASE Load(a)
    <3>1. act' = [act EXCEPT ![a] = [act[a] EXCEPT !.todo = Tail(act[a].todo),
                                                  !.seen = Reading("state").active]]
      BY <2>1 DEF Load
    <3> QED
      BY <1>1, <3>1, MovesFire DEF Typed, Activity
  <2>2. CASE ~Load(a)
    <3>1. act'[a].kind = "tick"
      BY <1>3, <1>7, <2>2 DEF Discover, Execute, Rest, Apply
    <3> QED
      BY <1>1, <3>1, MovesFire
  <2> QED
    BY <2>1, <2>2
<1>8. CASE Workspace(a) \/ Prepare(a)
  <2>1. ASSUME Reuses(a) PROVE act'[a].kind = "tick"
    BY <1>1, <2>1 DEF Reuses, Typed, Activity
  <2>2. ASSUME act' = [act EXCEPT ![a] = [act[a] EXCEPT !.cycle = used.cycles + 1,
                  !.todo = <<"create", "activate", "addPlan", "execute", "completed">> \o Released(a)]]
        PROVE  act'[a].kind = "tick"
    BY <1>1, <2>2 DEF Typed, Activity
  <2>3. act'[a].kind = "tick"
    BY <1>3, <1>8, <2>1, <2>2 DEF Workspace, Prepare
  <2> QED
    BY <1>1, <2>3, MovesFire
<1>9. ~Gates(a) /\ ~Acquire(a)
  BY DEF Fires, Gates, Acquire
<1> QED
  BY <1>4, <1>5, <1>6, <1>7, <1>8, <1>9 DEF Step

\* Only the fire that has the lock releases it.
LEMMA ReleaseFires ==
  ASSUME Typed, OnCourse, NEW a \in Activities, Does(a, "release") PROVE Fires(a)
<1>1. act[a].kind = "tick"
  BY OpIs, TickOps
<1> QED
  BY <1>1 DEF Fires, Does

\* A step of an activity leaves fires alone: only Acquire begins one, only Release ends one.
LEMMA StepIsLone ==
  ASSUME Typed, OnCourse, Lone, NEW a \in Activities, Step(a) PROVE Lone'
<1>1. Moved(a) /\ act[a].todo # <<>>
  BY StepMoves
<1>2. CASE Acquire(a)
  <2>1. Does(a, "acquire") /\ ~Fires(a)
    BY <1>2 DEF Acquire, Fires
  <2>2. ASSUME TickEnds(a) PROVE \A b \in Activities : Fires(b)' <=> Fires(b)
    <3>1. /\ \A b \in Activities \ {a} : act'[b] = act[b]
          /\ act'[a] = IdleActivity
      BY <2>2 DEF TickEnds, Typed
    <3> QED
      BY <2>1, <3>1 DEF Fires, Does, IdleActivity
  <2>3. CASE TickEnds(a) /\ UNCHANGED <<lock, abandoned>>
    BY <2>2, <2>3, SameFires
  <2>4. CASE ~lock /\ lock' = TRUE /\ TickEnds(a) /\ Abandons
    BY <2>2, <2>4, NothingFires DEF Lone, Abandons
  <2>5. CASE ~lock /\ lock' /\ UNCHANGED abandoned
             /\ Proceeds(a, <<"started", "clear", "load", "discover">>)
    <3>1. \A b \in Activities \ {a} : ~Fires(b)'
      BY <1>1, <2>5 DEF Lone, Moved, Fires, Does
    <3>2. act[a].kind = "tick" /\ act[a] \in Activity
      BY <2>1, OpIs, TickOps
    <3>3. /\ act'[a].kind = "tick"
          /\ act'[a].todo = <<"started", "clear", "load", "discover">>
      BY <2>5, <3>2 DEF Proceeds, Typed, Activity
    <3>4. Fires(a)'
      BY <3>3 DEF Fires, Does
    <3> QED
      BY <2>5, <3>1, <3>4 DEF Lone
  <2> QED
    BY <1>2, <2>3, <2>4, <2>5 DEF Acquire
<1>3. CASE Release(a)
  <2>1. Fires(a)
    BY <1>3, ReleaseFires DEF Release
  <2>2. /\ \A b \in Activities \ {a} : act'[b] = act[b]
        /\ act'[a] = IdleActivity
    BY <1>3 DEF Release, TickEnds, Typed
  <2>3. \A b \in Activities : ~Fires(b)'
    BY <2>1, <2>2 DEF Lone, Fires, Does, IdleActivity
  <2>4. abandoned' <=> lock'
    BY <1>3, <2>1 DEF Lone, Release, Abandons
  <2> QED
    BY <2>3, <2>4, NothingFires
<1>4. CASE UNCHANGED <<lock, abandoned>> /\ Op(a) # "acquire" /\ ~Release(a)
  <2>1. ASSUME NEW b \in Activities, Fires(b) PROVE Fires(b)'
    <3>1. CASE b = a
      BY <1>4, <2>1, <3>1, FireGoesOn
    <3>2. CASE b # a
      BY <1>1, <2>1, <3>2 DEF Moved, Fires, Does
    <3> QED
      BY <3>1, <3>2
  <2>2. \A b \in Activities : Fires(b)' => Fires(b)
    BY <1>1, <1>4, MovedFires
  <2> QED
    BY <1>4, <2>1, <2>2, SameFires
<1>5. CASE ~Acquire(a) /\ Op(a) = "acquire"
  <2>1. Does(a, "acquire")
    BY <1>1, <1>5 DEF Does, Op
  <2>2. act[a].held = Nothing /\ ~act[a].opened
    <3>1. "acquire" \notin Updates
      BY DEF Updates, StateOps, IndexOps
    <3> QED
      BY <2>1, <3>1, OpIs DEF Course
  <2>3. ~Disposes(a) /\ ~Opens(a) /\ ~Writes(a)
    BY <2>2 DEF Disposes, Opens, Writes
  <2>4. ~Reads(a)
    BY <1>5 DEF Reads, Does, Op, Updates, StateOps, IndexOps
  <2>5. FALSE
    BY <1>5, <2>3, <2>4 DEF Step, Gates, Load, Discover, Workspace, Prepare, Execute, Rest,
       Release, Apply, Does, Op
  <2> QED
    BY <2>5
<1>6. Acquire(a) \/ Release(a) \/ UNCHANGED <<lock, abandoned>>
  BY DEF Step, Reads, Disposes, Opens, Writes, Gates, Load, Discover, Workspace, Prepare, Execute,
     Rest, Apply
<1> QED
  BY <1>2, <1>3, <1>4, <1>5, <1>6

\* Every step leaves fires alone.
LEMMA NextIsLone ==
  ASSUME Typed, OnCourse, Lone, [Next]_vars PROVE Lone'
<1>1. ASSUME NEW a \in Activities, NEW k, NEW g, NEW p, NEW c, Begins(a, k, g, p, c),
             UNCHANGED <<lock, abandoned>>,
             k # "tick" \/ p = <<"gates">>
      PROVE  Lone'
  <2>1. /\ \A b \in Activities \ {a} : act'[b] = act[b]
        /\ act'[a].kind = k /\ act'[a].todo = p /\ act[a].kind = "idle"
    BY <1>1, BeginsMoves
  <2>2. ~Fires(a)' /\ ~Fires(a)
    BY <1>1, <2>1 DEF Fires, Does
  <2>3. \A b \in Activities : Fires(b)' <=> Fires(b)
    BY <2>1, <2>2 DEF Fires, Does
  <2> QED
    BY <1>1, <2>3, SameFires
<1>2. CASE \E g \in Gens : Start(g) \/ StartFails(g) \/ Stop(g) \/ StopDone(g) \/ WatcherFails(g)
  <2>1. UNCHANGED <<act, lock, abandoned>>
    BY <1>2 DEF Start, StartFails, Stop, StopDone, WatcherFails
  <2> QED
    BY <2>1, SameFires DEF Fires, Does
<1>3. ASSUME NEW g \in Gens, NEW a \in Activities, TimerFires(g, a) \/ Signal(g, a) \/ Rerun(g,
             a)
      PROVE  Lone'
  BY <1>1, <1>3 DEF TimerFires, Signal, Rerun
<1>4. ASSUME NEW a \in Activities, Edit(a) PROVE Lone'
  BY <1>1, <1>4 DEF Edit
<1>5. ASSUME NEW a \in Activities, Step(a) PROVE Lone'
  BY <1>5, StepIsLone
<1>6. ASSUME NEW a \in Activities, Fault(a) PROVE Lone'
  <2>1. /\ act[a].todo # <<>>
        /\ \A b \in Activities \ {a} : act'[b] = act[b]
        /\ \/ act'[a] = IdleActivity
           \/ /\ act'[a].kind = act[a].kind /\ act'[a].todo # <<>>
              /\ Op(a)' \in {"release", "completed"}
              /\ act[a].kind = "tick" => Op(a) \notin {"gates", "acquire"}
    BY <1>6, FaultMoves
  <2>2. ASSUME Fires(a) PROVE act'[a] # IdleActivity
    <3>1. act[a].kind = "tick" /\ act[a] \in Activity /\ Op(a) \notin {"gates", "acquire"}
      BY <2>1, <2>2 DEF Fires, Does, Op, Typed
    <3>2. AfterFault(act[a]) # <<>>
      <4>1. \A s : <<"completed">> \o <<"release">> # <<>> /\ <<"release">> # <<>>
        BY Concatenated
      <4> QED
        BY <3>1, <4>1 DEF AfterFault, Op
    <3>3. act' = [act EXCEPT ![a] = [act[a] EXCEPT
                     !.todo = AfterFault(act[a]), !.held = Nothing, !.opened = FALSE]]
      BY <1>6, <3>2 DEF Fault
    <3>4. act'[a].kind = "tick"
      BY <3>1, <3>3 DEF Typed, Activity
    <3> QED
      BY <3>4 DEF IdleActivity
  <2>3. \A b \in Activities : Fires(b)' <=> Fires(b)
    BY <2>1, <2>2 DEF Fires, Does, Op, IdleActivity
  <2> QED
    BY <1>6, <2>3, SameFires DEF Fault
<1>7. CASE Crash
  <2>1. \A b \in Activities : ~Fires(b)'
    BY <1>7 DEF Crash, Fires, IdleActivity
  <2> QED
    BY <1>7, <2>1, NothingFires DEF Crash
<1>8. CASE CooldownEnds
  <2>1. \A b \in Activities : Fires(b)' <=> Fires(b)
    BY <1>8, CooldownMoves DEF Fires, Does
  <2> QED
    BY <1>8, <2>1, SameFires DEF CooldownEnds
<1>9. CASE UNCHANGED vars
  BY <1>9, SameFires DEF vars, Fires, Does
<1> QED
  BY <1>2, <1>3, <1>4, <1>5, <1>6, <1>7, <1>8, <1>9 DEF Next

-----------------------------------------------------------------------------
(* Schedulers and their ticks. *)

\* Nothing is under way or ahead of a scheduler that has not started, or died.
Unborn ==
    \A g \in Gens : sched[g].status \in {"new", "failed", "dead"} =>
        /\ ~sched[g].timer /\ sched[g].lost = 0 /\ ~sched[g].watcher
        /\ \A a \in Activities : act[a].kind \in {"tick", "signal"} => act[a].gen # g

\* A scheduler has a timer or a tick, as long as no signal has given it another timer:
\* stop() waits for that tick.
ChainOf(g) ==
    /\ sched[g].lost = 0
    /\ sched[g].timer => sched[g].status = "running" /\ ~Ticking(g)
    /\ \A a \in Activities : act[a].kind = "tick" /\ act[a].gen = g =>
           /\ sched[g].tip = a /\ sched[g].status \in {"running", "stopping"}
           /\ sched[g].status = "stopping" => sched[g].wait = a

Chained == ~forked => \A g \in Gens : ChainOf(g)

\* The chain of a scheduler that has stopped is over.
LEMMA ChainStops == Typed /\ Chained => StopIsFinal
  BY DEF Chained, ChainOf, StopIsFinal

\* A step of an activity, seen from the schedulers: it goes on, its tick is over, or its
\* signal arms the timer.
Same(g) ==
    /\ sched'[g].status = sched[g].status /\ sched'[g].timer = sched[g].timer
    /\ sched'[g].lost = sched[g].lost /\ sched'[g].tip = sched[g].tip /\ sched'[g].wait = sched[g].wait

Continues(a) ==
    /\ forked' = forked
    /\ \A g \in Gens : Same(g) /\ (sched'[g].watcher =>
           sched[g].watcher \/ (act[a].kind = "tick" /\ act[a].gen = g))
    /\ \/ act'[a].kind = act[a].kind /\ act'[a].gen = act[a].gen
       \/ act'[a].kind = "idle" /\ act[a].kind # "tick"

\* A scheduler whose watcher is there, or is not.
Seen(s, w) == [s EXCEPT !.watcher = w]

EndsTick(a) ==
    /\ forked' = forked /\ act[a].kind = "tick" /\ act'[a].kind = "idle"
    /\ \E w \in BOOLEAN : sched' = [sched EXCEPT ![act[a].gen] =
           TickOver(Seen(sched[act[a].gen], w), a)]

Rouses(a) ==
    /\ act[a].kind = "signal" /\ act'[a].kind = "idle"
    /\ forked' = (forked \/ Ticking(act[a].gen))
    /\ sched' = [sched EXCEPT ![act[a].gen] = Settled(@, "rouse")]

Schedules(a) == Continues(a) \/ EndsTick(a) \/ Rouses(a)

\* A tick that ends arms the next timer.
LEMMA TickEndsSchedules ==
  ASSUME Typed, NEW a \in Activities, act[a].kind = "tick", TickEnds(a), forked' = forked
  PROVE  EndsTick(a)
<1>1. act[a].gen \in Gens /\ sched[act[a].gen] \in Scheduler
  BY DEF Typed, Activity
<1>2. sched[act[a].gen] = Seen(sched[act[a].gen], sched[act[a].gen].watcher)
      /\ sched[act[a].gen].watcher \in BOOLEAN
  BY <1>1 DEF Scheduler, Seen
<1>3. act'[a].kind = "idle"
  BY DEF TickEnds, Typed, IdleActivity
<1>4. sched' = [sched EXCEPT ![act[a].gen] =
          TickOver(Seen(sched[act[a].gen], sched[act[a].gen].watcher), a)]
  BY <1>2 DEF TickEnds
<1> QED
  BY <1>2, <1>3, <1>4 DEF EndsTick

\* A step that leaves the schedulers alone continues.
LEMMA StaysContinues ==
  ASSUME Typed, NEW a \in Activities, UNCHANGED <<sched, forked>>,
         \/ act'[a].kind = act[a].kind /\ act'[a].gen = act[a].gen
         \/ act'[a].kind = "idle" /\ act[a].kind # "tick"
  PROVE  Continues(a)
  BY DEF Continues, Same

\* A scheduler whose watcher alone changes.
LEMMA WatcherIsAll ==
  ASSUME Typed, NEW g \in Gens, NEW w \in BOOLEAN, sched' = [sched EXCEPT ![g].watcher = w]
  PROVE  /\ \A h \in Gens : Same(h)
         /\ \A h \in Gens \ {g} : sched'[h].watcher = sched[h].watcher
         /\ sched'[g].watcher = w
<1>1. sched \in [Gens -> Scheduler]
  BY DEF Typed
<1> QED
  BY <1>1 DEF Same, Scheduler

\* The end of an update continues, or arms the timer of its signal.
LEMMA FinishesSchedules ==
  ASSUME Typed, OnCourse, NEW a \in Activities, NEW op \in Updates, Does(a, op), Finishes(a, op)
  PROVE  Schedules(a)
<1>1. /\ act[a] \in Activity /\ act[a].kind \in Kinds \ {"idle"} /\ Sound(act[a].kind, act[a].todo)
      /\ op \in OpsOf(act[a].kind) /\ Head(act[a].todo) = op
  BY OpIs
<1>2. act'[a] = Left(act[a])
  BY DEF Finishes, Typed
<1>3. act[a].gen \in Gens /\ sched[act[a].gen] \in Scheduler
  BY <1>1 DEF Typed, Activity
<1>4. \/ act'[a].kind = act[a].kind /\ act'[a].gen = act[a].gen
      \/ act'[a].kind = "idle" /\ act[a].kind # "tick"
  <2>1. CASE Tail(act[a].todo) = <<>>
    <3>1. op \in LastOps(act[a].kind)
      BY <1>1, <2>1 DEF Sound
    <3>2. act[a].kind # "tick"
      BY <3>1 DEF LastOps, Updates, StateOps, IndexOps
    <3> QED
      BY <1>2, <2>1, <3>2 DEF Left, IdleActivity
  <2>2. CASE Tail(act[a].todo) # <<>>
    BY <1>1, <1>2, <2>2, LeftGoesOn
  <2> QED
    BY <2>1, <2>2
<1>5. CASE op = "rouse"
  <2>1. act[a].kind = "signal"
    BY <1>1, <1>5, TickOps
  <2>2. act'[a].kind = "idle"
    <3>1. "rouse" \in LastOps("signal")
      BY DEF LastOps, OpsOf
    <3>2. Tail(act[a].todo) = <<>>
      BY <1>1, <1>5, <2>1, <3>1 DEF Sound
    <3> QED
      BY <1>2, <3>2 DEF Left, IdleActivity
  <2> QED
    BY <1>5, <2>1, <2>2 DEF Finishes, Rouses, Schedules
<1>6. CASE op # "rouse"
  <2>1. forked' = forked
    BY <1>6 DEF Finishes, Typed
  <2>2. CASE op = "clear"
    <3>1. sched' = [sched EXCEPT ![act[a].gen].watcher = FALSE]
      BY <2>2 DEF Finishes, Settled
    <3> QED
      BY <1>3, <1>4, <2>1, <3>1, WatcherIsAll DEF Continues, Schedules
  <2>3. CASE op # "clear"
    <3>1. sched' = [sched EXCEPT ![act[a].gen] = sched[act[a].gen]]
      BY <1>6, <2>3 DEF Finishes, Settled
    <3>2. sched' = sched
      BY <3>1 DEF Typed
    <3> QED
      BY <1>4, <2>1, <3>2, StaysContinues DEF Schedules
  <2> QED
    BY <2>2, <2>3
<1> QED
  BY <1>5, <1>6

\* Every step of an activity continues, ends its tick, or arms the timer of its signal.
LEMMA StepSchedules ==
  ASSUME Typed, OnCourse, NEW a \in Activities, Step(a) PROVE Schedules(a)
<1>1. Moved(a) /\ act[a].todo # <<>> /\ act[a] \in Activity
  BY StepMoves DEF Typed
<1>2. CASE Reads(a)
  <2>1. PICK op \in Updates :
          /\ Does(a, op)
          /\ \/ /\ act' = [act EXCEPT ![a].held = Changed(op, act[a].cycle, Reading(FileOf(op)))]
                /\ UNCHANGED <<sched, forked>>
             \/ /\ op = "applying" /\ act' = [act EXCEPT ![a] = IdleActivity]
                /\ UNCHANGED <<sched, forked>>
             \/ Finishes(a, op)
    BY <1>2 DEF Reads
  <2>2. CASE Finishes(a, op)
    BY <2>1, <2>2, FinishesSchedules
  <2>3. CASE /\ op = "applying" /\ act' = [act EXCEPT ![a] = IdleActivity]
             /\ UNCHANGED <<sched, forked>>
    <3>1. act[a].kind \in Kinds /\ "applying" \in OpsOf(act[a].kind)
      BY <2>1, <2>3, OpIs
    <3>2. act[a].kind # "tick"
      BY <3>1, TickOps
    <3>3. act'[a].kind = "idle"
      BY <2>3 DEF Typed, IdleActivity
    <3> QED
      BY <2>3, <3>2, <3>3, StaysContinues DEF Schedules
  <2>4. CASE /\ act' = [act EXCEPT ![a].held = Changed(op, act[a].cycle, Reading(FileOf(op)))]
             /\ UNCHANGED <<sched, forked>>
    <3>1. act'[a].kind = act[a].kind /\ act'[a].gen = act[a].gen
      BY <1>1, <2>4 DEF Typed, Activity
    <3> QED
      BY <2>4, <3>1, StaysContinues DEF Schedules
  <2> QED
    BY <2>1, <2>2, <2>3, <2>4
<1>3. CASE Disposes(a) \/ Opens(a)
  <2>1. act'[a].kind = act[a].kind /\ act'[a].gen = act[a].gen
    BY <1>1, <1>3 DEF Disposes, Opens, Typed, Activity
  <2>2. UNCHANGED <<sched, forked>>
    BY <1>3 DEF Disposes, Opens
  <2> QED
    BY <2>1, <2>2, StaysContinues DEF Schedules
<1>4. CASE Writes(a)
  <2>1. Does(a, Head(act[a].todo)) /\ Head(act[a].todo) \in Updates
    BY <1>4 DEF Writes, OnCourse, Course, Does
  <2> QED
    BY <1>4, <2>1, FinishesSchedules DEF Writes
<1>5. CASE Gates(a)
  <2>1. act[a].kind = "tick"
    BY <1>5, OpIs, TickOps DEF Gates
  <2>2. CASE /\ act' = [act EXCEPT ![a] = IdleActivity]
             /\ sched' = [sched EXCEPT ![act[a].gen] = TickOver(
                  IF Reading("state").dormant THEN Watched(sched[act[a].gen]) ELSE sched[act[a].gen], a)]
    <3>1. act[a].gen \in Gens /\ sched[act[a].gen] \in Scheduler
      BY <1>1 DEF Typed, Activity
    <3>2. CASE Reading("state").dormant
      <4>1. sched' = [sched EXCEPT ![act[a].gen] = TickOver(Seen(sched[act[a].gen], TRUE), a)]
        BY <2>2, <3>2 DEF Watched, Seen
      <4> QED
        BY <1>5, <2>1, <2>2, <4>1 DEF Gates, EndsTick, Schedules, Typed, IdleActivity
    <3>3. CASE ~Reading("state").dormant
      <4>1. TickEnds(a)
        BY <2>2, <3>3 DEF TickEnds
      <4> QED
        BY <1>5, <2>1, <4>1, TickEndsSchedules DEF Gates, Schedules
    <3> QED
      BY <3>2, <3>3
  <2>3. CASE Proceeds(a, <<"acquire">>) /\ UNCHANGED sched
    <3>1. act'[a].kind = act[a].kind /\ act'[a].gen = act[a].gen
      BY <1>1, <2>3 DEF Proceeds, Typed, Activity
    <3> QED
      BY <1>5, <2>3, <3>1, StaysContinues DEF Gates, Schedules
  <2> QED
    BY <1>5, <2>2, <2>3 DEF Gates
<1>6. CASE (Acquire(a) \/ Release(a)) /\ TickEnds(a)
  <2>1. act[a].kind = "tick"
    BY <1>6, OpIs, TickOps DEF Acquire, Release
  <2> QED
    BY <1>6, <2>1, TickEndsSchedules DEF Acquire, Release, Schedules
<1>7. ASSUME UNCHANGED <<sched, forked>>, act[a].kind # "tick" \/ act'[a] # IdleActivity
      PROVE  Schedules(a)
  BY <1>1, <1>7, StaysContinues DEF Moved, IdleActivity, Schedules
<1>8. CASE Acquire(a) /\ ~TickEnds(a)
  <2>1. act'[a].kind = act[a].kind /\ act'[a].gen = act[a].gen
    BY <1>1, <1>8 DEF Acquire, Proceeds, Typed, Activity
  <2> QED
    BY <1>8, <2>1, StaysContinues DEF Acquire, Schedules
<1>9. CASE Load(a) \/ Discover(a) \/ Workspace(a) \/ Prepare(a) \/ Execute(a) \/ Apply(a)
  <2>1. act'[a].kind = act[a].kind /\ act'[a].gen = act[a].gen
    <3>1. ASSUME NEW p, Proceeds(a,
                 p) PROVE act'[a].kind = act[a].kind /\ act'[a].gen = act[a].gen
      BY <1>1, <3>1 DEF Proceeds, Typed, Activity
    <3>2. CASE Load(a)
      <4>1. act' = [act EXCEPT ![a] = [act[a] EXCEPT !.todo = Tail(act[a].todo),
                                                    !.seen = Reading("state").active]]
        BY <3>2 DEF Load
      <4> QED
        BY <1>1, <4>1 DEF Typed, Activity
    <3>3. ASSUME Reuses(a) PROVE act'[a].kind = act[a].kind /\ act'[a].gen = act[a].gen
      BY <1>1, <3>3 DEF Reuses, Typed, Activity
    <3>4. CASE Workspace(a)
      BY <3>1, <3>3, <3>4 DEF Workspace
    <3>5. CASE Prepare(a)
      <4>1. CASE Reuses(a)
        BY <3>3, <4>1
      <4>2. CASE act' = [act EXCEPT ![a] = [act[a] EXCEPT !.cycle = used.cycles + 1,
              !.todo = <<"create", "activate", "addPlan", "execute", "completed">> \o Released(a)]]
        BY <1>1, <4>2 DEF Typed, Activity
      <4> QED
        BY <3>5, <4>1, <4>2 DEF Prepare
    <3> QED
      BY <1>9, <3>1, <3>2, <3>4, <3>5 DEF Discover, Execute, Apply
  <2>2. UNCHANGED <<sched, forked>>
    BY <1>9 DEF Load, Discover, Workspace, Prepare, Execute, Apply
  <2> QED
    BY <2>1, <2>2, StaysContinues DEF Schedules
<1>10. CASE Rest(a)
  <2>1. act[a].kind = "tick" /\ act[a].gen \in Gens
    BY <1>1, <1>10, OpIs, TickOps DEF Rest, Activity
  <2>2. act'[a].kind = act[a].kind /\ act'[a].gen = act[a].gen
    BY <1>1, <1>10 DEF Rest, Proceeds, Typed, Activity
  <2>3. sched' = [sched EXCEPT ![act[a].gen].watcher = TRUE]
    BY <1>10 DEF Rest, Watched
  <2> QED
    BY <1>10, <2>1, <2>2, <2>3, WatcherIsAll DEF Rest, Continues, Schedules
<1> QED
  BY <1>2, <1>3, <1>4, <1>5, <1>6, <1>8, <1>9, <1>10 DEF Step, Release

\* So does a rejected operation.
LEMMA FaultSchedules ==
  ASSUME Typed, OnCourse, NEW a \in Activities, Fault(a) PROVE Schedules(a)
<1>1. act[a].kind \notin {"idle", "signal"} /\ forked' = forked
  BY DEF Fault
<1>2. CASE act[a].kind = "tick" /\ TickEnds(a)
  BY <1>1, <1>2, TickEndsSchedules DEF Schedules
<1>3. CASE act[a].kind # "tick" /\ act' = [act EXCEPT ![a] = IdleActivity] /\ UNCHANGED sched
  <2>1. act'[a].kind = "idle"
    BY <1>3 DEF Typed, IdleActivity
  <2> QED
    BY <1>1, <1>3, <2>1, StaysContinues DEF Schedules
<1>4. CASE /\ act' = [act EXCEPT ![a] = [act[a] EXCEPT
                        !.todo = AfterFault(act[a]), !.held = Nothing, !.opened = FALSE]]
           /\ UNCHANGED sched
  <2> DEFINE p == AfterFault(act[a])
  <2>1. act' = [act EXCEPT ![a] = [act[a] EXCEPT !.todo = p, !.held = Nothing, !.opened = FALSE]]
    BY <1>4
  <2> HIDE DEF p
  <2>2. act[a] \in Activity
    BY DEF Typed
  <2>3. act'[a].kind = act[a].kind /\ act'[a].gen = act[a].gen
    BY <2>1, <2>2 DEF Typed, Activity
  <2> QED
    BY <1>1, <1>4, <2>3, StaysContinues DEF Schedules
<1> QED
  BY <1>2, <1>3, <1>4 DEF Fault

\* What the end of a tick and a signal make of their scheduler.
LEMMA TickOverIs ==
  ASSUME NEW s \in Scheduler, NEW w, NEW a \in Activities
  PROVE  /\ TickOver(Seen(s, w), a).status = s.status
         /\ TickOver(Seen(s, w), a).timer = (IF Stopped(s) THEN s.timer ELSE TRUE)
         /\ TickOver(Seen(s, w), a).lost = (IF ~Stopped(s) /\ s.timer THEN s.lost + 1 ELSE s.lost)
  BY DEF Seen, TickOver, Rescheduled, Stopped, Scheduler

\* What a signal makes of its scheduler.
LEMMA RousedIs ==
  ASSUME NEW s \in Scheduler, NEW t, t = Settled(s, "rouse")
  PROVE  /\ t.status = s.status /\ t.tip = s.tip /\ t.wait = s.wait
         /\ t.timer = ~Stopped(s) /\ t.lost = s.lost /\ ~t.watcher
  BY DEF Settled, Rescheduled, Stopped, Scheduler

Others(a) == \A b \in Activities \ {a} : act'[b] = act[b]

\* A step of an activity schedules nothing for a scheduler that is not started.
LEMMA SchedulesIsUnborn ==
  ASSUME Typed, Unborn, NEW a \in Activities, act[a].kind # "idle", Others(a), Schedules(a)
  PROVE  Unborn'
<1>1. act[a] \in Activity /\ act[a].gen \in Gens /\ sched[act[a].gen] \in Scheduler
  BY DEF Typed, Activity
<1>2. SUFFICES ASSUME NEW g \in Gens, sched'[g].status \in {"new", "failed", "dead"}
      PROVE  /\ ~sched'[g].timer /\ sched'[g].lost = 0 /\ ~sched'[g].watcher
             /\ \A b \in Activities : act'[b].kind \in {"tick", "signal"} => act'[b].gen # g
  BY DEF Unborn
<1>3. CASE Continues(a)
  <2>1. sched[g].status = sched'[g].status
    BY <1>3 DEF Continues, Same
  <2>2. /\ ~sched[g].timer /\ sched[g].lost = 0 /\ ~sched[g].watcher
        /\ \A b \in Activities : act[b].kind \in {"tick", "signal"} => act[b].gen # g
    BY <1>2, <2>1 DEF Unborn
  <2>3. \A b \in Activities : act'[b].kind \in {"tick", "signal"} =>
          act[b].kind = act'[b].kind /\ act[b].gen = act'[b].gen
    BY <1>3 DEF Continues, Others
  <2>4. ~sched'[g].timer /\ sched'[g].lost = 0
    BY <1>3, <2>2 DEF Continues, Same
  <2>5. ~sched'[g].watcher
    <3>1. sched'[g].watcher => act[a].kind = "tick" /\ act[a].gen = g
      BY <1>3, <2>2 DEF Continues
    <3> QED
      BY <2>2, <3>1
  <2> QED
    BY <2>2, <2>3, <2>4, <2>5
<1>4. CASE EndsTick(a)
  <2>1. PICK w \in BOOLEAN : sched' = [sched EXCEPT ![act[a].gen] =
           TickOver(Seen(sched[act[a].gen], w), a)]
    BY <1>4 DEF EndsTick
  <2>2. sched'[act[a].gen].status = sched[act[a].gen].status
    <3>1. sched'[act[a].gen] = TickOver(Seen(sched[act[a].gen], w), a)
      BY <1>1, <2>1 DEF Typed
    <3>2. TickOver(Seen(sched[act[a].gen], w), a).status = sched[act[a].gen].status
      BY <1>1, TickOverIs
    <3> QED
      BY <3>1, <3>2
  <2>3. act[a].gen # g
    BY <1>1, <1>2, <1>4, <2>2 DEF Unborn, EndsTick
  <2>4. sched'[g] = sched[g]
    BY <2>1, <2>3 DEF Typed
  <2> QED
    BY <1>2, <1>4, <2>4 DEF Unborn, EndsTick, Others
<1>5. CASE Rouses(a)
  <2>1. sched' = [sched EXCEPT ![act[a].gen] = Settled(sched[act[a].gen], "rouse")]
    BY <1>5 DEF Rouses
  <2>2. sched'[act[a].gen].status = sched[act[a].gen].status
    <3>1. sched'[act[a].gen] = Settled(sched[act[a].gen], "rouse")
      BY <1>1, <2>1 DEF Typed
    <3> QED
      BY <1>1, <3>1, RousedIs
  <2>3. act[a].gen # g
    BY <1>1, <1>2, <1>5, <2>2 DEF Unborn, Rouses
  <2>4. sched'[g] = sched[g]
    BY <2>1, <2>3 DEF Typed
  <2> QED
    BY <1>2, <1>5, <2>4 DEF Unborn, Rouses, Others
<1> QED
  BY <1>3, <1>4, <1>5 DEF Schedules

\* A step of an activity keeps the chains.
LEMMA SchedulesIsChained ==
  ASSUME Typed, Unborn, Chained, NEW a \in Activities, act[a].kind # "idle", Others(a),
         Schedules(a)
  PROVE  Chained'
<1>1. act[a] \in Activity /\ act[a].gen \in Gens /\ sched[act[a].gen] \in Scheduler
  BY DEF Typed, Activity
<1>2. SUFFICES ASSUME ~forked', NEW g \in Gens PROVE ChainOf(g)'
  BY DEF Chained
<1>3. ~forked
  BY <1>2 DEF Schedules, Continues, EndsTick, Rouses
<1>4. ChainOf(g) /\ sched[g] \in Scheduler
  BY <1>3 DEF Chained, Typed
<1>5. CASE Continues(a)
  <2>1. Same(g)
    BY <1>5 DEF Continues
  <2>2. ASSUME NEW b \in Activities, act'[b].kind = "tick", act'[b].gen = g
        PROVE  act[b].kind = "tick" /\ act[b].gen = g
    BY <1>5, <2>2 DEF Continues, Others
  <2>3. Ticking(g)' => Ticking(g)
    BY <2>2 DEF Ticking
  <2> QED
    BY <1>4, <2>1, <2>2, <2>3 DEF ChainOf, Same
<1>6. CASE EndsTick(a)
  <2>1. PICK w \in BOOLEAN : sched' = [sched EXCEPT ![act[a].gen] =
           TickOver(Seen(sched[act[a].gen], w), a)]
    BY <1>6 DEF EndsTick
  <2>2. \A b \in Activities : act'[b].kind = "tick" => b # a /\ act[b] = act'[b]
    BY <1>6 DEF EndsTick, Others
  <2>3. CASE g # act[a].gen
    <3>1. sched'[g] = sched[g]
      BY <2>1, <2>3 DEF Typed
    <3> QED
      BY <1>4, <2>2, <3>1 DEF ChainOf, Ticking
  <2>4. CASE g = act[a].gen
    <3>1. sched[g].tip = a /\ sched[g].status \in {"running", "stopping"} /\ ~sched[g].timer
      <4>1. act[a].kind = "tick" /\ act[a].gen = g
        BY <1>6, <2>4 DEF EndsTick
      <4>2. Ticking(g)
        BY <4>1 DEF Ticking
      <4> QED
        BY <1>4, <4>1, <4>2 DEF ChainOf
    <3>2. ASSUME NEW b \in Activities, act'[b].kind = "tick", act'[b].gen = g PROVE FALSE
      <4>1. act[b].kind = "tick" /\ act[b].gen = g /\ b # a
        BY <2>2, <3>2
      <4> QED
        BY <1>4, <3>1, <4>1 DEF ChainOf
    <3>3. sched'[g] = TickOver(Seen(sched[g], w), a)
      BY <1>1, <2>1, <2>4 DEF Typed
    <3>4. sched'[g].status = sched[g].status /\ sched'[g].lost = 0
          /\ (sched'[g].timer => sched[g].status = "running")
      <4>1. /\ sched'[g].status = sched[g].status
            /\ sched'[g].timer = (IF Stopped(sched[g]) THEN sched[g].timer ELSE TRUE)
            /\ sched'[g].lost = (IF ~Stopped(sched[g]) /\ sched[g].timer
                                 THEN sched[g].lost + 1 ELSE sched[g].lost)
        <5> DEFINE t == TickOver(Seen(sched[g], w), a)
        <5>1. /\ t.status = sched[g].status
              /\ t.timer = (IF Stopped(sched[g]) THEN sched[g].timer ELSE TRUE)
              /\ t.lost = (IF ~Stopped(sched[g]) /\ sched[g].timer
                           THEN sched[g].lost + 1 ELSE sched[g].lost)
          BY <1>4, TickOverIs
        <5> HIDE DEF t
        <5>2. sched'[g] = t
          BY <3>3 DEF t
        <5> QED
          BY <5>1, <5>2
      <4>2. sched[g].lost = 0
        BY <1>4 DEF ChainOf
      <4> QED
        BY <3>1, <4>1, <4>2 DEF Stopped
    <3> QED
      BY <3>2, <3>4 DEF ChainOf, Ticking
  <2> QED
    BY <2>3, <2>4
<1>7. CASE Rouses(a)
  <2>1. sched' = [sched EXCEPT ![act[a].gen] = Settled(sched[act[a].gen], "rouse")]
    BY <1>7 DEF Rouses
  <2>2. \A b \in Activities : act'[b].kind = "tick" => b # a /\ act[b] = act'[b]
    BY <1>7 DEF Rouses, Others
  <2>3. CASE g # act[a].gen
    <3>1. sched'[g] = sched[g]
      BY <2>1, <2>3 DEF Typed
    <3> QED
      BY <1>4, <2>2, <3>1 DEF ChainOf, Ticking
  <2>4. CASE g = act[a].gen
    <3>1. ~Ticking(g)
      BY <1>2, <1>7, <2>4 DEF Rouses
    <3>2. sched[g].status \notin {"new", "failed", "dead"}
      BY <1>7, <2>4 DEF Unborn, Rouses
    <3>3. sched'[g] = Settled(sched[g], "rouse")
      BY <1>1, <2>1, <2>4 DEF Typed
    <3>4. sched'[g].status = sched[g].status /\ sched'[g].lost = 0
          /\ (sched'[g].timer => sched[g].status = "running")
      BY <1>4, <3>2, <3>3, RousedIs DEF Stopped, ChainOf, Scheduler
    <3>5. \A b \in Activities : act'[b].kind = "tick" => act'[b].gen # g
      BY <2>2, <3>1 DEF Ticking
    <3> QED
      BY <3>4, <3>5 DEF ChainOf, Ticking
  <2> QED
    BY <2>3, <2>4
<1> QED
  BY <1>5, <1>6, <1>7 DEF Schedules

\* A scheduler is started, stopped, or loses its watcher; nothing else moves.
Lives(g) ==
    /\ UNCHANGED <<act, forked>> /\ \A h \in Gens \ {g} : sched'[h] = sched[h]
    /\ \/ /\ sched[g].status = "new" /\ sched'[g].status = "running"
          /\ ~sched[g].timer => sched'[g].lost = sched[g].lost
       \/ /\ sched[g].status = "new" /\ sched'[g].status = "failed"
          /\ sched'[g].timer = sched[g].timer /\ sched'[g].lost = sched[g].lost
          /\ sched'[g].watcher = sched[g].watcher
       \/ /\ sched[g].status = "running" /\ sched'[g].status = "stopping"
          /\ ~sched'[g].timer /\ sched'[g].lost = sched[g].lost
          /\ sched'[g].tip = sched[g].tip /\ sched'[g].wait = sched[g].tip
       \/ /\ sched[g].status = "stopping" /\ sched'[g].status = "stopped" /\ sched[g].wait = 0
          /\ sched'[g].timer = sched[g].timer /\ sched'[g].lost = sched[g].lost
       \/ Same(g) /\ ~sched'[g].watcher

\* A scheduler that starts arms a timer.
LEMMA StartIs ==
  ASSUME NEW s \in Scheduler, NEW b
  PROVE  LET r == [s EXCEPT !.status = "running"]
             q == Rescheduled(IF b THEN Watched(r) ELSE r)
         IN  q.status = "running" /\ (~s.timer => q.lost = s.lost)
  BY DEF Rescheduled, Watched, Stopped, Scheduler

\* Starting and stopping a scheduler is one of these.
LEMMA SchedulersLive ==
  ASSUME Typed, NEW g \in Gens,
         Start(g) \/ StartFails(g) \/ Stop(g) \/ StopDone(g) \/ WatcherFails(g)
  PROVE  Lives(g)
<1>1. sched \in [Gens -> Scheduler] /\ sched[g] \in Scheduler
  BY DEF Typed
<1>2. UNCHANGED <<act, forked>>
  BY DEF Start, StartFails, Stop, StopDone, WatcherFails
<1>3. \A h \in Gens \ {g} : sched'[h] = sched[h]
  BY <1>1 DEF Start, StartFails, Stop, StopDone, WatcherFails
<1>4. CASE Start(g)
  <2> DEFINE r == [sched[g] EXCEPT !.status = "running"]
             q == Rescheduled(IF Reading("state").dormant THEN Watched(r) ELSE r)
  <2>1. q.status = "running" /\ (~sched[g].timer => q.lost = sched[g].lost)
    BY <1>1, StartIs
  <2>2. sched' = [sched EXCEPT ![g] = q] /\ sched[g].status = "new"
    BY <1>4 DEF Start, MayStart
  <2> HIDE DEF q
  <2>3. sched'[g] = q
    BY <1>1, <2>2
  <2> QED
    BY <1>2, <1>3, <2>1, <2>2, <2>3 DEF Lives
<1>5. CASE StartFails(g)
  BY <1>1, <1>2, <1>3, <1>5 DEF StartFails, MayStart, Lives, Scheduler
<1>6. CASE Stop(g)
  BY <1>1, <1>2, <1>3, <1>6 DEF Stop, Lives, Scheduler
<1>7. CASE StopDone(g)
  BY <1>1, <1>2, <1>3, <1>7 DEF StopDone, Lives, Scheduler
<1>8. CASE WatcherFails(g)
  BY <1>1, <1>2, <1>3, <1>8 DEF WatcherFails, Lives, Same, Scheduler
<1> QED
  BY <1>4, <1>5, <1>6, <1>7, <1>8

\* Starting and stopping schedules nothing for a scheduler that is not started.
LEMMA LivesIsUnborn ==
  ASSUME Typed, Unborn, NEW g \in Gens, Lives(g) PROVE Unborn'
<1> SUFFICES ASSUME NEW h \in Gens, sched'[h].status \in {"new", "failed", "dead"}
    PROVE  /\ ~sched'[h].timer /\ sched'[h].lost = 0 /\ ~sched'[h].watcher
           /\ \A b \in Activities : act'[b].kind \in {"tick", "signal"} => act'[b].gen # h
  BY DEF Unborn
<1>1. act' = act
  BY DEF Lives
<1>2. CASE h # g
  BY <1>1, <1>2 DEF Lives, Unborn
<1>3. CASE h = g
  BY <1>1, <1>3 DEF Lives, Unborn, Same
<1> QED
  BY <1>2, <1>3

\* Starting and stopping keeps the chains: stop() awaits the tick and clears the timer.
LEMMA LivesIsChained ==
  ASSUME Typed, Unborn, Chained, NEW g \in Gens, Lives(g) PROVE Chained'
<1>1. SUFFICES ASSUME ~forked, NEW h \in Gens, ChainOf(h) PROVE ChainOf(h)'
  BY DEF Chained, Lives
<1>2. act' = act
  BY DEF Lives
<1>3. Ticking(h)' = Ticking(h)
  BY <1>2 DEF Ticking
<1>4. CASE h # g
  <2>1. sched'[h] = sched[h]
    BY <1>4 DEF Lives
  <2> QED
    BY <1>1, <1>2, <1>3, <2>1 DEF ChainOf
<1>5. CASE h = g
  <2>1. CASE sched[g].status = "new"
    <3>1. ~sched[g].timer /\ sched[g].lost = 0 /\ ~Ticking(g)
      BY <2>1 DEF Unborn, Ticking
    <3>2. \A b \in Activities : act'[b].kind = "tick" => act'[b].gen # g
      BY <1>2, <3>1 DEF Ticking
    <3> QED
      BY <1>3, <1>5, <2>1, <3>1, <3>2 DEF Lives, Same, ChainOf
  <2>2. CASE sched[g].status = "running" /\ sched'[g].status = "stopping"
    BY <1>1, <1>2, <1>3, <1>5, <2>2 DEF Lives, Same, ChainOf
  <2>3. CASE sched[g].status = "stopping" /\ sched'[g].status = "stopped"
    <3>1. \A b \in Activities : act[b].kind = "tick" => act[b].gen # g
      BY <1>1, <1>5, <2>3, SlotsAndGens DEF Lives, Same, ChainOf
    <3> QED
      BY <1>1, <1>2, <1>3, <1>5, <2>3, <3>1 DEF Lives, Same, ChainOf
  <2>4. CASE Same(g)
    BY <1>1, <1>2, <1>3, <1>5, <2>4 DEF Same, ChainOf
  <2> QED
    BY <2>1, <2>2, <2>3, <2>4 DEF Lives
<1> QED
  BY <1>4, <1>5

\* A timer runs out, and its tick begins.
LEMMA TimerIsUnborn ==
  ASSUME Typed, OnCourse, Unborn, NEW g \in Gens, NEW a \in Activities, TimerFires(g, a)
  PROVE  Unborn'
<1>1. PICK n \in Nat :
        /\ n = sched[g].lost \/ (n = sched[g].lost - 1 /\ sched[g].lost > 0)
        /\ sched[g].timer \/ sched[g].lost > 0
        /\ sched' = [sched EXCEPT ![g] = [sched[g] EXCEPT !.timer = FALSE, !.tip = a, !.lost = n]]
  BY TimerFiresIs
<1>2. /\ \A b \in Activities \ {a} : act'[b] = act[b]
      /\ act'[a].kind = "tick" /\ act'[a].gen = g
  BY BeginsMoves DEF TimerFires
<1>3. sched[g].status \notin {"new", "failed", "dead"}
  BY <1>1 DEF Unborn
<1>4. sched'[g].status = sched[g].status /\ \A h \in Gens \ {g} : sched'[h] = sched[h]
  BY <1>1 DEF Typed, Scheduler
<1> QED
  BY <1>2, <1>3, <1>4 DEF Unborn

\* The timer that runs out becomes the tick of the chain.
LEMMA TimerIsChained ==
  ASSUME Typed, OnCourse, Unborn, Chained, NEW g \in Gens, NEW a \in Activities, TimerFires(g,
         a)
  PROVE  Chained'
<1>1. SUFFICES ASSUME ~forked, NEW h \in Gens, ChainOf(h), ChainOf(g) PROVE ChainOf(h)'
  BY DEF Chained, TimerFires
<1>2. PICK n \in Nat :
        /\ n = sched[g].lost \/ (n = sched[g].lost - 1 /\ sched[g].lost > 0)
        /\ sched[g].timer \/ sched[g].lost > 0
        /\ sched' = [sched EXCEPT ![g] = [sched[g] EXCEPT !.timer = FALSE, !.tip = a, !.lost = n]]
  BY TimerFiresIs
<1>3. /\ \A b \in Activities \ {a} : act'[b] = act[b]
      /\ act'[a].kind = "tick" /\ act'[a].gen = g
  BY BeginsMoves DEF TimerFires
<1>4. CASE h # g
  <2>1. sched'[h] = sched[h]
    BY <1>2, <1>4 DEF Typed
  <2>2. \A b \in Activities : act'[b].kind = "tick" /\ act'[b].gen = h => act[b].kind = "tick" /\ act[b].gen = h
    BY <1>3, <1>4
  <2> QED
    BY <1>1, <2>1, <2>2 DEF ChainOf, Ticking
<1>5. CASE h = g
  <2>1. sched[g].lost = 0 /\ sched[g].timer /\ sched[g].status = "running" /\ ~Ticking(g)
    BY <1>1, <1>2 DEF ChainOf
  <2>2. sched'[g].lost = 0 /\ ~sched'[g].timer /\ sched'[g].status = "running" /\ sched'[g].tip = a
    BY <1>2, <2>1 DEF Typed, Scheduler
  <2>3. \A b \in Activities : act'[b].kind = "tick" /\ act'[b].gen = g => b = a
    BY <1>3, <2>1 DEF Ticking
  <2> QED
    BY <1>5, <2>2, <2>3 DEF ChainOf
<1> QED
  BY <1>4, <1>5

\* Another kind of activity begins.
LEMMA BeginsIsUnborn ==
  ASSUME Typed, OnCourse, Unborn, NEW a \in Activities, NEW k, NEW g, NEW p, NEW c,
         Begins(a, k, g, p, c), UNCHANGED sched, k # "tick",
         k = "signal" => sched[g].status \notin {"new", "failed", "dead"}
  PROVE  Unborn'
<1>1. /\ \A b \in Activities \ {a} : act'[b] = act[b]
      /\ act'[a].kind = k /\ act'[a].gen = g
  BY BeginsMoves
<1> QED
  BY <1>1 DEF Unborn

\* What is not a tick is no part of a chain.
LEMMA BeginsIsChained ==
  ASSUME Typed, OnCourse, Chained, NEW a \in Activities, NEW k, NEW g, NEW p, NEW c,
         Begins(a, k, g, p, c), UNCHANGED <<sched, forked>>, k # "tick"
  PROVE  Chained'
<1>1. /\ \A b \in Activities \ {a} : act'[b] = act[b]
      /\ act'[a].kind = k /\ act'[a].gen = g
  BY BeginsMoves
<1>2. \A h \in Gens, b \in Activities : act'[b].kind = "tick" /\ act'[b].gen = h =>
          act[b].kind = "tick" /\ act[b].gen = h
  BY <1>1
<1> QED
  BY <1>2 DEF Chained, ChainOf, Ticking

\* Every step keeps the chains.
LEMMA NextIsChained ==
  ASSUME Typed, OnCourse, Unborn, Chained, [Next]_vars PROVE Unborn' /\ Chained'
<1>1. CASE \E g \in Gens : Start(g) \/ StartFails(g) \/ Stop(g) \/ StopDone(g) \/ WatcherFails(g)
  BY <1>1, SchedulersLive, LivesIsUnborn, LivesIsChained
<1>2. ASSUME NEW g \in Gens, NEW a \in Activities, TimerFires(g, a) PROVE Unborn' /\ Chained'
  BY <1>2, TimerIsUnborn, TimerIsChained
<1>3. ASSUME NEW g \in Gens, NEW a \in Activities, Signal(g, a) PROVE Unborn' /\ Chained'
  <2>1. sched[g].status \notin {"new", "failed", "dead"}
    BY <1>3 DEF Signal, Unborn
  <2> QED
    BY <1>3, <2>1, BeginsIsUnborn, BeginsIsChained DEF Signal
<1>4. ASSUME NEW g \in Gens, NEW a \in Activities, Rerun(g, a) PROVE Unborn' /\ Chained'
  BY <1>4, BeginsIsUnborn, BeginsIsChained DEF Rerun
<1>5. ASSUME NEW a \in Activities, Edit(a) PROVE Unborn' /\ Chained'
  <2>1. PICK c \in 1..used.cycles, kind \in {"apply", "archive"} :
          Begins(a, kind, 1, IF kind = "apply" THEN <<"applying", "apply">> ELSE <<"archive">>, c)
    BY <1>5 DEF Edit
  <2>2. kind # "tick" /\ kind # "signal"
    OBVIOUS
  <2> QED
    BY <1>5, <2>1, <2>2, BeginsIsUnborn, BeginsIsChained DEF Edit
<1>6. ASSUME NEW a \in Activities, Step(a) \/ Fault(a) PROVE Unborn' /\ Chained'
  <2>1. Schedules(a)
    BY <1>6, StepSchedules, FaultSchedules
  <2>2. Others(a) /\ act[a].todo # <<>>
    BY <1>6, StepMoves, FaultMoves DEF Moved, Others
  <2>3. act[a].kind # "idle"
    BY <2>2, OpIs DEF Does
  <2> QED
    BY <2>1, <2>2, <2>3, SchedulesIsUnborn, SchedulesIsChained
<1>7. CASE Crash
  <2>1. \A b \in Activities : act'[b].kind = "idle"
    BY <1>7 DEF Crash, IdleActivity
  <2>2. \A g \in Gens : \/ sched'[g] = sched[g] /\ sched[g].status = "new"
                        \/ /\ sched'[g].status = "dead" /\ ~sched'[g].timer /\ sched'[g].lost = 0
                           /\ ~sched'[g].watcher
    BY <1>7 DEF Crash, NewScheduler
  <2>3. Unborn'
    BY <2>1, <2>2 DEF Unborn
  <2>4. Chained'
    <3>1. forked' = forked
      BY <1>7 DEF Crash
    <3>2. ASSUME NEW g \in Gens PROVE sched'[g].lost = 0 /\ ~sched'[g].timer
      BY <2>2 DEF Unborn
    <3> QED
      BY <2>1, <3>2 DEF Chained, ChainOf
  <2> QED
    BY <2>3, <2>4
<1>8. CASE CooldownEnds
  <2>1. UNCHANGED <<sched, forked>>
    BY <1>8 DEF CooldownEnds
  <2>2. \A b \in Activities : act'[b].kind = act[b].kind /\ act'[b].gen = act[b].gen
    BY <1>8, CooldownMoves
  <2> QED
    BY <2>1, <2>2 DEF Unborn, Chained, ChainOf, Ticking
<1>9. CASE UNCHANGED vars
  BY <1>9 DEF vars, Unborn, Chained, ChainOf, Ticking
<1> QED
  BY <1>1, <1>2, <1>3, <1>4, <1>5, <1>6, <1>7, <1>8, <1>9 DEF Next

\* There is no fire and no chain at first.
LEMMA InitIsLone == Init => Lone /\ Unborn /\ Chained
<1> SUFFICES ASSUME Init PROVE Lone /\ Unborn /\ Chained
  OBVIOUS
<1>1. /\ \A a \in Activities : act[a].kind = "idle"
      /\ \A g \in Gens : sched[g] = NewScheduler
      /\ ~lock /\ ~abandoned
  BY DEF Init, IdleActivity
<1> QED
  BY <1>1 DEF Lone, Fires, Unborn, Chained, ChainOf, Ticking, NewScheduler

Sequenced == Typed /\ OnCourse /\ Lone /\ Unborn /\ Chained

\* The order of ticks and fires is an invariant of the specification.
LEMMA SpecIsSequenced == Spec => []Sequenced
<1>1. Init => Lone /\ Unborn /\ Chained
  BY InitIsLone
<1>2. Typed /\ OnCourse /\ Lone /\ Unborn /\ Chained /\ [Next]_vars => (Lone /\ Unborn /\ Chained)'
  BY NextIsLone, NextIsChained
<1>3. Spec => [](Typed /\ OnCourse)
  BY SpecIsTyped, PTL
<1>4. Typed /\ OnCourse /\ (Lone /\ Unborn /\ Chained) => Sequenced
  BY DEF Sequenced
<1>5. Spec => [](Lone /\ Unborn /\ Chained)
  BY <1>1, <1>2, <1>3, PTL DEF Spec
<1> QED
  BY <1>3, <1>4, <1>5, PTL

\* At any time at most one fire is under way and it has the lock, whatever the number of timers,
\* schedulers, reruns and crashes; and a stopped scheduler neither ticks nor has a timer left,
\* as long as no signal came during a tick.
THEOREM FiresAreAloneHolds == Spec => []FiresAreAlone
<1>1. Sequenced => FiresAreAlone
  BY LoneIsOne, ChainStops DEF Sequenced, FiresAreAlone
<1> QED
  BY <1>1, SpecIsSequenced, PTL

-----------------------------------------------------------------------------
(* Who works beside whom. *)

Working(a) == act[a].kind \notin {"idle", "signal"}

\* Whoever works beside another is a tick, like the other.
Apart ==
    ~beside => \A a, b \in Activities :
        Working(a) /\ Working(b) /\ a # b => act[a].kind = "tick" /\ act[b].kind = "tick"

\* A scheduler is started when those before it have stopped, failed or died.
Ordered ==
    \A g, h \in Gens : g < h /\ sched[h].status # "new" =>
        sched[g].status \in {"stopped", "failed", "dead"}

\* One activity at most works, a tick or another one.
OneWorker == ~beside /\ ~forked => \A a, b \in Activities : Working(a) /\ Working(b) => a = b

\* The schedulers together have one tick at most.
LEMMA OneTick ==
  ASSUME Typed, Chained, Ordered, ~forked, NEW a \in Activities, NEW b \in Activities,
         act[a].kind = "tick", act[b].kind = "tick"
  PROVE  a = b
<1>1. act[a].gen \in Gens /\ act[b].gen \in Gens /\ \A g \in Gens : ChainOf(g)
  BY DEF Typed, Activity, Chained
<1>2. /\ sched[act[a].gen].tip = a /\ sched[act[a].gen].status \in {"running", "stopping"}
      /\ sched[act[b].gen].tip = b /\ sched[act[b].gen].status \in {"running", "stopping"}
  BY <1>1 DEF ChainOf
<1>3. ~(act[a].gen < act[b].gen) /\ ~(act[b].gen < act[a].gen)
  BY <1>1, <1>2 DEF Ordered
<1>4. act[a].gen = act[b].gen
  <2>1. act[a].gen \in Nat /\ act[b].gen \in Nat
    BY <1>1, SlotsAndGens
  <2> QED
    BY <1>3, <2>1
<1> QED
  BY <1>2, <1>4

\* Who works, works alone.
LEMMA WorksAlone == Typed /\ Chained /\ Ordered /\ Apart => OneWorker
  BY OneTick DEF Apart, OneWorker

\* The schedulers keep their statuses.
LEMMA SameIsOrdered ==
  ASSUME Ordered, \A g \in Gens : sched'[g].status = sched[g].status PROVE Ordered'
  BY DEF Ordered

\* Nobody begins.
LEMMA StepIsApart ==
  ASSUME Apart, beside' = beside,
         \A b \in Activities : act'[b].kind = act[b].kind \/ act'[b].kind = "idle"
  PROVE  Apart'
  BY DEF Apart, Working

\* Who begins beside another is noted.
LEMMA BeginsIsApart ==
  ASSUME Typed, OnCourse, Apart, NEW a \in Activities, NEW k, NEW g, NEW p, NEW c, Begins(a, k,
         g, p, c)
  PROVE  Apart'
<1>1. /\ \A b \in Activities \ {a} : act'[b] = act[b]
      /\ act'[a].kind = k
  BY BeginsMoves
<1>2. SUFFICES ASSUME ~beside' PROVE Apart'
  BY DEF Apart
<1>3. ~beside /\ ~Overlaps(k)
  BY <1>2 DEF Begins
<1>4. ASSUME NEW b \in Activities \ {a}, k \notin {"idle", "signal"}, Working(b)
      PROVE  k = "tick" /\ act[b].kind = "tick"
  <2>1. {k, act[b].kind} \cap {"idle", "signal"} = {}
    BY <1>4 DEF Working
  <2>2. {k, act[b].kind} = {"tick"}
    BY <1>3, <2>1 DEF Overlaps
  <2> QED
    BY <2>2
<1> QED
  BY <1>1, <1>3, <1>4 DEF Apart, Working

\* What the step of an activity leaves of the order of the schedulers.
LEMMA SchedulesStatus ==
  ASSUME Typed, NEW a \in Activities, Schedules(a)
  PROVE  \A g \in Gens : sched'[g].status = sched[g].status
<1>1. act[a].gen \in Gens /\ sched[act[a].gen] \in Scheduler
  BY DEF Typed, Activity
<1>2. CASE Continues(a)
  BY <1>2 DEF Continues, Same
<1>3. CASE EndsTick(a)
  <2>1. PICK w \in BOOLEAN : sched' = [sched EXCEPT ![act[a].gen] =
           TickOver(Seen(sched[act[a].gen], w), a)]
    BY <1>3 DEF EndsTick
  <2>2. TickOver(Seen(sched[act[a].gen], w), a).status = sched[act[a].gen].status
    BY <1>1, TickOverIs
  <2> QED
    BY <1>1, <2>1, <2>2 DEF Typed
<1>4. CASE Rouses(a)
  <2> DEFINE t == Settled(sched[act[a].gen], "rouse")
  <2>1. t.status = sched[act[a].gen].status
    BY <1>1, RousedIs
  <2>2. sched' = [sched EXCEPT ![act[a].gen] = t]
    BY <1>4 DEF Rouses
  <2> HIDE DEF t
  <2> QED
    BY <1>1, <2>1, <2>2 DEF Typed
<1> QED
  BY <1>2, <1>3, <1>4 DEF Schedules

\* A scheduler starts after those before it.
LEMMA StartIsOrdered ==
  ASSUME Typed, Ordered, NEW g \in Gens,
         Start(g) \/ StartFails(g) \/ Stop(g) \/ StopDone(g) \/ WatcherFails(g)
  PROVE  Ordered'
<1>1. Lives(g) /\ Gens \subseteq Nat
  BY SchedulersLive, SlotsAndGens
<1>2. SUFFICES ASSUME NEW e \in Gens, NEW h \in Gens, e < h, sched'[h].status # "new"
      PROVE  sched'[e].status \in {"stopped", "failed", "dead"}
  BY DEF Ordered
<1>3. CASE sched[h].status # "new"
  <2>1. sched[e].status \in {"stopped", "failed", "dead"}
    BY <1>2, <1>3 DEF Ordered
  <2>2. CASE e # g
    BY <1>1, <2>1, <2>2 DEF Lives
  <2>3. CASE e = g
    BY <1>1, <2>1, <2>3 DEF Lives, Same
  <2> QED
    BY <2>2, <2>3
<1>4. CASE sched[h].status = "new"
  <2>1. h = g
    BY <1>1, <1>2, <1>4 DEF Lives
  <2>2. MayStart(g)
    <3>1. ~Stop(g) /\ ~StopDone(g)
      BY <1>4, <2>1 DEF Stop, StopDone
    <3>2. ASSUME WatcherFails(g) PROVE FALSE
      <4>1. sched'[g].status = sched[g].status
        BY <3>2 DEF WatcherFails, Typed, Scheduler
      <4> QED
        BY <1>2, <1>4, <2>1, <4>1
    <3> QED
      BY <3>1, <3>2 DEF Start, StartFails
  <2>3. g > 1 /\ g - 1 \in Gens /\ e # g
    BY <1>1, <1>2, <2>1, DiscoveryAssumption DEF Gens
  <2>4. sched[g - 1].status \in {"stopped", "failed", "dead"}
    BY <2>2, <2>3 DEF MayStart
  <2>5. sched[e].status \in {"stopped", "failed", "dead"}
    <3>1. CASE e = g - 1
      BY <2>4, <3>1
    <3>2. CASE e # g - 1
      <4>1. e < g - 1
        BY <1>1, <1>2, <2>1, <3>2
      <4> QED
        BY <2>3, <2>4, <4>1 DEF Ordered
    <3> QED
      BY <3>1, <3>2
  <2> QED
    BY <1>1, <2>3, <2>5 DEF Lives
<1> QED
  BY <1>3, <1>4

\* Every step keeps the order of the schedulers and who works beside whom.
LEMMA NextIsOrdered ==
  ASSUME Typed, OnCourse, Apart, Ordered, [Next]_vars PROVE Apart' /\ Ordered'
<1>1. CASE \E g \in Gens : Start(g) \/ StartFails(g) \/ Stop(g) \/ StopDone(g) \/ WatcherFails(g)
  <2>1. UNCHANGED <<act, beside>>
    BY <1>1 DEF Start, StartFails, Stop, StopDone, WatcherFails
  <2> QED
    BY <1>1, <2>1, StartIsOrdered, StepIsApart
<1>2. ASSUME NEW g \in Gens, NEW a \in Activities, TimerFires(g, a) PROVE Apart' /\ Ordered'
  <2>1. PICK n \in Nat :
          /\ n = sched[g].lost \/ (n = sched[g].lost - 1 /\ sched[g].lost > 0)
          /\ sched[g].timer \/ sched[g].lost > 0
          /\ sched' = [sched EXCEPT ![g] = [sched[g] EXCEPT !.timer = FALSE, !.tip = a, !.lost = n]]
    BY <1>2, TimerFiresIs
  <2>2. \A h \in Gens : sched'[h].status = sched[h].status
    BY <2>1 DEF Typed, Scheduler
  <2> QED
    BY <1>2, <2>2, BeginsIsApart, SameIsOrdered DEF TimerFires
<1>3. ASSUME NEW g \in Gens, NEW a \in Activities, Signal(g, a) \/ Rerun(g, a)
      PROVE  Apart' /\ Ordered'
  <2>1. UNCHANGED sched
    BY <1>3 DEF Signal, Rerun
  <2>2. \E k, p : Begins(a, k, g, p, NoCycle)
    BY <1>3 DEF Signal, Rerun
  <2> QED
    BY <2>1, <2>2, BeginsIsApart, SameIsOrdered
<1>4. ASSUME NEW a \in Activities, Edit(a) PROVE Apart' /\ Ordered'
  <2>1. UNCHANGED sched /\ \E k, p, c : Begins(a, k, 1, p, c)
    BY <1>4 DEF Edit
  <2> QED
    BY <2>1, BeginsIsApart, SameIsOrdered
<1>5. ASSUME NEW a \in Activities, Step(a) \/ Fault(a) PROVE Apart' /\ Ordered'
  <2>1. Schedules(a)
    BY <1>5, StepSchedules, FaultSchedules
  <2>2. \A b \in Activities : act'[b].kind = act[b].kind \/ act'[b].kind = "idle"
    <3>1. CASE Step(a)
      <4>1. Moved(a)
        BY <3>1, StepMoves
      <4> QED
        BY <4>1 DEF Moved, IdleActivity
    <3>2. CASE Fault(a)
      <4>1. /\ \A b \in Activities \ {a} : act'[b] = act[b]
            /\ act'[a] = IdleActivity \/ act'[a].kind = act[a].kind
        BY <3>2, FaultMoves
      <4> QED
        BY <4>1 DEF IdleActivity
    <3> QED
      BY <1>5, <3>1, <3>2
  <2>3. beside' = beside
    BY <1>5 DEF Step, Reads, Disposes, Opens, Writes, Gates, Acquire, Load, Discover, Workspace, Prepare,
       Execute, Rest, Release, Apply, Fault
  <2> QED
    BY <2>1, <2>2, <2>3, SchedulesStatus, SameIsOrdered, StepIsApart
<1>6. CASE Crash
  <2>1. \A b \in Activities : act'[b].kind = "idle"
    BY <1>6 DEF Crash, IdleActivity
  <2>2. \A g \in Gens : sched'[g].status = IF sched[g].status = "new" THEN "new" ELSE "dead"
    BY <1>6 DEF Crash, NewScheduler
  <2>3. Ordered'
    BY <2>2 DEF Ordered
  <2> QED
    BY <1>6, <2>1, <2>3, StepIsApart DEF Crash
<1>7. CASE CooldownEnds
  <2>1. UNCHANGED <<sched, beside>>
    BY <1>7 DEF CooldownEnds
  <2> QED
    BY <1>7, <2>1, CooldownMoves, SameIsOrdered, StepIsApart
<1>8. CASE UNCHANGED vars
  BY <1>8, SameIsOrdered, StepIsApart DEF vars
<1> QED
  BY <1>1, <1>2, <1>3, <1>4, <1>5, <1>6, <1>7, <1>8 DEF Next

-----------------------------------------------------------------------------
(* Who holds a file's content. *)

Holds(a, f) == act[a].held # Nothing /\ FileOf(Op(a)) = f

\* A file is rewritten by one activity at a time, as long as no update is lost.
Alone ==
    ~spoiled => \A a, b \in Activities, f \in {"state", "index"} : Holds(a, f) /\ Holds(b, f) => a = b

\* An activity takes what a file holds and changes it.
TakesOp(a, op) ==
    /\ Does(a, op) /\ act[a].held = Nothing
    /\ Changes(op, act[a].cycle, Reading(FileOf(op)))
    /\ act' = [act EXCEPT ![a].held = Changed(op, act[a].cycle, Reading(FileOf(op)))]
    /\ real' = [real EXCEPT !.cooling = real.cooling \/ op = "completed"]
    /\ UNCHANGED <<disk, dirs>>
    /\ ~spoiled' => /\ disk[FileOf(op)] # Torn
                    /\ \A b \in Activities \ {a} : ~Holds(b, FileOf(op))

Takes(a) == \E op \in Updates : TakesOp(a, op)

\* It does something else than an update, or finds nothing to update.
Passes(a) ==
    /\ UNCHANGED <<disk, real>> /\ act[a].held = Nothing /\ act'[a].held = Nothing

\* What is no update holds nothing.
LEMMA NoneHeld ==
  ASSUME Typed, OnCourse, NEW a \in Activities, NEW op, op \in OtherOps, Does(a, op)
  PROVE  act[a].held = Nothing /\ ~act[a].opened /\ op \notin Updates
<1>1. op \notin Updates
  BY DEF OtherOps, Updates, StateOps, IndexOps
<1>2. act[a].held = Nothing
  BY <1>1, OpIs
<1> QED
  BY <1>1, <1>2 DEF OnCourse, Course

\* Who is done with an operation holds nothing.
LEMMA LeftHolds == \A r \in Activity : Left(r).held = Nothing /\ ~Left(r).opened
<1> TAKE r \in Activity
<1> DEFINE t == Tail(r.todo)
<1>1. CASE t = <<>>
  BY <1>1 DEF Left, IdleActivity
<1>2. CASE t # <<>>
  <2>1. Left(r) = [r EXCEPT !.todo = t, !.held = Nothing, !.opened = FALSE]
    BY <1>2 DEF Left
  <2> HIDE DEF t
  <2> QED
    BY <2>1 DEF Activity
<1> QED
  BY <1>1, <1>2

\* A read that finds something to update takes it; one that finds nothing passes.
LEMMA ReadsHolds ==
  ASSUME Typed, OnCourse, NEW a \in Activities, Reads(a) PROVE Takes(a) \/ Passes(a)
<1>1. PICK op \in Updates :
        /\ Does(a, op) /\ act[a].held = Nothing
        /\ spoiled' = (spoiled \/ disk[FileOf(op)] = Torn
              \/ \E b \in Activities \ {a} : act[b].held # Nothing /\ FileOf(Head(act[b].todo)) = FileOf(op))
        /\ \/ /\ Changes(op, act[a].cycle, Reading(FileOf(op)))
              /\ act' = [act EXCEPT ![a].held = Changed(op, act[a].cycle, Reading(FileOf(op)))]
              /\ real' = [real EXCEPT !.cooling = real.cooling \/ op = "completed"]
           \/ /\ ~Changes(op, act[a].cycle, Reading(FileOf(op))) \/ (op = "addPlan" /\ act[a].kind = "rerun")
              /\ IF op = "applying"
                   THEN act' = [act EXCEPT ![a] = IdleActivity] /\ UNCHANGED <<sched, real, forked>>
                   ELSE Finishes(a, op)
        /\ UNCHANGED <<disk, lock, dirs, beside, used>>
  BY DEF Reads
<1>2. CASE /\ Changes(op, act[a].cycle, Reading(FileOf(op)))
           /\ act' = [act EXCEPT ![a].held = Changed(op, act[a].cycle, Reading(FileOf(op)))]
           /\ real' = [real EXCEPT !.cooling = real.cooling \/ op = "completed"]
  <2>1. ~spoiled' => /\ disk[FileOf(op)] # Torn
                     /\ \A b \in Activities \ {a} : ~Holds(b, FileOf(op))
    BY <1>1 DEF Holds, Op
  <2>2. TakesOp(a, op)
    BY <1>1, <1>2, <2>1 DEF TakesOp
  <2> QED
    BY <2>2 DEF Takes
<1>3. CASE op = "applying" /\ act' = [act EXCEPT ![a] = IdleActivity] /\ UNCHANGED real
  <2>1. act'[a].held = Nothing
    BY <1>3 DEF Typed, IdleActivity
  <2> QED
    BY <1>1, <1>3, <2>1 DEF Passes
<1>4. CASE /\ ~Changes(op, act[a].cycle, Reading(FileOf(op))) \/ op = "addPlan"
           /\ Finishes(a, op)
  <2>1. op # "started" /\ op # "dormant"
    BY <1>4 DEF Changes
  <2>2. real' = [real EXCEPT !.fires = real.fires, !.asleep = real.asleep]
    BY <1>4, <2>1 DEF Finishes, Typed
  <2>3. real' = real
    BY <2>2 DEF Typed
  <2>4. act'[a] = Left(act[a]) /\ act[a] \in Activity
    BY <1>4 DEF Finishes, Typed
  <2> QED
    BY <1>1, <2>3, <2>4, LeftHolds DEF Passes
<1> QED
  BY <1>1, <1>2, <1>3, <1>4

\* Every step of an activity takes a content, opens a file, writes it, or passes.
LEMMA StepHolds ==
  ASSUME Typed, OnCourse, NEW a \in Activities, Step(a)
  PROVE  Takes(a) \/ Disposes(a) \/ Opens(a) \/ Writes(a) \/ Passes(a)
<1>1. CASE Reads(a)
  BY <1>1, ReadsHolds
<1>2. CASE Disposes(a) \/ Opens(a) \/ Writes(a)
  BY <1>2
<1>3. ASSUME NEW op, op \in OtherOps, Does(a, op), UNCHANGED <<disk, real>>,
             act'[a].held = Nothing
      PROVE  Passes(a)
  BY <1>3, NoneHeld DEF Passes
<1>4. ASSUME NEW p, Proceeds(a, p) PROVE act'[a].held = act[a].held
  BY <1>4 DEF Proceeds, Typed, Activity
<1>5. ASSUME act' = [act EXCEPT ![a] = IdleActivity] PROVE act'[a].held = Nothing
  BY <1>5 DEF Typed, IdleActivity
<1>6. ASSUME Reuses(a) PROVE act'[a].held = act[a].held
  BY <1>6 DEF Reuses, Typed, Activity
<1>7. \A op \in OtherOps : Does(a, op) => act[a].held = Nothing
  BY NoneHeld
<1>8. CASE Gates(a)
  <2>1. "gates" \in OtherOps
    BY DEF OtherOps
  <2>2. act'[a].held = Nothing
    BY <1>4, <1>5, <1>7, <1>8, <2>1 DEF Gates
  <2> QED
    BY <1>3, <1>8, <2>1, <2>2 DEF Gates
<1>9. CASE Acquire(a)
  <2>1. "acquire" \in OtherOps
    BY DEF OtherOps
  <2>2. act'[a].held = Nothing
    BY <1>4, <1>5, <1>7, <1>9, <2>1 DEF Acquire, TickEnds
  <2> QED
    BY <1>3, <1>9, <2>1, <2>2 DEF Acquire
<1>10. CASE Load(a)
  <2>1. "load" \in OtherOps
    BY DEF OtherOps
  <2>2. act' = [act EXCEPT ![a] = [act[a] EXCEPT !.todo = Tail(act[a].todo),
                                                !.seen = Reading("state").active]]
    BY <1>10 DEF Load
  <2>3. act'[a].held = Nothing
    BY <1>7, <1>10, <2>1, <2>2 DEF Load, Typed, Activity
  <2> QED
    BY <1>3, <1>10, <2>1, <2>3 DEF Load
<1>11. CASE Discover(a)
  <2>1. "discover" \in OtherOps
    BY DEF OtherOps
  <2> QED
    BY <1>3, <1>4, <1>7, <1>11, <2>1 DEF Discover
<1>12. CASE Workspace(a)
  <2>1. "workspace" \in OtherOps
    BY DEF OtherOps
  <2> QED
    BY <1>3, <1>4, <1>6, <1>7, <1>12, <2>1 DEF Workspace
<1>13. CASE Prepare(a)
  <2>1. "prepare" \in OtherOps
    BY DEF OtherOps
  <2>2. act'[a].held = act[a].held
    <3>1. CASE Reuses(a)
      BY <1>6, <3>1
    <3>2. CASE act' = [act EXCEPT ![a] = [act[a] EXCEPT !.cycle = used.cycles + 1,
            !.todo = <<"create", "activate", "addPlan", "execute", "completed">> \o Released(a)]]
      BY <3>2 DEF Typed, Activity
    <3> QED
      BY <1>13, <3>1, <3>2 DEF Prepare
  <2> QED
    BY <1>3, <1>7, <1>13, <2>1, <2>2 DEF Prepare
<1>14. CASE Execute(a)
  <2>1. "execute" \in OtherOps
    BY DEF OtherOps
  <2> QED
    BY <1>3, <1>4, <1>7, <1>14, <2>1 DEF Execute
<1>15. CASE Rest(a)
  <2>1. "rest" \in OtherOps
    BY DEF OtherOps
  <2> QED
    BY <1>3, <1>4, <1>7, <1>15, <2>1 DEF Rest
<1>16. CASE Release(a)
  <2>1. "release" \in OtherOps
    BY DEF OtherOps
  <2>2. act'[a].held = Nothing
    BY <1>5, <1>16 DEF Release, TickEnds
  <2> QED
    BY <1>3, <1>16, <2>1, <2>2 DEF Release
<1>17. CASE Apply(a)
  <2>1. "apply" \in OtherOps
    BY DEF OtherOps
  <2> QED
    BY <1>3, <1>4, <1>7, <1>17, <2>1 DEF Apply
<1> QED
  BY <1>1, <1>2, <1>8, <1>9, <1>10, <1>11, <1>12, <1>13, <1>14, <1>15, <1>16, <1>17 DEF Step

\* What a rejection leaves behind, unless it cuts an update short.
LEMMA FaultHolds ==
  ASSUME Typed, OnCourse, NEW a \in Activities, Fault(a)
  PROVE  act'[a].held = Nothing /\ (~spoiled' => Passes(a) /\ Op(a) \notin Updates)
<1>1. act'[a].held = Nothing
  BY FaultMoves DEF IdleActivity
<1>2. ~spoiled' => Op(a) \notin Updates
  BY DEF Fault, Op
<1>3. Op(a) \notin Updates => act[a].held = Nothing
  BY DEF OnCourse, Course, Op
<1> QED
  BY <1>1, <1>2, <1>3 DEF Fault, Passes

\* Who begins holds nothing.
LEMMA BeginsHolds ==
  ASSUME Typed, OnCourse, NEW a \in Activities, NEW k, NEW g, NEW p, NEW c, Begins(a, k, g, p,
         c)
  PROVE  \A b \in Activities : \A f : Holds(b, f)' => Holds(b, f) /\ b # a
<1>1. /\ \A b \in Activities \ {a} : act'[b] = act[b]
      /\ act'[a].held = Nothing
  BY BeginsMoves
<1> QED
  BY <1>1 DEF Holds, Op

\* Nobody takes a content.
LEMMA FewerHold ==
  ASSUME Alone, spoiled => spoiled', \A b \in Activities : \A f : Holds(b, f)' => Holds(b, f)
  PROVE  Alone'
  BY DEF Alone

\* One activity drops what it held.
LEMMA OthersHold ==
  ASSUME NEW a \in Activities, Others(a), act'[a].held = Nothing
  PROVE  \A b \in Activities : \A f : Holds(b, f)' => Holds(b, f) /\ b # a
  BY DEF Others, Holds, Op

\* What is lost stays lost.
LEMMA OnceSpoiled ==
  ASSUME Typed, OnCourse, [Next]_vars
  PROVE  (spoiled => spoiled') /\ (beside => beside') /\ (forked => forked')
<1>1. ASSUME NEW a \in Activities, Step(a) PROVE (spoiled => spoiled') /\ (beside => beside')
  <2> USE DEF Typed
  <2>1. CASE Reads(a)
    BY <2>1 DEF Reads
  <2>2. CASE \/ Disposes(a) \/ Opens(a) \/ Writes(a) \/ Gates(a) \/ Acquire(a) \/ Load(a)
             \/ Discover(a)
    BY <2>2 DEF Disposes, Opens, Writes, Gates, Acquire, Load, Discover
  <2>3. CASE Workspace(a) \/ Prepare(a) \/ Execute(a) \/ Rest(a) \/ Release(a) \/ Apply(a)
    BY <2>3 DEF Workspace, Prepare, Execute, Rest, Release, Apply
  <2> QED
    BY <1>1, <2>1, <2>2, <2>3 DEF Step
<1>2. ASSUME NEW a \in Activities, Step(a) \/ Fault(a) PROVE forked => forked'
  BY <1>2, StepSchedules, FaultSchedules DEF Schedules, Continues, EndsTick, Rouses
<1>3. ASSUME NEW a \in Activities, Fault(a) PROVE (spoiled => spoiled') /\ (beside => beside')
  BY <1>3 DEF Fault, Typed
<1>4. ASSUME NEW g \in Gens,
             Start(g) \/ StartFails(g) \/ Stop(g) \/ StopDone(g) \/ WatcherFails(g)
      PROVE  UNCHANGED <<spoiled, beside, forked>>
  BY <1>4 DEF Start, StartFails, Stop, StopDone, WatcherFails
<1>5. ASSUME NEW g \in Gens, NEW a \in Activities, TimerFires(g, a) \/ Signal(g, a) \/ Rerun(g,
             a)
      PROVE  UNCHANGED <<spoiled, forked>> /\ (beside => beside')
  BY <1>5 DEF TimerFires, Signal, Rerun, Begins, Typed
<1>6. ASSUME NEW a \in Activities, Edit(a)
      PROVE  UNCHANGED <<spoiled, forked>> /\ (beside => beside')
  BY <1>6 DEF Edit, Begins, Typed
<1>7. ASSUME Crash \/ CooldownEnds \/ UNCHANGED vars
      PROVE  (spoiled => spoiled') /\ UNCHANGED <<beside, forked>>
  BY <1>7 DEF Crash, CooldownEnds, vars, Typed
<1> QED
  BY <1>1, <1>2, <1>3, <1>4, <1>5, <1>6, <1>7 DEF Next

\* Every step leaves a file's content to one activity, or loses an update.
LEMMA NextIsAlone == ASSUME Typed, OnCourse, Alone, [Next]_vars PROVE Alone'
<1>1. spoiled => spoiled'
  BY OnceSpoiled
<1>2. CASE act' = act
  BY <1>1, <1>2, FewerHold DEF Holds, Op
<1>3. ASSUME NEW a \in Activities, \E k, g, p, c : Begins(a, k, g, p, c) PROVE Alone'
  BY <1>1, <1>3, BeginsHolds, FewerHold
<1>4. ASSUME NEW a \in Activities, Step(a) PROVE Alone'
  <2>1. Others(a)
    BY <1>4, StepMoves DEF Moved, Others
  <2>2. CASE Takes(a)
    <3>1. PICK op \in Updates : TakesOp(a, op)
      BY <2>2 DEF Takes
    <3>2. SUFFICES ASSUME ~spoiled' PROVE Alone'
      BY DEF Alone
    <3>3. act'[a].todo = act[a].todo
      BY <3>1 DEF TakesOp, Typed, Activity
    <3>4. Op(a)' = op
      BY <3>1, <3>3 DEF TakesOp, Does, Op
    <3>5. \A b \in Activities \ {a} : ~Holds(b, FileOf(op)) /\ \A f : Holds(b, f)' = Holds(b, f)
      BY <2>1, <3>1, <3>2 DEF TakesOp, Others, Holds, Op
    <3> QED
      BY <1>1, <3>2, <3>4, <3>5 DEF Alone, Holds
  <2>3. CASE Disposes(a) \/ Opens(a)
    <3>1. act'[a].todo = act[a].todo /\ act'[a].held = act[a].held
      BY <2>3 DEF Disposes, Opens, Typed, Activity
    <3>2. \A b \in Activities : \A f : Holds(b, f)' = Holds(b, f)
      BY <2>1, <3>1 DEF Others, Holds, Op
    <3> QED
      BY <1>1, <3>2, FewerHold
  <2>4. CASE Writes(a)
    <3>1. act'[a] = Left(act[a]) /\ act[a] \in Activity
      BY <2>4 DEF Writes, Finishes, Typed
    <3>2. act'[a].held = Nothing
      BY <3>1, LeftHolds
    <3> QED
      BY <1>1, <2>1, <3>2, OthersHold, FewerHold
  <2>5. CASE Passes(a)
    BY <1>1, <2>1, <2>5, OthersHold, FewerHold DEF Passes
  <2> QED
    BY <1>4, <2>2, <2>3, <2>4, <2>5, StepHolds
<1>5. ASSUME NEW a \in Activities, Fault(a) PROVE Alone'
  <2>1. Others(a) /\ act'[a].held = Nothing
    BY <1>5, FaultMoves, FaultHolds DEF Others
  <2> QED
    BY <1>1, <2>1, OthersHold, FewerHold
<1>6. CASE Crash
  <2>1. \A b \in Activities : act'[b].held = Nothing
    BY <1>6 DEF Crash, IdleActivity
  <2> QED
    BY <2>1 DEF Alone, Holds
<1>7. CASE CooldownEnds
  <2>1. \A b \in Activities : \A f : Holds(b, f)' => Holds(b, f)
    <3>1. TAKE b \in Activities
    <3>2. act'[b] = act[b] \/ (act'[b].todo = act[b].todo /\ act[b].held # Nothing)
      BY <1>7, CooldownMoves DEF CooldownEnds
    <3> QED
      BY <3>2 DEF Holds, Op
  <2> QED
    BY <1>1, <2>1, FewerHold
<1> QED
  BY <1>2, <1>3, <1>4, <1>5, <1>6, <1>7 DEF Next, Start, StartFails, Stop, StopDone,
     WatcherFails,
     TimerFires, Signal, Rerun, Edit, vars

-----------------------------------------------------------------------------
(* What the state file remembers. *)

RememberedDisk ==
    disk["state"] # Torn =>
        /\ disk["state"].count = real.fires /\ (real.asleep => disk["state"].dormant)
        /\ \/ disk["state"].cooling = real.cooling
           \/ \E a \in Activities : Holds(a, "state") /\ Op(a) = "completed"

RememberedBy(a) ==
    Holds(a, "state") =>
        /\ act[a].held.count = (IF Op(a) = "started" THEN real.fires + 1 ELSE real.fires)
        /\ act[a].held.cooling = real.cooling
        /\ real.asleep \/ Op(a) = "dormant" => act[a].held.dormant

\* Who has seen to it that the project is awake.
Awake(a) ==
    \/ act[a].kind = "signal"
    \/ act[a].kind = "tick" /\ Op(a) \notin {"gates", "rest", "release"}
    => ~real.asleep

FireIsDue == real.fires < Budget /\ ~real.cooling /\ ~real.asleep

DueAt(a) == act[a].kind = "tick" /\ Op(a) = "acquire" => FireIsDue

Remembered ==
    ~spoiled /\ ~forked /\ ~beside =>
        RememberedDisk /\ \A a \in Activities : RememberedBy(a) /\ Awake(a) /\ DueAt(a)

\* What is left to do after an operation.
LEMMA LeftFollows ==
  ASSUME Typed, OnCourse, NEW a \in Activities, act[a].kind # "idle", act'[a] = Left(act[a])
  PROVE  \/ act'[a] = IdleActivity
         \/ /\ act'[a].kind = act[a].kind /\ act'[a].cycle = act[a].cycle /\ act'[a].seen = act[a].seen
            /\ <<Op(a), Op(a)'>> \in Successions
<1>1. act[a] \in Activity /\ Sound(act[a].kind, act[a].todo)
  BY DoesSomething, OpIs
<1>2. CASE Tail(act[a].todo) = <<>>
  BY <1>2 DEF Left
<1>3. CASE Tail(act[a].todo) # <<>>
  <2>1. act'[a].kind = act[a].kind /\ act'[a].todo = Tail(act[a].todo)
    BY <1>1, <1>3, LeftGoesOn
  <2>2. <<Head(act[a].todo), Head(Tail(act[a].todo))>> \in Successions
    BY <1>1, <1>3 DEF Sound
  <2>3. Op(a)' = Head(Tail(act[a].todo)) /\ Op(a) = Head(act[a].todo)
    BY <2>1 DEF Op
  <2>4. act'[a].cycle = act[a].cycle /\ act'[a].seen = act[a].seen
    <3> DEFINE t == Tail(act[a].todo)
    <3>1. act'[a] = [act[a] EXCEPT !.todo = t, !.held = Nothing, !.opened = FALSE]
      BY <1>3 DEF Left
    <3> HIDE DEF t
    <3> QED
      BY <1>1, <3>1 DEF Activity
  <2> QED
    BY <2>1, <2>2, <2>3, <2>4
<1> QED
  BY <1>2, <1>3

\* A tick passes the gates on what the file says.
LEMMA PassesGates ==
  ASSUME Typed, OnCourse, NEW a \in Activities, Step(a), act[a].todo # <<>>, Op(a) = "gates",
         act'[a] # IdleActivity
  PROVE  GatesOpen(Reading("state")) /\ (~spoiled' => disk["state"] # Torn)
<1>1. Does(a, "gates")
  BY DEF Does, Op
<1>2. act[a].held = Nothing /\ ~act[a].opened
  BY <1>1, NoneHeld DEF OtherOps
<1>3. ~Reads(a)
  BY <1>1 DEF Reads, Does, Updates, StateOps, IndexOps
<1>4. ~Disposes(a) /\ ~Opens(a) /\ ~Writes(a)
  BY <1>2 DEF Disposes, Opens, Writes
<1>5. Gates(a)
  BY <1>1, <1>3, <1>4 DEF Step, Acquire, Load, Discover, Workspace, Prepare, Execute, Rest,
     Release,
     Apply, Does
<1>6. ~(act' = [act EXCEPT ![a] = IdleActivity])
  BY DEF Typed
<1> QED
  BY <1>5, <1>6 DEF Gates

\* The step changes neither the file nor what has happened.
LEMMA QuietDisk ==
  ASSUME RememberedDisk, disk'["state"] = disk["state"], real' = real,
         \A b \in Activities : Holds(b, "state") => Holds(b, "state")' /\ Op(b)' = Op(b)
  PROVE  RememberedDisk'
  BY DEF RememberedDisk

\* What does not concern an activity leaves its part alone.
LEMMA QuietOther ==
  ASSUME NEW b \in Activities, act'[b] = act[b], real' = real, RememberedBy(b), Awake(b),
         DueAt(b)
  PROVE  RememberedBy(b)' /\ Awake(b)' /\ DueAt(b)'
  BY DEF RememberedBy, Awake, DueAt, FireIsDue, Holds, Op

\* Nor has an activity a part that is idle, or past the gates holding nothing.
LEMMA QuietSelf ==
  ASSUME NEW a \in Activities, act'[a].held = Nothing,
         \/ act'[a].kind \notin {"tick", "signal"}
         \/ act'[a].kind = "tick" /\ Op(a)' \in {"gates", "rest", "release"}
         \/ act'[a].kind = "tick" /\ Op(a)' # "acquire" /\ ~real'.asleep
         \/ act'[a].kind = "tick" /\ FireIsDue'
         \/ act'[a].kind = "signal" /\ ~real'.asleep
  PROVE  RememberedBy(a)' /\ Awake(a)' /\ DueAt(a)'
  BY DEF RememberedBy, Awake, DueAt, FireIsDue, Holds

Recalls == RememberedDisk /\ \A a \in Activities : RememberedBy(a) /\ Awake(a) /\ DueAt(a)

\* A state in which no update has been lost, and nothing ran where it should not.
Calm == ~spoiled /\ ~forked /\ ~beside

\* Who does what.
LEMMA HoldsWorks ==
  ASSUME Typed, OnCourse, NEW b \in Activities, NEW f, Holds(b, f), Op(b) # "rouse"
  PROVE  Working(b)
<1>1. act[b] \in Activity /\ Course(act[b]) /\ act[b].held # Nothing
  BY DEF Typed, OnCourse, Holds
<1>2. Does(b, Op(b))
  BY <1>1 DEF Course, Does, Op
<1>3. act[b].kind \in Kinds \ {"idle"} /\ Op(b) \in OpsOf(act[b].kind)
  BY <1>2, OpIs
<1>4. act[b].kind # "signal"
  BY <1>3 DEF OpsOf
<1> QED
  BY <1>3, <1>4 DEF Working

\* A step that updates nothing keeps what the file remembers; past the gates, a fire is due.
LEMMA PassesRecalls ==
  ASSUME Typed, OnCourse, Recalls, OneWorker, Calm, NEW a \in Activities, Step(a), Passes(a),
         ~spoiled'
  PROVE  Recalls'
<1>1. Others(a) /\ Moved(a) /\ act[a].todo # <<>>
  BY StepMoves DEF Moved, Others
<1>2. RememberedDisk'
  <2>1. \A b \in Activities : Holds(b, "state") => b # a /\ act'[b] = act[b]
    BY <1>1 DEF Passes, Holds, Others
  <2> QED
    BY <2>1, QuietDisk DEF Passes, Recalls, Holds, Op
<1>3. ASSUME NEW b \in Activities \ {a} PROVE RememberedBy(b)' /\ Awake(b)' /\ DueAt(b)'
  BY <1>1, <1>3, QuietOther DEF Passes, Others, Recalls
<1>4. RememberedBy(a)' /\ Awake(a)' /\ DueAt(a)'
  <2>1. CASE act'[a] = IdleActivity
    BY <2>1, QuietSelf DEF IdleActivity
  <2>2. CASE act'[a] # IdleActivity /\ Op(a) = "gates" /\ act[a].kind = "tick"
    <3>1. GatesOpen(disk["state"]) /\ disk["state"] # Torn
      BY <1>1, <2>2, PassesGates DEF Reading
    <3>2. RememberedDisk
      BY DEF Recalls
    <3>3. act'[a].kind = "tick"
      BY <1>1, <2>2 DEF Moved
    <3>4. ASSUME NEW b \in Activities, Holds(b, "state"), Op(b) = "completed" PROVE FALSE
      <4>1. Working(b) /\ Working(a)
        BY <2>2, <3>4, HoldsWorks DEF Working
      <4> QED
        BY <2>2, <3>4, <4>1 DEF OneWorker, Calm
    <3>5. FireIsDue
      BY <3>1, <3>2, <3>4 DEF RememberedDisk, FireIsDue, GatesOpen
    <3>6. FireIsDue'
      BY <3>5 DEF Passes, FireIsDue
    <3> QED
      BY <3>3, <3>6, QuietSelf DEF Passes
  <2>3. CASE act'[a] # IdleActivity /\ (Op(a) # "gates" \/ act[a].kind # "tick")
    <3>1. act'[a].kind = act[a].kind /\ (Op(a)' = Op(a) \/ <<Op(a), Op(a)'>> \in Moves)
      BY <1>1, <2>3 DEF Moved
    <3>2. CASE act[a].kind = "tick"
      <4>1. CASE Op(a)' \in {"gates", "rest", "release"}
        BY <3>1, <3>2, <4>1, QuietSelf DEF Passes
      <4>2. CASE Op(a)' = "acquire"
        <5>1. Op(a) = "acquire"
          BY <2>3, <3>1, <3>2, <4>2 DEF Moves, Successions
        <5>2. FireIsDue
          BY <3>2, <5>1 DEF Recalls, DueAt
        <5> QED
          BY <3>1, <3>2, <5>2, QuietSelf DEF Passes, FireIsDue
      <4>3. CASE Op(a)' \notin {"gates", "rest", "release", "acquire"}
        <5>1. Op(a) \notin {"gates", "rest", "release"}
          BY <2>3, <3>1, <3>2, <4>3 DEF Moves, Successions
        <5>2. ~real.asleep
          BY <3>2, <5>1 DEF Recalls, Awake
        <5> QED
          BY <3>1, <3>2, <4>3, <5>2, QuietSelf DEF Passes
      <4> QED
        BY <4>1, <4>2, <4>3
    <3>3. CASE act[a].kind = "signal"
      <4>1. ~real.asleep
        BY <3>3 DEF Recalls, Awake
      <4> QED
        BY <3>1, <3>3, <4>1, QuietSelf DEF Passes
    <3>4. CASE act[a].kind \notin {"tick", "signal"}
      BY <3>1, <3>4, QuietSelf DEF Passes
    <3> QED
      BY <3>2, <3>3, <3>4
  <2> QED
    BY <2>1, <2>2, <2>3
<1> QED
  BY <1>2, <1>3, <1>4 DEF Recalls

\* A rejected operation that is no update keeps it.
LEMMA FaultRecalls ==
  ASSUME Typed, OnCourse, Recalls, OneWorker, Calm, NEW a \in Activities, Fault(a), ~spoiled'
  PROVE  Recalls'
<1>1. Passes(a) /\ Others(a)
  BY FaultHolds, FaultMoves DEF Others
<1>2. RememberedDisk'
  <2>1. \A b \in Activities : Holds(b, "state") => b # a /\ act'[b] = act[b]
    BY <1>1 DEF Passes, Holds, Others
  <2> QED
    BY <1>1, <2>1, QuietDisk DEF Passes, Recalls, Holds, Op
<1>3. ASSUME NEW b \in Activities \ {a} PROVE RememberedBy(b)' /\ Awake(b)' /\ DueAt(b)'
  BY <1>1, <1>3, QuietOther DEF Passes, Others, Recalls
<1>4. RememberedBy(a)' /\ Awake(a)' /\ DueAt(a)'
  <2>1. CASE act'[a] = IdleActivity
    BY <2>1, QuietSelf DEF IdleActivity
  <2>2. CASE act'[a] # IdleActivity
    <3>1. /\ act'[a].kind = act[a].kind /\ Op(a)' \in {"release", "completed"}
          /\ Op(a)' = "completed" => Op(a) \in {"workspace", "prepare", "create", "activate"}
      BY <2>2, FaultMoves
    <3>2. act[a].kind # "signal"
      BY DEF Fault
    <3>3. act'[a].kind = "tick" /\ Op(a)' = "completed" => ~real.asleep
      BY <3>1 DEF Recalls, Awake
    <3> QED
      BY <1>1, <3>1, <3>2, <3>3, QuietSelf DEF Passes
  <2> QED
    BY <2>1, <2>2
<1> QED
  BY <1>2, <1>3, <1>4 DEF Recalls

\* A file that is torn is remembered by who tore it.
LEMMA OpensRecalls ==
  ASSUME Typed, OnCourse, Recalls, NEW a \in Activities, Disposes(a) \/ Opens(a)
  PROVE  Recalls'
<1>1. /\ act'[a].kind = act[a].kind /\ act'[a].todo = act[a].todo /\ act'[a].held = act[a].held
      /\ Others(a) /\ real' = real
  BY DEF Disposes, Opens, Typed, Activity, Others
<1>2. \A b \in Activities : Op(b)' = Op(b) /\ (Holds(b, "state")' = Holds(b, "state"))
  BY <1>1 DEF Op, Holds, Others
<1>3. disk'["state"] = Torn \/ disk'["state"] = disk["state"]
  BY DEF Disposes, Opens, Typed
<1>4. RememberedDisk'
  <2>1. CASE disk'["state"] = Torn
    BY <2>1 DEF RememberedDisk
  <2>2. CASE disk'["state"] = disk["state"]
    BY <1>1, <1>2, <2>2, QuietDisk DEF Recalls
  <2> QED
    BY <1>3, <2>1, <2>2
<1>5. ASSUME NEW b \in Activities PROVE RememberedBy(b)' /\ Awake(b)' /\ DueAt(b)'
  <2>1. act'[b].kind = act[b].kind /\ act'[b].held = act[b].held
    BY <1>1 DEF Others
  <2>2. RememberedBy(b) /\ Awake(b) /\ DueAt(b)
    BY DEF Recalls
  <2> QED
    BY <1>1, <1>2, <2>1, <2>2 DEF RememberedBy, Awake, DueAt, FireIsDue
<1> QED
  BY <1>4, <1>5 DEF Recalls

\* Who takes the content of the state file remembers what the file did, and the update.
LEMMA TakesRecalls ==
  ASSUME Typed, OnCourse, Recalls, OneWorker, Calm, NEW a \in Activities, Takes(a), Others(a),
         ~spoiled'
  PROVE  Recalls'
<1>1. PICK op \in Updates : TakesOp(a, op)
  BY DEF Takes
<1> DEFINE x == Changed(op, act[a].cycle, Reading(FileOf(op)))
<1>2. /\ Does(a, op) /\ act[a] \in Activity /\ act[a].kind \in Kinds /\ op \in OpsOf(act[a].kind)
      /\ Op(a) = op
  BY <1>1, OpIs DEF TakesOp, Op
<1>3. /\ act'[a].held = x /\ act'[a].kind = act[a].kind /\ Op(a)' = op /\ act'[a] = [act[a] EXCEPT !.held = x]
  BY <1>1, <1>2 DEF TakesOp, Typed, Activity, Op, Does
<1>4. x # Nothing
  <2>1. FileOf(op) \in {"state", "index"}
    BY DEF FileOf
  <2>2. x \in Contents(FileOf(op))
    BY <1>2, <2>1, ReadingIsTyped, ChangedIsTyped DEF Activity
  <2> QED
    BY <2>1, <2>2, NoContentAssumption
<1>5. /\ real'.fires = real.fires /\ real'.asleep = real.asleep
      /\ real'.cooling = (real.cooling \/ op = "completed") /\ disk' = disk
      /\ disk[FileOf(op)] # Torn /\ \A b \in Activities \ {a} : ~Holds(b, FileOf(op))
  BY <1>1 DEF TakesOp, Typed
<1>6. act[a].held = Nothing /\ ~Holds(a, "state")
  BY <1>1 DEF TakesOp, Holds
<1>7. op = "completed" => Working(a)
  BY <1>2 DEF OpsOf, Working
<1> HIDE DEF x
<1>8. RememberedDisk'
  <2>1. SUFFICES ASSUME disk["state"] # Torn PROVE RememberedDisk'
    BY <1>5 DEF RememberedDisk
  <2>2. RememberedDisk
    BY DEF Recalls
  <2>3. CASE op = "completed"
    <3>1. Holds(a, "state")' /\ Op(a)' = "completed"
      BY <1>3, <1>4, <2>3 DEF Holds, FileOf, StateOps
    <3> QED
      BY <1>5, <2>1, <2>2, <3>1 DEF RememberedDisk
  <2>4. CASE op # "completed"
    <3>1. real'.cooling = real.cooling
      BY <1>5, <2>4 DEF Typed
    <3>2. \A b \in Activities : Holds(b, "state") /\ Op(b) = "completed" => (Holds(b, "state") /\ Op(b) = "completed")'
      BY <1>6 DEF Others, Holds, Op
    <3> QED
      BY <1>5, <2>1, <2>2, <3>1, <3>2 DEF RememberedDisk
  <2> QED
    BY <2>3, <2>4
<1>9. ASSUME NEW b \in Activities \ {a} PROVE RememberedBy(b)' /\ Awake(b)' /\ DueAt(b)'
  <2>1. act'[b] = act[b] /\ RememberedBy(b) /\ Awake(b) /\ DueAt(b)
    BY <1>9 DEF Others, Recalls
  <2>2. Holds(b, "state") => real'.cooling = real.cooling
    BY <1>5, <1>9 DEF FileOf, StateOps, Typed
  <2>3. act[b].kind = "tick" /\ Op(b) = "acquire" => real'.cooling = real.cooling
    <3>1. SUFFICES ASSUME act[b].kind = "tick", Op(b) = "acquire", op = "completed" PROVE FALSE
      BY <1>5 DEF Typed
    <3> QED
      BY <1>7, <1>9, <3>1 DEF OneWorker, Calm, Working
  <2> QED
    BY <1>5, <2>1, <2>2, <2>3 DEF RememberedBy, Awake, DueAt, FireIsDue, Holds, Op
<1>10. Awake(a)' /\ DueAt(a)'
  <2>1. Awake(a) /\ op # "acquire"
    BY DEF Recalls, Updates, StateOps, IndexOps
  <2> QED
    BY <1>2, <1>3, <1>5, <2>1 DEF Awake, DueAt
<1>11. RememberedBy(a)'
  <2>1. SUFFICES ASSUME FileOf(op) = "state" PROVE RememberedBy(a)'
    BY <1>3 DEF RememberedBy, Holds
  <2> DEFINE s == disk["state"]
  <2>2. x = Changed(op, act[a].cycle, s) /\ s \in State
    <3>1. Reading("state") = s
      BY <1>5, <2>1 DEF Reading
    <3> QED
      BY <2>1, <3>1, ReadingIsTyped, ContentsAre DEF x
  <2>3. /\ s.count = real.fires /\ (real.asleep => s.dormant)
        /\ s.cooling = real.cooling
    <3>1. RememberedDisk /\ s # Torn
      BY <1>5, <2>1 DEF Recalls
    <3>2. \A b \in Activities : ~Holds(b, "state")
      BY <1>5, <1>6, <2>1
    <3> QED
      BY <3>1, <3>2 DEF RememberedDisk
  <2>4. op \in {"clear", "rouse"} => ~real.asleep
    <3>1. op = "clear" => act[a].kind = "tick"
      BY <1>2, TickOps
    <3>2. op = "rouse" => act[a].kind = "signal"
      BY <1>2, TickOps
    <3> QED
      BY <1>2, <3>1, <3>2 DEF Recalls, Awake
  <2>5. /\ x.count = (IF op = "started" THEN real.fires + 1 ELSE real.fires)
        /\ x.cooling = (real.cooling \/ op = "completed")
        /\ real.asleep \/ op = "dormant" => x.dormant
    <3> HIDE DEF s
    <3>1. op \in StateOps
      BY <2>1 DEF FileOf
    <3>2. CASE op \in {"clear", "rouse"}
      BY <2>2, <2>3, <2>4, <3>2 DEF Changed, State
    <3>3. CASE op = "started"
      BY <2>2, <2>3, <3>3 DEF Changed, State
    <3>4. CASE op = "dormant"
      BY <2>2, <2>3, <3>4 DEF Changed, State
    <3>5. CASE op = "completed"
      BY <2>2, <2>3, <3>5 DEF Changed, State
    <3>6. CASE op = "activate"
      BY <2>2, <2>3, <3>6 DEF Changed, State
    <3> QED
      BY <3>1, <3>2, <3>3, <3>4, <3>5, <3>6 DEF StateOps
  <2> QED
    BY <1>3, <1>5, <2>5 DEF RememberedBy
<1> QED
  BY <1>8, <1>9, <1>10, <1>11 DEF Recalls

\* What is done when the new content is on disk.
LEMMA WritesIs ==
  ASSUME Typed, OnCourse, NEW a \in Activities, Writes(a)
  PROVE  /\ act[a] \in Activity /\ act[a].kind \in Kinds \ {"idle"} /\ act[a].held # Nothing
         /\ Op(a) \in Updates /\ Op(a) \in OpsOf(act[a].kind) /\ Does(a, Op(a))
         /\ Holds(a, FileOf(Op(a))) /\ act[a].held \in Contents(FileOf(Op(a)))
         /\ disk' = [disk EXCEPT ![FileOf(Op(a))] = act[a].held]
         /\ disk'[FileOf(Op(a))] = act[a].held
         /\ \A f \in {"state", "index"} \ {FileOf(Op(a))} : disk'[f] = disk[f]
         /\ Others(a) /\ act'[a] = Left(act[a]) /\ act'[a].held = Nothing
         /\ real'.fires = (IF Op(a) = "started" THEN real.fires + 1 ELSE real.fires)
         /\ real'.asleep = (real.asleep \/ (Op(a) = "dormant" /\ ~Signalled))
         /\ real'.cooling = real.cooling
<1>1. /\ act[a] \in Activity /\ act[a].held # Nothing /\ act[a].todo # <<>> /\ Op(a) \in Updates
      /\ act[a].held \in Contents(FileOf(Op(a)))
  BY DEF Writes, Typed, OnCourse, Course, Op
<1>2. Does(a, Op(a))
  BY <1>1 DEF Does, Op
<1>3. act[a].kind \in Kinds \ {"idle"} /\ Op(a) \in OpsOf(act[a].kind)
  BY <1>2, OpIs
<1>4. /\ disk' = [disk EXCEPT ![FileOf(Op(a))] = act[a].held]
      /\ Finishes(a, Op(a))
  BY DEF Writes, Op
<1>5. /\ disk'[FileOf(Op(a))] = act[a].held
      /\ \A f \in {"state", "index"} \ {FileOf(Op(a))} : disk'[f] = disk[f]
  <2>1. FileOf(Op(a)) \in {"state", "index"}
    BY DEF FileOf
  <2> QED
    BY <1>4, <2>1 DEF Typed
<1>6. Others(a) /\ act'[a] = Left(act[a])
  BY <1>4 DEF Finishes, Others, Typed
<1>7. act'[a].held = Nothing
  BY <1>1, <1>6, LeftHolds
<1>8. /\ real'.fires = (IF Op(a) = "started" THEN real.fires + 1 ELSE real.fires)
      /\ real'.asleep = (real.asleep \/ (Op(a) = "dormant" /\ ~Signalled))
      /\ real'.cooling = real.cooling
  BY <1>4 DEF Finishes, Typed
<1> QED
  BY <1>1, <1>2, <1>3, <1>4, <1>5, <1>6, <1>7, <1>8 DEF Holds

\* Who writes the file passes on what it remembered.
LEMMA WritesRecalls ==
  ASSUME Typed, OnCourse, Recalls, OneWorker, Alone, Calm, NEW a \in Activities, Writes(a)
  PROVE  Recalls'
<1>1. /\ act[a] \in Activity /\ act[a].kind \in Kinds \ {"idle"} /\ act[a].held # Nothing
      /\ Op(a) \in Updates /\ Op(a) \in OpsOf(act[a].kind)
      /\ Holds(a, FileOf(Op(a)))
      /\ disk'[FileOf(Op(a))] = act[a].held
      /\ \A f \in {"state", "index"} \ {FileOf(Op(a))} : disk'[f] = disk[f]
      /\ Others(a) /\ act'[a] = Left(act[a]) /\ act'[a].held = Nothing
  BY WritesIs
<1>2. /\ real'.fires = (IF Op(a) = "started" THEN real.fires + 1 ELSE real.fires)
      /\ real'.asleep = (real.asleep \/ (Op(a) = "dormant" /\ ~Signalled))
      /\ real'.cooling = real.cooling
  BY WritesIs
<1>3. Op(a) \in {"started", "dormant"} => act[a].kind = "tick"
  BY <1>1, TickOps
<1>4. FileOf(Op(a)) = "state" \/ Op(a) \notin {"started", "dormant"}
  BY DEF FileOf, StateOps
<1>5. \A b \in Activities \ {a} : Holds(b, "state")' = Holds(b, "state") /\ Op(b)' = Op(b)
  BY <1>1 DEF Others, Holds, Op
<1>6. RememberedDisk'
  <2>1. CASE FileOf(Op(a)) = "state"
    <3>1. RememberedBy(a) /\ Holds(a, "state")
      BY <1>1, <2>1 DEF Recalls
    <3>2. disk'["state"] = act[a].held
      BY <1>1, <2>1
    <3>3. real'.asleep => act[a].held.dormant
      BY <1>2, <3>1 DEF RememberedBy
    <3> QED
      BY <1>2, <3>1, <3>2, <3>3 DEF RememberedBy, RememberedDisk
  <2>2. CASE FileOf(Op(a)) # "state"
    <3>1. disk'["state"] = disk["state"]
      BY <1>1, <2>2
    <3>2. ~Holds(a, "state")
      BY <2>2 DEF Holds
    <3>3. real'.fires = real.fires /\ (real'.asleep => real.asleep)
      BY <1>2, <1>4, <2>2
    <3>4. RememberedDisk
      BY DEF Recalls
    <3> QED
      BY <1>2, <1>5, <3>1, <3>2, <3>3, <3>4 DEF RememberedDisk
  <2> QED
    BY <2>1, <2>2
<1>7. ASSUME NEW b \in Activities \ {a} PROVE RememberedBy(b)' /\ Awake(b)' /\ DueAt(b)'
  <2>1. act'[b] = act[b] /\ RememberedBy(b) /\ Awake(b) /\ DueAt(b)
    BY <1>1, <1>7 DEF Others, Recalls
  <2>2. Holds(b, "state") => FileOf(Op(a)) # "state"
    BY <1>1, <1>7 DEF Alone, Calm
  <2>3. RememberedBy(b)'
    <3>1. SUFFICES ASSUME Holds(b, "state") PROVE RememberedBy(b)'
      BY <1>5, <1>7 DEF RememberedBy
    <3>2. real'.fires = real.fires /\ (real'.asleep => real.asleep)
      BY <1>2, <1>4, <2>2, <3>1
    <3> QED
      BY <1>2, <1>5, <1>7, <2>1, <3>1, <3>2 DEF RememberedBy
  <2>4. Awake(b)' /\ DueAt(b)'
    <3>1. CASE act[b].kind = "tick"
      <4>1. Op(a) \notin {"started", "dormant"}
        BY <1>3, <1>7, <3>1 DEF OneWorker, Calm, Working
      <4>2. real'.fires = real.fires /\ real'.asleep = real.asleep
        BY <1>2, <4>1 DEF Typed
      <4> QED
        BY <1>2, <2>1, <4>2 DEF Awake, DueAt, FireIsDue, Op
    <3>2. CASE act[b].kind = "signal"
      <4>1. Signalled
        BY <3>2 DEF Signalled
      <4>2. real'.asleep = real.asleep
        BY <1>2, <4>1 DEF Typed
      <4> QED
        BY <2>1, <3>2, <4>2 DEF Awake, DueAt
    <3>3. CASE act[b].kind \notin {"tick", "signal"}
      BY <2>1, <3>3 DEF Awake, DueAt
    <3> QED
      BY <3>1, <3>2, <3>3
  <2> QED
    BY <2>3, <2>4
<1>8. RememberedBy(a)' /\ Awake(a)' /\ DueAt(a)'
  <2>1. CASE act'[a] = IdleActivity
    BY <2>1, QuietSelf DEF IdleActivity
  <2>2. CASE act'[a].kind = act[a].kind /\ <<Op(a), Op(a)'>> \in Successions
    <3>1. Op(a)' # "acquire" /\ (Op(a) = "dormant" => Op(a)' = "rest")
      BY <2>2 DEF Successions
    <3>2. CASE act[a].kind = "tick" /\ Op(a)' \notin {"gates", "rest", "release"}
      <4>1. Op(a) \notin {"gates", "rest", "release"} /\ Op(a) # "dormant"
        BY <1>1, <3>1, <3>2 DEF Updates, StateOps, IndexOps
      <4>2. ~real.asleep
        BY <3>2, <4>1 DEF Recalls, Awake
      <4>3. ~real'.asleep
        BY <1>2, <4>1, <4>2
      <4> QED
        BY <1>1, <2>2, <3>1, <3>2, <4>3, QuietSelf
    <3>3. CASE act[a].kind = "tick" /\ Op(a)' \in {"gates", "rest", "release"}
      BY <1>1, <2>2, <3>3, QuietSelf
    <3>4. CASE act[a].kind = "signal"
      <4>1. Signalled /\ ~real.asleep
        BY <3>4 DEF Signalled, Recalls, Awake
      <4>2. ~real'.asleep
        BY <1>2, <4>1
      <4> QED
        BY <1>1, <2>2, <3>4, <4>2, QuietSelf
    <3>5. CASE act[a].kind \notin {"tick", "signal"}
      BY <1>1, <2>2, <3>5, QuietSelf
    <3> QED
      BY <3>2, <3>3, <3>4, <3>5
  <2> QED
    BY <1>1, <2>1, <2>2, LeftFollows
<1> QED
  BY <1>6, <1>7, <1>8 DEF Recalls

\* An activity begins; a signal means that the project has changed.
LEMMA BeginsRecalls ==
  ASSUME Typed, OnCourse, Recalls, NEW a \in Activities, NEW k, NEW g, NEW p, NEW c, Begins(a,
         k, g, p, c),
         disk' = disk, k = "tick" => p = <<"gates">>,
         \/ real' = real /\ k # "signal"
         \/ real' = [real EXCEPT !.asleep = FALSE]
  PROVE  Recalls'
<1>1. /\ act[a].kind = "idle" /\ act[a].todo = <<>> /\ Others(a)
      /\ act'[a].kind = k /\ act'[a].todo = p /\ act'[a].held = Nothing
  BY BeginsMoves DEF Others
<1>2. ~Holds(a, "state")
  BY <1>1 DEF OnCourse, Course, Holds
<1>3. /\ real'.fires = real.fires /\ real'.cooling = real.cooling
      /\ real'.asleep => real.asleep /\ k # "signal"
  BY DEF Typed
<1>4. \A b \in Activities \ {a} : Holds(b, "state")' = Holds(b, "state") /\ Op(b)' = Op(b)
  BY <1>1 DEF Others, Holds, Op
<1>5. RememberedDisk'
  <2>1. RememberedDisk
    BY DEF Recalls
  <2> QED
    BY <1>2, <1>3, <1>4, <2>1 DEF RememberedDisk
<1>6. ASSUME NEW b \in Activities \ {a} PROVE RememberedBy(b)' /\ Awake(b)' /\ DueAt(b)'
  <2>1. act'[b] = act[b] /\ RememberedBy(b) /\ Awake(b) /\ DueAt(b)
    BY <1>1, <1>6 DEF Others, Recalls
  <2> QED
    BY <1>3, <2>1 DEF RememberedBy, Awake, DueAt, FireIsDue, Holds, Op
<1>7. RememberedBy(a)' /\ Awake(a)' /\ DueAt(a)'
  <2>1. k = "tick" => Op(a)' = "gates"
    BY <1>1 DEF Op
  <2> QED
    BY <1>1, <1>3, <2>1, QuietSelf
<1> QED
  BY <1>5, <1>6, <1>7 DEF Recalls

\* The end of the cooldown is in the file and with who holds its content.
LEMMA CooldownRecalls ==
  ASSUME Typed, OnCourse, Recalls, CooldownEnds
  PROVE  Recalls'
<1>1. /\ real'.fires = real.fires /\ ~real'.cooling /\ real'.asleep = real.asleep
  BY DEF CooldownEnds, Typed
<1>2. \A b \in Activities : act'[b].kind = act[b].kind /\ act'[b].todo = act[b].todo /\ Op(b)' = Op(b)
  BY CooldownMoves DEF Op
<1>3. RememberedDisk'
  <2>1. CASE disk["state"] = Torn
    <3>1. disk'["state"] = Torn
      BY <2>1 DEF CooldownEnds, Typed
    <3> QED
      BY <3>1 DEF RememberedDisk
  <2>2. CASE disk["state"] # Torn
    <3>1. disk["state"] \in State
      BY <2>2, ContentsAre DEF Typed
    <3>2. disk'["state"] = [disk["state"] EXCEPT !.cooling = FALSE]
      BY <2>2 DEF CooldownEnds, Typed
    <3>3. /\ disk'["state"].count = disk["state"].count /\ disk'["state"].dormant = disk["state"].dormant
          /\ ~disk'["state"].cooling
      BY <3>1, <3>2 DEF State
    <3>4. RememberedDisk
      BY DEF Recalls
    <3>5. disk'["state"].cooling = real'.cooling
      <4>1. disk'["state"].cooling = FALSE
        BY <3>1, <3>2 DEF State
      <4>2. real'.cooling = FALSE
        BY DEF CooldownEnds, Typed
      <4> QED
        BY <4>1, <4>2
    <3> QED
      BY <1>1, <2>2, <3>3, <3>4, <3>5 DEF RememberedDisk
  <2> QED
    BY <2>1, <2>2
<1>4. ASSUME NEW b \in Activities PROVE RememberedBy(b)' /\ Awake(b)' /\ DueAt(b)'
  <2>1. RememberedBy(b) /\ Awake(b) /\ DueAt(b)
    BY DEF Recalls
  <2>2. Awake(b)' /\ DueAt(b)'
    BY <1>1, <1>2, <2>1 DEF Awake, DueAt, FireIsDue
  <2>3. RememberedBy(b)'
    <3>1. CASE act[b].held # Nothing /\ FileOf(Op(b)) = "state"
      <4>1. act'[b] = [act[b] EXCEPT !.held.cooling = FALSE] /\ act[b] \in Activity
        BY <3>1 DEF CooldownEnds, Op, Typed
      <4>2. act[b].held \in State
        BY <3>1, ContentsAre DEF OnCourse, Course, Op
      <4>3. act'[b].held = [act[b].held EXCEPT !.cooling = FALSE]
        BY <4>1 DEF Activity
      <4>4. /\ act'[b].held.count = act[b].held.count /\ act'[b].held.dormant = act[b].held.dormant
            /\ act'[b].held.cooling = FALSE
        BY <4>2, <4>3 DEF State
      <4>5. real'.cooling = FALSE
        BY DEF CooldownEnds, Typed
      <4> QED
        BY <1>1, <1>2, <2>1, <3>1, <4>4, <4>5 DEF RememberedBy, Holds
    <3>2. CASE ~(act[b].held # Nothing /\ FileOf(Op(b)) = "state")
      <4>1. act'[b] = act[b]
        BY <3>2 DEF CooldownEnds, Op
      <4> QED
        BY <1>2, <3>2, <4>1 DEF RememberedBy, Holds
    <3> QED
      BY <3>1, <3>2
  <2> QED
    BY <2>2, <2>3
<1> QED
  BY <1>3, <1>4 DEF Recalls

\* A step that leaves the activities, the files and the history alone.
LEMMA StaysRecalls ==
  ASSUME Recalls, act' = act, real' = real, disk' = disk PROVE Recalls'
  BY DEF Recalls, RememberedDisk, RememberedBy, Awake, DueAt, FireIsDue, Holds, Op

\* A crash with nothing under way leaves the file as it was.
LEMMA CrashRecalls ==
  ASSUME Typed, OnCourse, Recalls, Crash, ~spoiled' PROVE Recalls'
<1>1. \A a \in Activities : act[a].kind = "idle" /\ act[a] \in Activity /\ Course(act[a])
  BY DEF Crash, Typed, OnCourse
<1>2. \A a \in Activities : act[a].todo = <<>> /\ act[a].held = Nothing
  BY <1>1 DEF Course, Programs
<1>3. RememberedDisk'
  <2>1. \A b \in Activities : ~Holds(b, "state")
    BY <1>2 DEF Holds
  <2>2. RememberedDisk /\ real' = real /\ disk' = disk
    BY DEF Recalls, Crash
  <2> QED
    BY <2>1, <2>2 DEF RememberedDisk
<1>4. \A a \in Activities : act'[a].kind = "idle" /\ act'[a].held = Nothing
  BY DEF Crash, IdleActivity
<1> QED
  BY <1>3, <1>4 DEF Recalls, RememberedBy, Awake, DueAt, Holds

\* Every step keeps what the state file remembers.
LEMMA NextRecalls ==
  ASSUME Typed, OnCourse, Alone, OneWorker, Remembered, [Next]_vars PROVE Remembered'
<1>1. SUFFICES ASSUME ~spoiled', ~forked', ~beside' PROVE Recalls'
  BY DEF Remembered, Recalls
<1>2. Calm
  BY <1>1, OnceSpoiled DEF Calm
<1>3. Recalls
  BY <1>2 DEF Calm, Remembered, Recalls
<1>4. CASE \E g \in Gens : Start(g) \/ StartFails(g) \/ Stop(g) \/ StopDone(g) \/ WatcherFails(g)
  <2>1. UNCHANGED <<act, real, disk>>
    BY <1>4 DEF Start, StartFails, Stop, StopDone, WatcherFails
  <2> QED
    BY <1>3, <2>1, StaysRecalls
<1>5. ASSUME NEW g \in Gens, NEW a \in Activities, TimerFires(g, a) PROVE Recalls'
  BY <1>3, <1>5, BeginsRecalls DEF TimerFires
<1>6. ASSUME NEW g \in Gens, NEW a \in Activities, Signal(g, a) PROVE Recalls'
  BY <1>3, <1>6, BeginsRecalls DEF Signal
<1>7. ASSUME NEW g \in Gens, NEW a \in Activities, Rerun(g, a) PROVE Recalls'
  BY <1>3, <1>7, BeginsRecalls DEF Rerun
<1>8. ASSUME NEW a \in Activities, Edit(a) PROVE Recalls'
  <2>1. PICK c \in 1..used.cycles, kind \in {"apply", "archive"} :
          Begins(a, kind, 1, IF kind = "apply" THEN <<"applying", "apply">> ELSE <<"archive">>, c)
    BY <1>8 DEF Edit
  <2> DEFINE p == IF kind = "apply" THEN <<"applying", "apply">> ELSE <<"archive">>
  <2>2. Begins(a, kind, 1, p, c) /\ disk' = disk /\ real' = real /\ kind # "tick" /\ kind # "signal"
    BY <1>8, <2>1 DEF Edit
  <2> HIDE DEF p
  <2> QED
    BY <1>3, <2>2, BeginsRecalls
<1>9. ASSUME NEW a \in Activities, Step(a) PROVE Recalls'
  <2>1. Others(a)
    BY <1>9, StepMoves DEF Moved, Others
  <2>2. CASE Takes(a)
    BY <1>1, <1>2, <1>3, <2>1, <2>2, TakesRecalls
  <2>3. CASE Disposes(a) \/ Opens(a)
    BY <1>3, <2>3, OpensRecalls
  <2>4. CASE Writes(a)
    BY <1>2, <1>3, <2>4, WritesRecalls
  <2>5. CASE Passes(a)
    BY <1>1, <1>2, <1>3, <1>9, <2>5, PassesRecalls
  <2> QED
    BY <1>9, <2>2, <2>3, <2>4, <2>5, StepHolds
<1>10. ASSUME NEW a \in Activities, Fault(a) PROVE Recalls'
  BY <1>1, <1>2, <1>3, <1>10, FaultRecalls
<1>11. CASE Crash
  BY <1>1, <1>3, <1>11, CrashRecalls
<1>12. CASE CooldownEnds
  BY <1>3, <1>12, CooldownRecalls
<1>13. CASE UNCHANGED vars
  BY <1>3, <1>13, StaysRecalls DEF vars
<1> QED
  BY <1>4, <1>5, <1>6, <1>7, <1>8, <1>9, <1>10, <1>11, <1>12, <1>13 DEF Next

\* All of it holds at first.
LEMMA InitRemembers == Init => Apart /\ Ordered /\ Alone /\ Remembered
<1> SUFFICES ASSUME Init PROVE Apart /\ Ordered /\ Alone /\ Remembered
  OBVIOUS
<1>1. \A a \in Activities : act[a].kind = "idle" /\ act[a].held = Nothing
  BY DEF Init, IdleActivity
<1>2. \A g \in Gens : sched[g].status = "new"
  BY DEF Init, NewScheduler
<1>3. real = [fires |-> 0, cooling |-> FALSE, asleep |-> FALSE] /\ disk = Default
  BY DEF Init
<1>4. disk["state"].count = 0 /\ disk["state"].cooling = FALSE
  BY <1>3 DEF Default
<1>5. RememberedDisk
  BY <1>3, <1>4 DEF RememberedDisk
<1>6. \A a \in Activities : RememberedBy(a) /\ Awake(a) /\ DueAt(a)
  BY <1>1 DEF RememberedBy, Awake, DueAt, Holds
<1> QED
  BY <1>1, <1>2, <1>5, <1>6 DEF Apart, Working, Ordered, Alone, Holds, Remembered

\* The state file remembers what the gates go by.
Faithful == Sequenced /\ Apart /\ Ordered /\ Alone /\ OneWorker /\ Remembered

\* What the state file remembers is an invariant of the specification.
LEMMA SpecIsFaithful == Spec => []Faithful
<1>1. Init => Apart /\ Ordered /\ Alone /\ Remembered
  BY InitRemembers
<1>2. Sequenced /\ (Apart /\ Ordered /\ Alone /\ Remembered) /\ [Next]_vars =>
        (Apart /\ Ordered /\ Alone /\ Remembered)'
  <2>1. Sequenced /\ Apart /\ Ordered => OneWorker
    BY WorksAlone DEF Sequenced
  <2> QED
    BY <2>1, NextIsOrdered, NextIsAlone, NextRecalls DEF Sequenced
<1>3. Sequenced /\ (Apart /\ Ordered /\ Alone /\ Remembered) => Faithful
  BY WorksAlone DEF Sequenced, Faithful
<1>4. Spec => [](Apart /\ Ordered /\ Alone /\ Remembered)
  BY <1>1, <1>2, SpecIsSequenced, PTL DEF Spec
<1> QED
  BY <1>3, <1>4, SpecIsSequenced, PTL

\* The lock is taken by nothing but Acquire.
LEMMA OnlyAcquireLocks ==
  ASSUME Typed, OnCourse, [Next]_vars, ~lock, lock' PROVE \E a \in Activities : Acquire(a)
<1>1. lock' # lock
  BY DEF Typed
<1>2. ASSUME NEW a \in Activities, Step(a) PROVE Acquire(a)
  <2>1. ~Reads(a)
    BY <1>1 DEF Reads
  <2>2. ~Disposes(a) /\ ~Opens(a) /\ ~Writes(a) /\ ~Gates(a) /\ ~Load(a) /\ ~Discover(a)
    BY <1>1 DEF Disposes, Opens, Writes, Gates, Load, Discover
  <2>3. ~Workspace(a) /\ ~Prepare(a) /\ ~Execute(a) /\ ~Rest(a) /\ ~Release(a) /\ ~Apply(a)
    BY <1>1 DEF Workspace, Prepare, Execute, Rest, Release, Apply
  <2> QED
    BY <1>2, <2>1, <2>2, <2>3 DEF Step
<1> QED
  BY <1>1, <1>2 DEF Next, Start, StartFails, Stop, StopDone, WatcherFails, TimerFires, Signal,
     Rerun,
     Edit, Fault, Crash, CooldownEnds, vars

\* Whoever takes the lock has passed the gates while they were right.
LEMMA LocksWhenDue ==
  ASSUME Faithful, [Next]_vars, ~lock, lock', ~spoiled, ~forked, ~beside PROVE FireIsDue
<1>1. PICK a \in Activities : Acquire(a)
  BY OnlyAcquireLocks DEF Faithful, Sequenced
<1>2. Does(a, "acquire")
  BY <1>1 DEF Acquire
<1>3. act[a].kind = "tick"
  <2>1. act[a].kind \in Kinds /\ "acquire" \in OpsOf(act[a].kind)
    BY <1>2, OpIs DEF Faithful, Sequenced
  <2> QED
    BY <2>1, TickOps
<1>4. Op(a) = "acquire"
  BY <1>2 DEF Does, Op
<1> QED
  BY <1>3, <1>4 DEF Faithful, Remembered, DueAt

\* A fire begins within the daily budget, after the cooldown, and not before a dormant project
\* has changed, as long as no update of a file has been lost, no signal came during a tick and
\* nothing ran beside a rerun or an edit.
THEOREM FiresAreDueHolds == Spec => FiresAreDue
<1>1. Faithful /\ [Next]_vars =>
        [~lock /\ lock' /\ ~spoiled /\ ~forked /\ ~beside
           => real.fires < Budget /\ ~real.cooling /\ ~real.asleep]_vars
  BY LocksWhenDue DEF FireIsDue
<1> QED
  BY <1>1, SpecIsFaithful, PTL DEF Spec, FiresAreDue

-----------------------------------------------------------------------------
(* One active cycle. *)

\* Whoever has its hands on the work cycles.
Hand(a) == Working(a) /\ ~Does(a, "gates") /\ ~Does(a, "acquire")

\* Who has made a workspace that is not yet the active one in both files.
Fresh(a) == Does(a, "create") \/ Does(a, "activate")

\* In the index v no cycle but q is active.
Single(v, q) == \A x \in dirs : v[x] = "active" => x = q

\* p is the active cycle by the state file, q by the index.
DiskPoints(p, q) ==
    /\ disk["state"] # Torn => disk["state"].active = p
    /\ disk["index"] # Torn => Single(disk["index"], q)

Points(a, p, q) ==
    /\ Holds(a, "state") => act[a].held.active = (IF Op(a) = "activate" THEN act[a].cycle ELSE p)
    /\ Holds(a, "index") => Single(act[a].held, q)
    /\ Fresh(a) => act[a].cycle = q
    /\ Does(a, "discover") \/ Does(a, "workspace") \/ Does(a, "prepare") => act[a].seen = p
    /\ Does(a, "prepare") /\ disk["index"] # Torn => \A x \in dirs : disk["index"][x] # "active"
    /\ \/ Does(a, "apply") \/ Does(a, "applied") \/ Does(a, "restored")
       \/ Does(a, "applying") /\ act[a].held # Nothing
       => (act[a].cycle \in dirs => act[a].cycle = p)

\* The files agree but while a new cycle goes from one to the other.
Pointed(p, q) ==
    /\ DiskPoints(p, q) /\ \A a \in Activities : Points(a, p, q)
    /\ (\A a \in Activities : ~Fresh(a)) => q = p

AnyCycle == Cycles \cup {NoCycle}

Kept == ~spoiled /\ ~beside => \E p, q \in AnyCycle : Pointed(p, q)

\* As long as nothing runs beside a rerun or an edit, the work cycles are in one hand.
LEMMA OneHand ==
  ASSUME Typed, Lone, Apart, ~beside, NEW a \in Activities, NEW b \in Activities, Hand(a),
         Hand(b)
  PROVE  a = b
  BY DEF Lone, Apart, Hand, Fires

\* Every operation but these three is done by such a hand.
LEMMA HandOps ==
  ASSUME Typed, OnCourse, NEW b \in Activities, NEW op, Does(b, op), op \notin {"gates",
         "acquire", "rouse"}
  PROVE  Hand(b)
<1>1. act[b].kind \in Kinds \ {"idle"} /\ op \in OpsOf(act[b].kind) /\ Head(act[b].todo) = op
  BY OpIs
<1>2. act[b].kind # "signal"
  BY <1>1 DEF OpsOf
<1> QED
  BY <1>1, <1>2 DEF Hand, Working, Does

\* An activity that a step leaves alone, when the index is not written beside its back.
LEMMA OtherPoints ==
  ASSUME Typed, NEW b \in Activities, NEW p, NEW q, Points(b, p, q), act'[b] = act[b],
         dirs' \subseteq dirs,
         disk'["index"] = disk["index"] \/ disk'["index"] = Torn \/ ~Does(b, "prepare")
  PROVE  Points(b, p, q)' /\ (Fresh(b)' <=> Fresh(b))
<1>1. \A op : Does(b, op)' = Does(b, op)
  BY DEF Does
<1>2. /\ Holds(b, "state")' = Holds(b, "state") /\ Holds(b, "index")' = Holds(b, "index")
      /\ Op(b)' = Op(b)
  BY DEF Holds, Op
<1>3. Fresh(b)' = Fresh(b)
  BY <1>1 DEF Fresh
<1>4. Holds(b, "index")' => Single(act[b].held, q)'
  BY <1>2 DEF Points, Single
<1>5. Does(b, "prepare") /\ disk'["index"] # Torn => \A x \in dirs' : disk'["index"][x] # "active"
  BY DEF Points
<1> QED
  BY <1>1, <1>2, <1>3, <1>4, <1>5 DEF Points

\* One without a hand on the cycles at most carries the state over.
LEMMA HandlessPoints ==
  ASSUME Typed, OnCourse, NEW b \in Activities, ~Hand(b), act'[b] = act[b], NEW p, NEW q,
         Holds(b, "state") => act[b].held.active = p
  PROVE  Points(b, p, q)' /\ ~Fresh(b)'
<1>1. \A op : Does(b, op)' = Does(b, op)
  BY DEF Does
<1>2. \A op : Does(b, op) => op \in {"gates", "acquire", "rouse"}
  BY HandOps
<1>3. Holds(b, "state")' = Holds(b, "state") /\ Holds(b, "index")' = Holds(b, "index") /\ Op(b)' = Op(b)
  BY DEF Holds, Op
<1>4. \A f : Holds(b, f) => Op(b) = "rouse"
  <2>1. SUFFICES ASSUME NEW f, Holds(b, f) PROVE Op(b) = "rouse"
    OBVIOUS
  <2>2. Does(b, Op(b)) /\ Op(b) \in Updates
    BY <2>1 DEF Holds, OnCourse, Course, Does, Op
  <2> QED
    BY <1>2, <2>2 DEF Updates, StateOps, IndexOps
<1>5. ~Holds(b, "index")
  BY <1>4 DEF Holds, FileOf, StateOps
<1> QED
  BY <1>1, <1>2, <1>3, <1>4, <1>5 DEF Points, Fresh

\* A step of one activity that leaves the cycles as they are.
LEMMA KeepsPointed ==
  ASSUME Typed, NEW a \in Activities, Others(a), NEW p, NEW q, Pointed(p, q),
         dirs' \subseteq dirs,
         \/ disk'["index"] = disk["index"] \/ disk'["index"] = Torn
         \/ \A b \in Activities \ {a} : ~Does(b, "prepare"),
         DiskPoints(p, q)', Points(a, p, q)', Fresh(a) => Fresh(a)'
  PROVE  Pointed(p, q)'
<1>1. ASSUME NEW b \in Activities \ {a} PROVE Points(b, p, q)' /\ (Fresh(b)' <=> Fresh(b))
  BY <1>1, OtherPoints DEF Pointed, Others
<1> QED
  BY <1>1 DEF Pointed

\* A step of the only hand there is.
LEMMA HandPointed ==
  ASSUME Typed, OnCourse, NEW a \in Activities, Others(a), NEW p, NEW q,
         \A b \in Activities \ {a} : ~Hand(b) /\ (Holds(b, "state") => act[b].held.active = p),
         DiskPoints(p, q)', Points(a, p, q)', Fresh(a)' \/ q = p
  PROVE  Pointed(p, q)'
<1>1. ASSUME NEW b \in Activities \ {a} PROVE Points(b, p, q)' /\ ~Fresh(b)'
  BY <1>1, HandlessPoints DEF Others
<1> QED
  BY <1>1 DEF Pointed

\* Who is idle points nowhere.
LEMMA IdlePoints ==
  ASSUME NEW a \in Activities, act'[a] = IdleActivity, NEW p, NEW q PROVE Points(a, p, q)'
<1>1. act'[a].todo = <<>> /\ act'[a].held = Nothing
  BY DEF IdleActivity
<1> QED
  BY <1>1 DEF Points, Holds, Fresh, Does

\* Nor does one that holds nothing and has not looked at the cycles.
LEMMA PlainPoints ==
  ASSUME NEW a \in Activities, act'[a].held = Nothing, NEW p, NEW q,
         Op(a)' \notin {"create", "activate", "discover", "workspace", "prepare", "apply", "applied",
                        "restored"}
  PROVE  Points(a, p, q)'
<1>1. \A op : Does(a, op)' => Op(a)' = op
  BY DEF Does, Op
<1> QED
  BY <1>1 DEF Points, Holds, Fresh

\* A step that neither touches the cycles nor leads to an operation that looks at them.
LEMMA PlainPointed ==
  ASSUME Typed, NEW a \in Activities, Others(a), NEW p, NEW q, Pointed(p, q), disk' = disk,
         dirs' = dirs,
         ~Fresh(a),
         \/ act'[a] = IdleActivity
         \/ /\ act'[a].held = Nothing
            /\ Op(a)' \notin {"create", "activate", "discover", "workspace", "prepare", "apply",
                              "applied", "restored"}
  PROVE  Pointed(p, q)'
<1>1. Points(a, p, q)'
  BY IdlePoints, PlainPoints
<1>2. DiskPoints(p, q)'
  BY DEF Pointed, DiskPoints, Single
<1> QED
  BY <1>1, <1>2, KeepsPointed

\* Beside a hand there is none.
LEMMA OnlyHand ==
  ASSUME Typed, OnCourse, Lone, Apart, ~beside, NEW a \in Activities, NEW op, Does(a, op),
         op \notin {"gates", "acquire", "rouse"}
  PROVE  \A b \in Activities \ {a} : ~Hand(b) /\ ~Fresh(b) /\ ~Does(b, "prepare")
<1>1. Hand(a)
  BY HandOps
<1>2. ASSUME NEW b \in Activities \ {a} PROVE ~Hand(b)
  BY <1>1, <1>2, OneHand
<1>3. ASSUME NEW b \in Activities \ {a}
      PROVE  ~Does(b, "create") /\ ~Does(b, "activate") /\ ~Does(b, "prepare")
  BY <1>2, <1>3, HandOps
<1> QED
  BY <1>2, <1>3 DEF Fresh

\* A torn file says nothing, and fewer workspaces leave fewer active cycles.
LEMMA OpensPointed ==
  ASSUME Typed, OnCourse, NEW a \in Activities, Disposes(a) \/ Opens(a), NEW p, NEW q, Pointed(p, q)
  PROVE  Pointed(p, q)'
<1>1. /\ act'[a].todo = act[a].todo /\ act'[a].held = act[a].held /\ act'[a].cycle = act[a].cycle
      /\ act'[a].seen = act[a].seen /\ Others(a)
  BY DEF Disposes, Opens, Typed, Activity, Others
<1>2. dirs' \subseteq dirs
  BY DEF Disposes, Opens
<1>3. \A f \in {"state", "index"} : disk'[f] = Torn \/ disk'[f] = disk[f]
  BY DEF Disposes, Opens, Typed
<1>4. DiskPoints(p, q)'
  BY <1>2, <1>3 DEF Pointed, DiskPoints, Single
<1>5. \A op : Does(a, op)' = Does(a, op)
  BY <1>1 DEF Does
<1>6. /\ Holds(a, "state")' = Holds(a, "state") /\ Holds(a, "index")' = Holds(a, "index")
      /\ Op(a)' = Op(a)
  BY <1>1 DEF Holds, Op
<1>7. Points(a, p, q)
  BY DEF Pointed
<1>8. Holds(a, "index")' => Single(act[a].held, q)'
  BY <1>1, <1>2, <1>6, <1>7 DEF Points, Single
<1>9. Fresh(a)' = Fresh(a)
  BY <1>5 DEF Fresh
<1>10. Does(a, "prepare") /\ disk'["index"] # Torn => \A x \in dirs' : disk'["index"][x] # "active"
  BY <1>2, <1>3, <1>7 DEF Points
<1>11. Points(a, p, q)'
  BY <1>1, <1>2, <1>5, <1>6, <1>7, <1>8, <1>9, <1>10 DEF Points
<1> QED
  BY <1>1, <1>2, <1>3, <1>4, <1>9, <1>11, KeepsPointed

\* Who takes a file's content to update it has what the file said of the cycles, and the update.
LEMMA TakesPointed ==
  ASSUME Typed, OnCourse, Lone, Apart, ~beside, ~spoiled', NEW a \in Activities, Takes(a),
         Others(a),
         NEW p, NEW q, Pointed(p, q)
  PROVE  Pointed(p, q)'
<1>1. PICK op \in Updates : TakesOp(a, op)
  BY DEF Takes
<1> DEFINE v == disk[FileOf(op)]
           x == Changed(op, act[a].cycle, v)
<1>2. /\ Does(a, op) /\ act[a] \in Activity /\ act[a].kind \in Kinds /\ op \in OpsOf(act[a].kind)
      /\ Op(a) = op
  BY <1>1, OpIs DEF TakesOp, Op
<1>3. FileOf(op) \in {"state", "index"} /\ v # Torn /\ Reading(FileOf(op)) = v
  BY <1>1 DEF TakesOp, FileOf, Reading
<1>4. v \in Contents(FileOf(op))
  BY <1>3, ReadingIsTyped
<1>5. x \in Contents(FileOf(op)) /\ x # Nothing
  BY <1>2, <1>3, <1>4, ChangedIsTyped, NoContentAssumption DEF Activity
<1>6. act' = [act EXCEPT ![a].held = x] /\ Changes(op, act[a].cycle, v) /\ disk' = disk /\ dirs' = dirs
  BY <1>1, <1>3 DEF TakesOp
<1>7. DiskPoints(p, q) /\ Points(a, p, q) /\ act[a].held = Nothing
  BY <1>1 DEF Pointed, TakesOp
<1>8. op \in IndexOps => Single(v, q)
  BY <1>3, <1>7 DEF DiskPoints, FileOf, StateOps, IndexOps
<1>9. op \in StateOps => v.active = p /\ v \in State
  BY <1>3, <1>4, <1>7, ContentsAre DEF DiskPoints, FileOf
<1>10. op \in IndexOps => v \in Index
  BY <1>4, ContentsAre DEF FileOf, StateOps, IndexOps
<1> HIDE DEF v
<1>11. op \in StateOps => x.active = (IF op = "activate" THEN act[a].cycle ELSE p)
  <2> SUFFICES ASSUME op \in StateOps PROVE x.active = (IF op = "activate" THEN act[a].cycle ELSE p)
    OBVIOUS
  <2>1. CASE op \in {"clear", "rouse"}
    BY <1>9, <2>1 DEF Changed, State
  <2>2. CASE op = "started"
    BY <1>9, <2>2 DEF Changed, State
  <2>3. CASE op = "dormant"
    BY <1>9, <2>3 DEF Changed, State
  <2>4. CASE op = "completed"
    BY <1>9, <2>4 DEF Changed, State
  <2>5. CASE op = "activate"
    BY <1>9, <2>5 DEF Changed, State
  <2> QED
    BY <2>1, <2>2, <2>3, <2>4, <2>5 DEF StateOps
<1>12. op \in {"applying", "restored"} => q = p
  <2> SUFFICES ASSUME op \in {"applying", "restored"} PROVE q = p
    OBVIOUS
  <2>1. \A b \in Activities \ {a} : ~Fresh(b)
    BY <1>2, OnlyHand
  <2>2. ~Fresh(a)
    BY <1>2 DEF Fresh, Does
  <2> QED
    BY <2>1, <2>2 DEF Pointed
<1>13. op \in IndexOps => Single(x, q)
  <2> SUFFICES ASSUME op \in IndexOps, NEW y \in dirs, x[y] = "active" PROVE y = q
    BY DEF Single
  <2>1. v \in [Cycles -> {"none", "active", "applying", "applied", "archived"}] /\ y \in Cycles
    BY <1>10 DEF Index, Typed
  <2>2. CASE v[y] = "active"
    BY <1>8, <2>2 DEF Single
  <2>3. CASE v[y] # "active"
    <3>1. op \in {"create", "restored"} /\ y = act[a].cycle
      <4>1. CASE op = "addPlan"
        BY <2>3, <4>1 DEF Changed
      <4>2. CASE op = "applying"
        BY <2>1, <2>3, <4>2 DEF Changed
      <4>3. CASE op = "applied"
        BY <2>1, <2>3, <4>3 DEF Changed
      <4>4. CASE op = "archive"
        BY <2>1, <2>3, <4>4 DEF Changed
      <4>5. CASE op \in {"create", "restored"}
        BY <2>1, <2>3, <4>5 DEF Changed
      <4> QED
        BY <4>1, <4>2, <4>3, <4>4, <4>5 DEF IndexOps
    <3>2. CASE op = "create"
      BY <1>2, <1>7, <3>1, <3>2 DEF Points, Fresh
    <3>3. CASE op = "restored"
      BY <1>2, <1>7, <1>12, <3>1, <3>3 DEF Points
    <3> QED
      BY <3>1, <3>2, <3>3
  <2> QED
    BY <2>2, <2>3
<1>14. op = "applying" => (act[a].cycle \in dirs => act[a].cycle = p)
  <2> SUFFICES ASSUME op = "applying", act[a].cycle \in dirs PROVE act[a].cycle = p
    OBVIOUS
  <2>1. v[act[a].cycle] = "active"
    BY <1>6 DEF Changes
  <2> QED
    BY <1>8, <1>12, <2>1 DEF Single, IndexOps
<1> HIDE DEF x
<1>15. /\ act'[a].todo = act[a].todo /\ act'[a].held = x /\ act'[a].cycle = act[a].cycle
       /\ act'[a].seen = act[a].seen
  BY <1>2, <1>6 DEF Typed, Activity
<1>16. \A o : Does(a, o)' = Does(a, o)
  BY <1>15 DEF Does
<1>17. Op(a)' = op /\ Fresh(a)' = Fresh(a)
  BY <1>2, <1>15, <1>16 DEF Op, Fresh
<1>18. Holds(a, "state")' => act'[a].held.active = (IF Op(a)' = "activate" THEN act'[a].cycle ELSE p)
  BY <1>11, <1>15, <1>17 DEF Holds, FileOf
<1>19. Holds(a, "index")' => Single(act[a].held, q)'
  <2>1. Holds(a, "index")' => op \in IndexOps
    BY <1>17 DEF Holds, FileOf, Updates
  <2> QED
    BY <1>6, <1>13, <1>15, <2>1 DEF Single
<1>20. Does(a, "applying") => op = "applying"
  BY <1>2 DEF Does
<1>21. Points(a, p, q)'
  BY <1>6, <1>7, <1>14, <1>15, <1>16, <1>17, <1>18, <1>19, <1>20 DEF Points
<1>22. DiskPoints(p, q)'
  BY <1>6, <1>7 DEF DiskPoints, Single
<1> QED
  BY <1>6, <1>17, <1>21, <1>22, KeepsPointed

\* A new cycle that is in the index is next made the active one of the state file.
LEMMA CreatesThenActivates ==
  ASSUME Typed, OnCourse, NEW a \in Activities, Does(a, "create"), act'[a] = Left(act[a])
  PROVE  /\ act'[a].cycle = act[a].cycle /\ act'[a].held = Nothing
         /\ \A op : Does(a, op)' <=> op = "activate"
<1>1. /\ act[a] \in Activity /\ act[a].kind \in Kinds \ {"idle"} /\ Sound(act[a].kind, act[a].todo)
      /\ "create" \in OpsOf(act[a].kind) /\ Head(act[a].todo) = "create"
  BY OpIs
<1>2. "create" \notin LastOps(act[a].kind)
  BY <1>1 DEF LastOps, OpsOf, FireOps
<1>3. Tail(act[a].todo) # <<>> /\ <<"create", Head(Tail(act[a].todo))>> \in Successions
  BY <1>1, <1>2 DEF Sound
<1>4. act'[a].todo = Tail(act[a].todo) /\ act'[a].kind = act[a].kind
  BY <1>1, <1>3, LeftGoesOn
<1>5. Head(Tail(act[a].todo)) = "activate"
  BY <1>3 DEF Successions
<1>6. act'[a] # IdleActivity
  BY <1>1, <1>4 DEF IdleActivity
<1>7. act'[a].cycle = act[a].cycle
  BY <1>1, <1>6, LeftFollows
<1>8. act'[a].held = Nothing
  BY <1>1, LeftHolds
<1> QED
  BY <1>3, <1>4, <1>5, <1>7, <1>8 DEF Does

\* A written file says what its writer held; "activate" makes the cycle of the index the one of
\* the state file.
LEMMA WritesPointed ==
  ASSUME Typed, OnCourse, Lone, Apart, Alone, ~beside, ~spoiled, NEW a \in Activities,
         Writes(a),
         NEW p \in AnyCycle, NEW q \in AnyCycle, Pointed(p, q)
  PROVE  \E p1 \in AnyCycle : Pointed(p1, q)'
<1>1. /\ act[a] \in Activity /\ act[a].kind \in Kinds \ {"idle"} /\ act[a].held # Nothing
      /\ Op(a) \in Updates /\ Op(a) \in OpsOf(act[a].kind) /\ Does(a, Op(a))
      /\ Holds(a, FileOf(Op(a)))
      /\ disk'[FileOf(Op(a))] = act[a].held
      /\ \A f \in {"state", "index"} \ {FileOf(Op(a))} : disk'[f] = disk[f]
      /\ Others(a) /\ act'[a] = Left(act[a]) /\ act'[a].held = Nothing
  BY WritesIs
<1>2. dirs' = dirs /\ DiskPoints(p, q) /\ Points(a, p, q)
  BY DEF Writes, Pointed
<1>3. \A op : Does(a, op) => op = Op(a)
  BY DEF Does, Op
<1>4. \/ act'[a] = IdleActivity
      \/ act'[a].cycle = act[a].cycle /\ <<Op(a), Op(a)'>> \in Successions
  BY <1>1, LeftFollows
<1>5. CASE Op(a) \in StateOps \ {"activate"}
  <2>1. disk'["state"].active = p /\ disk'["index"] = disk["index"]
    BY <1>1, <1>2, <1>5 DEF Points, FileOf
  <2>2. DiskPoints(p, q)'
    BY <1>2, <2>1 DEF DiskPoints, Single
  <2>3. ~Fresh(a)
    BY <1>3, <1>5 DEF Fresh, StateOps
  <2>4. Points(a, p, q)'
    <3>1. CASE act'[a] = IdleActivity
      BY <3>1, IdlePoints
    <3>2. CASE <<Op(a), Op(a)'>> \in Successions
      BY <1>1, <1>5, <3>2, PlainPoints DEF Successions, StateOps
    <3> QED
      BY <1>4, <3>1, <3>2
  <2>5. Pointed(p, q)'
    BY <1>1, <1>2, <2>1, <2>2, <2>3, <2>4, KeepsPointed
  <2> QED
    BY <2>5
<1>6. CASE Op(a) = "activate"
  <2>1. Holds(a, "state") /\ disk'["state"].active = q /\ disk'["index"] = disk["index"]
    BY <1>1, <1>2, <1>6 DEF Points, FileOf, StateOps, Fresh
  <2>2. DiskPoints(q, q)'
    BY <1>2, <2>1 DEF DiskPoints, Single
  <2>3. \A b \in Activities \ {a} : ~Hand(b) /\ ~Holds(b, "state")
    BY <1>1, <1>6, <2>1, OnlyHand DEF Alone
  <2>4. Points(a, q, q)'
    <3>1. CASE act'[a] = IdleActivity
      BY <3>1, IdlePoints
    <3>2. CASE <<Op(a), Op(a)'>> \in Successions
      BY <1>1, <1>6, <3>2, PlainPoints DEF Successions
    <3> QED
      BY <1>4, <3>1, <3>2
  <2>5. Pointed(q, q)'
    BY <1>1, <2>2, <2>3, <2>4, HandPointed
  <2> QED
    BY <2>5
<1>7. CASE Op(a) \in IndexOps
  <2>1. FileOf(Op(a)) = "index"
    BY <1>7 DEF FileOf, StateOps, IndexOps
  <2>2. disk'["index"] = act[a].held /\ disk'["state"] = disk["state"] /\ Single(act[a].held, q)
    BY <1>1, <1>2, <2>1 DEF Points
  <2>3. DiskPoints(p, q)'
    BY <1>2, <2>2 DEF DiskPoints, Single
  <2>4. \A b \in Activities \ {a} : ~Does(b, "prepare")
    BY <1>1, <1>7, OnlyHand DEF IndexOps
  <2>5. Points(a, p, q)' /\ (Fresh(a) => Fresh(a)')
    <3>1. CASE Op(a) = "create"
      <4>1. /\ act'[a].cycle = q /\ act'[a].held = Nothing
            /\ \A op : Does(a, op)' <=> op = "activate"
        BY <1>1, <1>2, <3>1, CreatesThenActivates DEF Points, Fresh
      <4> QED
        BY <4>1 DEF Points, Fresh, Holds
    <3>2. CASE Op(a) # "create" /\ act'[a] = IdleActivity
      BY <1>3, <1>7, <3>2, IdlePoints DEF Fresh, IndexOps
    <3>3. CASE Op(a) \notin {"create", "applying"} /\ <<Op(a), Op(a)'>> \in Successions
      BY <1>1, <1>3, <1>7, <3>3, PlainPoints DEF Fresh, IndexOps, Successions
    <3>4. CASE Op(a) = "applying" /\ <<Op(a), Op(a)'>> \in Successions /\ act'[a].cycle = act[a].cycle
      <4>1. Op(a)' = "apply"
        BY <3>4 DEF Successions
      <4>2. \A op : Does(a, op)' => op = "apply"
        BY <4>1 DEF Does, Op
      <4>3. act[a].cycle \in dirs => act[a].cycle = p
        BY <1>1, <1>2, <3>4 DEF Points
      <4>4. ~Fresh(a)
        BY <1>3, <3>4 DEF Fresh
      <4> QED
        BY <1>1, <1>2, <3>4, <4>2, <4>3, <4>4 DEF Points, Fresh, Holds
    <3> QED
      BY <1>4, <3>1, <3>2, <3>3, <3>4
  <2>6. Pointed(p, q)'
    BY <1>1, <1>2, <2>3, <2>4, <2>5, KeepsPointed
  <2> QED
    BY <2>6
<1> QED
  BY <1>1, <1>5, <1>6, <1>7 DEF Updates

\* A read that finds nothing to update leads to no operation that looks at the cycles.
LEMMA ReadsPointed ==
  ASSUME Typed, OnCourse, NEW a \in Activities, Reads(a), Passes(a), NEW p, NEW q, Pointed(p, q)
  PROVE  Pointed(p, q)'
<1>1. PICK op \in Updates :
        /\ Does(a, op)
        /\ \/ /\ Changes(op, act[a].cycle, Reading(FileOf(op)))
              /\ act' = [act EXCEPT ![a].held = Changed(op, act[a].cycle, Reading(FileOf(op)))]
           \/ /\ ~Changes(op, act[a].cycle, Reading(FileOf(op))) \/ op = "addPlan"
              /\ IF op = "applying" THEN act' = [act EXCEPT ![a] = IdleActivity] ELSE Finishes(a, op)
        /\ UNCHANGED <<disk, dirs>>
  BY DEF Reads
<1>2. /\ act[a] \in Activity /\ act[a].kind # "idle" /\ Op(a) = op
      /\ \A o : Does(a, o) => o = op
  BY <1>1, OpIs DEF Op, Does
<1>3. ASSUME act' = [act EXCEPT ![a].held = Changed(op, act[a].cycle, Reading(FileOf(op)))]
      PROVE  FALSE
  <2> DEFINE x == Changed(op, act[a].cycle, Reading(FileOf(op)))
  <2>1. FileOf(op) \in {"state", "index"}
    BY DEF FileOf
  <2>2. x \in Contents(FileOf(op))
    BY <1>2, <2>1, ReadingIsTyped, ChangedIsTyped DEF Activity
  <2>3. x # Nothing
    BY <2>1, <2>2, NoContentAssumption
  <2>4. act'[a].held = x
    BY <1>2, <1>3 DEF Typed, Activity
  <2> QED
    BY <2>3, <2>4 DEF Passes
<1>4. op \notin {"create", "activate", "started", "dormant", "completed"}
  BY <1>1, <1>3 DEF Changes
<1>5. Others(a)
  BY <1>1, <1>3 DEF Finishes, Others, Typed
<1>6. ~Fresh(a)
  BY <1>2, <1>4 DEF Fresh
<1>7. CASE op = "applying"
  <2>1. act'[a] = IdleActivity
    BY <1>1, <1>3, <1>7 DEF Typed
  <2> QED
    BY <1>1, <1>5, <1>6, <2>1, PlainPointed
<1>8. CASE op # "applying"
  <2>1. act'[a] = Left(act[a])
    BY <1>1, <1>3, <1>8 DEF Finishes, Typed
  <2>2. act'[a] = IdleActivity \/ <<op, Op(a)'>> \in Successions
    BY <1>2, <2>1, LeftFollows
  <2>3. CASE act'[a] = IdleActivity
    BY <1>1, <1>5, <1>6, <2>3, PlainPointed
  <2>4. CASE <<op, Op(a)'>> \in Successions
    <3>1. Op(a)' \in {"load", "execute"}
      BY <1>1, <1>4, <1>8, <2>4 DEF Successions, Updates, StateOps, IndexOps
    <3> QED
      BY <1>1, <1>5, <1>6, <3>1, PlainPointed DEF Passes
  <2> QED
    BY <2>2, <2>3, <2>4
<1> QED
  BY <1>7, <1>8

\* Who goes on with a program keeps everything else.
LEMMA ProceedsKeeps ==
  ASSUME Typed, NEW a \in Activities, NEW t, Proceeds(a, t)
  PROVE  /\ Others(a) /\ act'[a].todo = t /\ act'[a].seen = act[a].seen
         /\ act'[a].cycle = act[a].cycle /\ act'[a].held = act[a].held
  BY DEF Proceeds, Typed, Activity, Others

\* The stages of a fire that do not look at the cycles.
LEMMA StagePointed ==
  ASSUME Typed, OnCourse, NEW a \in Activities, Step(a), Passes(a),
         Gates(a) \/ Acquire(a) \/ Execute(a) \/ Rest(a) \/ Release(a),
         NEW p, NEW q, Pointed(p, q)
  PROVE  Pointed(p, q)'
<1>1. Moved(a) /\ Others(a) /\ act[a].todo # <<>>
  BY StepMoves DEF Moved, Others
<1>2. disk' = disk /\ dirs' = dirs /\ act'[a].held = Nothing
  BY DEF Passes, Gates, Acquire, Execute, Rest, Release
<1>3. Op(a) \in {"gates", "acquire", "execute", "rest", "release"}
  BY DEF Gates, Acquire, Execute, Rest, Release, Does, Op
<1>4. ~Fresh(a)
  BY <1>3 DEF Fresh, Does, Op
<1>5. \/ act'[a] = IdleActivity
      \/ Op(a)' \in {"gates", "acquire", "started", "execute", "completed", "rest", "release"}
  BY <1>1, <1>3 DEF Moved, Moves, Successions
<1> QED
  BY <1>1, <1>2, <1>4, <1>5, PlainPointed

\* The active cycle is read from the state file.
LEMMA LoadPointed ==
  ASSUME Typed, OnCourse, NEW a \in Activities, Step(a), Passes(a), Load(a), ~spoiled',
         NEW p, NEW q, Pointed(p, q)
  PROVE  Pointed(p, q)'
<1>1. Moved(a) /\ Others(a) /\ act[a].todo # <<>> /\ act[a] \in Activity
  BY StepMoves DEF Moved, Others, Typed
<1>2. disk' = disk /\ dirs' = dirs /\ act'[a].held = Nothing /\ disk["state"] # Torn
  BY DEF Passes, Load
<1>3. Op(a) = "load" /\ ~Fresh(a)
  BY DEF Load, Does, Op, Fresh
<1>4. act'[a].seen = p
  <2> DEFINE t == Tail(act[a].todo)
  <2>1. act' = [act EXCEPT ![a] = [act[a] EXCEPT !.todo = t, !.seen = Reading("state").active]]
    BY DEF Load
  <2> HIDE DEF t
  <2>2. act'[a].seen = Reading("state").active
    BY <1>1, <2>1 DEF Typed, Activity
  <2>3. DiskPoints(p, q)
    BY DEF Pointed
  <2> QED
    BY <1>2, <2>2, <2>3 DEF Reading, DiskPoints
<1>5. act'[a] = IdleActivity \/ Op(a)' \in {"load", "discover", "workspace"}
  BY <1>1, <1>3 DEF Moved, Moves, Successions
<1>6. CASE act'[a] = IdleActivity \/ Op(a)' = "load"
  BY <1>1, <1>2, <1>3, <1>6, PlainPointed
<1>7. CASE Op(a)' \in {"discover", "workspace"}
  <2>1. \A o : Does(a, o)' => o \in {"discover", "workspace"}
    BY <1>7 DEF Does, Op
  <2>2. Points(a, p, q)'
    BY <1>2, <1>4, <2>1 DEF Points, Holds, Fresh
  <2>3. DiskPoints(p, q)'
    BY <1>2 DEF Pointed, DiskPoints, Single
  <2> QED
    BY <1>1, <1>2, <1>3, <2>2, <2>3, KeepsPointed
<1> QED
  BY <1>5, <1>6, <1>7

\* A discovery goes on with the cycle it has seen.
LEMMA DiscoverPointed ==
  ASSUME Typed, OnCourse, NEW a \in Activities, Step(a), Passes(a), Discover(a),
         NEW p, NEW q, Pointed(p, q)
  PROVE  Pointed(p, q)'
<1>1. Moved(a) /\ Others(a) /\ act[a].todo # <<>> /\ act[a] \in Activity
  BY StepMoves DEF Moved, Others, Typed
<1>2. disk' = disk /\ dirs' = dirs /\ act'[a].held = Nothing
  BY DEF Passes, Discover
<1>3. Op(a) = "discover" /\ Does(a, "discover") /\ ~Fresh(a)
  BY DEF Discover, Does, Op, Fresh
<1>4. act'[a].seen = act[a].seen /\ act[a].seen = p
  <2>1. act'[a].seen = act[a].seen
    BY ProceedsKeeps DEF Discover
  <2> QED
    BY <1>3, <2>1 DEF Pointed, Points
<1>5. act'[a] = IdleActivity \/ Op(a)' \in {"completed", "discover", "workspace"}
  BY <1>1, <1>3 DEF Moved, Moves, Successions
<1>6. CASE act'[a] = IdleActivity \/ Op(a)' = "completed"
  BY <1>1, <1>2, <1>3, <1>6, PlainPointed
<1>7. CASE Op(a)' \in {"discover", "workspace"}
  <2>1. \A o : Does(a, o)' => o \in {"discover", "workspace"}
    BY <1>7 DEF Does, Op
  <2>2. Points(a, p, q)'
    BY <1>2, <1>4, <2>1 DEF Points, Holds, Fresh
  <2>3. DiskPoints(p, q)'
    BY <1>2 DEF Pointed, DiskPoints, Single
  <2> QED
    BY <1>1, <1>2, <1>3, <2>2, <2>3, KeepsPointed
<1> QED
  BY <1>5, <1>6, <1>7

\* The active cycle is taken over.
LEMMA ReusesPointed ==
  ASSUME Typed, OnCourse, NEW a \in Activities, Step(a), Passes(a), Reuses(a), dirs' = dirs,
         ~Fresh(a),
         NEW p, NEW q, Pointed(p, q)
  PROVE  Pointed(p, q)'
<1>1. Others(a)
  BY StepMoves DEF Moved, Others
<1> DEFINE t == <<"addPlan", "execute", "completed">> \o Released(a)
<1>2. t # <<>> /\ Head(t) = "addPlan"
  BY RestHeads
<1>3. act' = [act EXCEPT ![a] = [act[a] EXCEPT !.cycle = act[a].seen, !.todo = t]]
  BY DEF Reuses
<1> HIDE DEF t
<1>4. act'[a].todo = t
  BY <1>3 DEF Typed, Activity
<1>5. Op(a)' = "addPlan"
  BY <1>2, <1>4 DEF Op
<1> QED
  BY <1>1, <1>5, PlainPointed DEF Passes

\* When the active cycle cannot be reused, none is active.
LEMMA WorkspacePointed ==
  ASSUME Typed, OnCourse, Lone, Apart, ~beside, NEW a \in Activities, Step(a), Passes(a),
         Workspace(a),
         ~spoiled', NEW p, NEW q, Pointed(p, q)
  PROVE  Pointed(p, q)'
<1>1. Does(a, "workspace") /\ ~Fresh(a)
  BY DEF Workspace, Does, Fresh
<1>2. disk' = disk /\ dirs' = dirs /\ act'[a].held = Nothing /\ disk["index"] # Torn
  BY DEF Passes, Workspace
<1>3. CASE Reuses(a)
  BY <1>1, <1>2, <1>3, ReusesPointed
<1>4. CASE ~Reusable(act[a].seen) /\ Proceeds(a, <<"prepare">> \o Released(a))
  <2> DEFINE t == <<"prepare">> \o Released(a)
  <2>1. t # <<>> /\ Head(t) = "prepare"
    BY RestHeads
  <2>2. Others(a) /\ act'[a].todo = t /\ act'[a].seen = act[a].seen
    BY <1>4, ProceedsKeeps
  <2> HIDE DEF t
  <2>3. \A o : Does(a, o)' <=> o = "prepare"
    BY <2>1, <2>2 DEF Does
  <2>4. DiskPoints(p, q) /\ act[a].seen = p
    BY <1>1 DEF Pointed, Points
  <2>5. q = p
    <3>1. \A b \in Activities \ {a} : ~Fresh(b)
      BY <1>1, OnlyHand
    <3> QED
      BY <1>1, <3>1 DEF Pointed
  <2>6. ASSUME NEW x \in dirs, disk["index"][x] = "active" PROVE FALSE
    <3>1. x = p
      BY <1>2, <2>4, <2>5, <2>6 DEF DiskPoints, Single
    <3>2. x # NoCycle
      BY DiscoveryAssumption DEF Typed, Cycles, NoCycle
    <3> QED
      BY <1>2, <1>4, <2>4, <2>6, <3>1, <3>2 DEF Reusable, Reading
  <2>7. Points(a, p, q)'
    BY <1>2, <2>2, <2>3, <2>4, <2>6 DEF Points, Holds, Fresh
  <2>8. DiskPoints(p, q)'
    BY <1>2, <2>4 DEF DiskPoints, Single
  <2> QED
    BY <1>1, <1>2, <2>2, <2>7, <2>8, KeepsPointed
<1> QED
  BY <1>3, <1>4 DEF Workspace

\* A new cycle is made where none is active.
LEMMA PreparePointed ==
  ASSUME Typed, OnCourse, Lone, Apart, ~beside, NEW a \in Activities, Step(a), Passes(a),
         Prepare(a), Typed',
         NEW p \in AnyCycle, NEW q \in AnyCycle, Pointed(p, q)
  PROVE  \E q1 \in AnyCycle : Pointed(p, q1)'
<1>1. Does(a, "prepare") /\ ~Fresh(a) /\ Op(a) = "prepare"
  BY DEF Prepare, Does, Fresh, Op
<1>2. disk' = disk /\ act[a].held = Nothing /\ act'[a].held = Nothing
  BY DEF Passes
<1>3. CASE Reuses(a) /\ dirs' = dirs
  <2>1. Pointed(p, q)'
    BY <1>1, <1>3, ReusesPointed
  <2> QED
    BY <2>1
<1> DEFINE t == <<"create", "activate", "addPlan", "execute", "completed">> \o Released(a)
<1>4. ASSUME NEW c, dirs' = dirs \cup {c},
             act' = [act EXCEPT ![a] = [act[a] EXCEPT !.cycle = c, !.todo = t]]
      PROVE  \E q1 \in AnyCycle : Pointed(p, q1)'
  <2>1. t # <<>> /\ Head(t) = "create"
    BY RestHeads
  <2> HIDE DEF t
  <2>2. Others(a) /\ act'[a].todo = t /\ act'[a].cycle = c
    BY <1>4 DEF Others, Typed, Activity
  <2>3. \A o : Does(a, o)' <=> o = "create"
    BY <2>1, <2>2 DEF Does
  <2>4. DiskPoints(p, q) /\ Points(a, p, q)
    BY DEF Pointed
  <2>5. \A b \in Activities \ {a} : ~Hand(b)
    BY <1>1, OnlyHand
  <2>6. ASSUME NEW b \in Activities \ {a}, Holds(b, "state") PROVE act[b].held.active = p
    <3>1. ~Does(b, "activate")
      BY <2>5, HandOps
    <3>2. Does(b, Op(b))
      BY <2>6 DEF Holds, OnCourse, Course, Does, Op
    <3>3. Points(b, p, q) /\ Op(b) # "activate"
      BY <3>1, <3>2 DEF Pointed
    <3> QED
      BY <2>6, <3>3 DEF Points
  <2>7. DiskPoints(p, c)'
    <3>1. disk["index"] # Torn => \A x \in dirs : disk["index"][x] # "active"
      BY <1>1, <2>4 DEF Points
    <3> QED
      BY <1>2, <1>4, <2>4, <3>1 DEF DiskPoints, Single
  <2>8. Points(a, p, c)'
    BY <1>2, <2>2, <2>3 DEF Points, Holds, Fresh
  <2>9. Fresh(a)'
    BY <2>3 DEF Fresh
  <2>10. c \in AnyCycle
    <3>1. act'[a] \in Activity
      BY DEF Typed
    <3> QED
      BY <2>2, <3>1 DEF Activity, AnyCycle
  <2>11. Pointed(p, c)'
    BY <2>2, <2>5, <2>6, <2>7, <2>8, <2>9, HandPointed
  <2> QED
    BY <2>10, <2>11
<1> QED
  BY <1>3, <1>4 DEF Prepare

\* Whether an apply succeeds or fails, the cycle was the active one.
LEMMA ApplyPointed ==
  ASSUME Typed, OnCourse, NEW a \in Activities, Step(a), Passes(a), Apply(a), NEW p, NEW q,
         Pointed(p, q)
  PROVE  Pointed(p, q)'
<1>1. Does(a, "apply") /\ ~Fresh(a)
  BY DEF Apply, Does, Fresh
<1>2. disk' = disk /\ dirs' = dirs /\ act'[a].held = Nothing
  BY DEF Passes, Apply
<1>3. PICK op \in {"applied", "restored"} : Proceeds(a, <<op>>)
  BY DEF Apply
<1>4. Others(a) /\ act'[a].todo = <<op>> /\ act'[a].cycle = act[a].cycle
  BY <1>3, ProceedsKeeps
<1>5. \A o : Does(a, o)' => o = op
  BY <1>4 DEF Does
<1>6. act[a].cycle \in dirs => act[a].cycle = p
  BY <1>1 DEF Pointed, Points
<1>7. Points(a, p, q)'
  BY <1>2, <1>4, <1>5, <1>6 DEF Points, Holds, Fresh
<1>8. DiskPoints(p, q)'
  BY <1>2 DEF Pointed, DiskPoints, Single
<1> QED
  BY <1>1, <1>2, <1>4, <1>7, <1>8, KeepsPointed

\* What a step that passes is.
LEMMA PassesIs ==
  ASSUME Typed, OnCourse, NEW a \in Activities, Step(a), Passes(a)
  PROVE  \/ Reads(a) \/ Load(a) \/ Discover(a) \/ Workspace(a) \/ Prepare(a) \/ Apply(a)
         \/ Gates(a) \/ Acquire(a) \/ Execute(a) \/ Rest(a) \/ Release(a)
<1>1. ~Disposes(a) /\ ~Opens(a)
  BY DEF Disposes, Opens, Passes
<1>2. ~Writes(a)
  BY DEF Writes, Passes, OnCourse, Course
<1> QED
  BY <1>1, <1>2 DEF Step

\* Every step of an activity keeps the files in agreement, or loses an update.
LEMMA StepPointed ==
  ASSUME Typed, OnCourse, Typed', Lone, Apart, Alone, ~beside, ~spoiled, ~spoiled',
         NEW a \in Activities, Step(a), NEW p \in AnyCycle, NEW q \in AnyCycle, Pointed(p, q)
  PROVE  \E p1, q1 \in AnyCycle : Pointed(p1, q1)'
<1>1. Others(a)
  BY StepMoves DEF Moved, Others
<1>2. CASE Takes(a)
  <2>1. Pointed(p, q)'
    BY <1>1, <1>2, TakesPointed
  <2> QED
    BY <2>1
<1>3. CASE Disposes(a) \/ Opens(a)
  <2>1. Pointed(p, q)'
    BY <1>3, OpensPointed
  <2> QED
    BY <2>1
<1>4. CASE Writes(a)
  <2>1. \E p1 \in AnyCycle : Pointed(p1, q)'
    BY <1>4, WritesPointed
  <2> QED
    BY <2>1
<1>5. CASE Passes(a)
  <2>1. CASE Prepare(a)
    <3>1. \E q1 \in AnyCycle : Pointed(p, q1)'
      BY <1>5, <2>1, PreparePointed
    <3> QED
      BY <3>1
  <2>2. CASE ~Prepare(a)
    <3>1. CASE Reads(a)
      BY <1>5, <3>1, ReadsPointed
    <3>2. CASE Load(a)
      BY <1>5, <3>2, LoadPointed
    <3>3. CASE Discover(a)
      BY <1>5, <3>3, DiscoverPointed
    <3>4. CASE Workspace(a)
      BY <1>5, <3>4, WorkspacePointed
    <3>5. CASE Apply(a)
      BY <1>5, <3>5, ApplyPointed
    <3>6. CASE Gates(a) \/ Acquire(a) \/ Execute(a) \/ Rest(a) \/ Release(a)
      BY <1>5, <3>6, StagePointed
    <3> QED
      BY <1>5, <2>2, <3>1, <3>2, <3>3, <3>4, <3>5, <3>6, PassesIs
  <2> QED
    BY <2>1, <2>2
<1> QED
  BY <1>2, <1>3, <1>4, <1>5, StepHolds

\* A rejected operation that is no update leads to the end of the fire.
LEMMA FaultPointed ==
  ASSUME Typed, OnCourse, NEW a \in Activities, Fault(a), ~spoiled', NEW p, NEW q, Pointed(p, q)
  PROVE  Pointed(p, q)'
<1>1. Passes(a) /\ Op(a) \notin Updates
  BY FaultHolds
<1>2. /\ Others(a)
      /\ act'[a] = IdleActivity \/ Op(a)' \in {"release", "completed"}
  BY FaultMoves DEF Others
<1>3. ~Fresh(a)
  BY <1>1 DEF Fresh, Does, Op, Updates, StateOps, IndexOps
<1>4. disk' = disk /\ dirs' = dirs /\ act'[a].held = Nothing
  BY <1>1 DEF Fault, Passes
<1> QED
  BY <1>2, <1>3, <1>4, PlainPointed

\* Who begins has not looked at the cycles.
LEMMA BeginsPointed ==
  ASSUME Typed, OnCourse, NEW a \in Activities, NEW k, NEW g, NEW t, NEW c, Begins(a, k, g, t,
         c),
         Head(t) \in {"gates", "rouse", "load", "applying", "archive"}, disk' = disk, dirs' = dirs,
         NEW p, NEW q, Pointed(p, q)
  PROVE  Pointed(p, q)'
<1>1. act[a].todo = <<>> /\ Others(a) /\ act'[a].todo = t /\ act'[a].held = Nothing
  BY BeginsMoves DEF Others
<1>2. ~Fresh(a)
  BY <1>1 DEF Fresh, Does
<1>3. Op(a)' \in {"gates", "rouse", "load", "applying", "archive"}
  BY <1>1 DEF Op
<1> QED
  BY <1>1, <1>2, <1>3, PlainPointed

\* The cooldown is no matter of the cycles.
LEMMA CooldownPointed ==
  ASSUME Typed, OnCourse, CooldownEnds, NEW p, NEW q, Pointed(p, q) PROVE Pointed(p, q)'
<1>1. dirs' = dirs
  BY DEF CooldownEnds
<1>2. disk' = [disk EXCEPT !["state"] =
          IF disk["state"] = Torn THEN Torn ELSE [disk["state"] EXCEPT !.cooling = FALSE]]
  BY DEF CooldownEnds
<1>3. /\ disk'["index"] = disk["index"]
      /\ disk'["state"] # Torn => disk["state"] # Torn /\ disk'["state"].active = disk["state"].active
  <2>1. disk["state"] = Torn \/ disk["state"] \in State
    BY ContentsAre DEF Typed
  <2>2. CASE disk["state"] = Torn
    BY <1>2, <2>2 DEF Typed
  <2>3. CASE disk["state"] # Torn
    <3>1. [disk["state"] EXCEPT !.cooling = FALSE].active = disk["state"].active
      BY <2>1, <2>3 DEF State
    <3> QED
      BY <1>2, <2>3, <3>1 DEF Typed
  <2> QED
    BY <2>2, <2>3
<1>4. DiskPoints(p, q)'
  BY <1>1, <1>3 DEF Pointed, DiskPoints, Single
<1>5. ASSUME NEW b \in Activities PROVE Points(b, p, q)' /\ Fresh(b)' = Fresh(b)
  <2>1. /\ act'[b].todo = act[b].todo /\ act'[b].cycle = act[b].cycle /\ act'[b].seen = act[b].seen
    BY CooldownMoves
  <2>2. \A op : Does(b, op)' = Does(b, op)
    BY <2>1 DEF Does
  <2>3. Op(b)' = Op(b) /\ Fresh(b)' = Fresh(b)
    BY <2>1, <2>2 DEF Op, Fresh
  <2>4. CASE ~Holds(b, "state")
    <3>1. act'[b] = act[b]
      BY <2>4 DEF CooldownEnds, Holds, Op
    <3> QED
      BY <1>1, <1>3, <2>3, <3>1, OtherPoints DEF Pointed
  <2>5. CASE Holds(b, "state")
    <3>1. act[b].held \in State /\ act[b].held # Nothing
      BY <2>5, ContentsAre DEF Holds, OnCourse, Course, Op
    <3>2. act'[b].held = [act[b].held EXCEPT !.cooling = FALSE]
      <4>1. act'[b] = [act[b] EXCEPT !.held.cooling = FALSE] /\ act[b] \in Activity
        BY <2>5 DEF CooldownEnds, Holds, Op, Typed
      <4> QED
        BY <4>1 DEF Activity
    <3>3. act'[b].held.active = act[b].held.active
      BY <3>1, <3>2 DEF State
    <3>4. ~Holds(b, "index")'
      BY <2>3, <2>5 DEF Holds
    <3>5. Points(b, p, q)
      BY DEF Pointed
    <3> QED
      BY <1>1, <1>3, <2>1, <2>2, <2>3, <2>5, <3>1, <3>3, <3>4, <3>5 DEF Points
  <2> QED
    BY <2>3, <2>4, <2>5
<1> QED
  BY <1>4, <1>5 DEF Pointed

\* Nothing happens to files and activities.
LEMMA StaysPointed ==
  ASSUME UNCHANGED <<act, disk, dirs>>, NEW p, NEW q, Pointed(p, q) PROVE Pointed(p, q)'
  BY DEF Pointed, DiskPoints, Points, Single, Holds, Op, Does, Fresh

\* A crash with nothing under way.
LEMMA CrashPointed ==
  ASSUME Typed, OnCourse, Crash, ~spoiled', NEW p, NEW q, Pointed(p, q) PROVE Pointed(p, q)'
<1>1. \A b \in Activities : act[b].kind = "idle"
  BY DEF Crash
<1>2. \A b \in Activities : act[b].todo = <<>>
  BY <1>1 DEF OnCourse, Course, Programs
<1>3. \A b \in Activities : ~Fresh(b)
  BY <1>2 DEF Fresh, Does
<1>4. \A b \in Activities : act'[b] = IdleActivity
  BY DEF Crash
<1>5. \A b \in Activities : Points(b, p, q)'
  BY <1>4, IdlePoints
<1>6. DiskPoints(p, q)'
  BY DEF Crash, Pointed, DiskPoints, Single
<1>7. q = p
  BY <1>3 DEF Pointed
<1> QED
  BY <1>5, <1>6, <1>7 DEF Pointed

\* Every step keeps the files in agreement.
LEMMA NextKeeps ==
  ASSUME Typed, OnCourse, Typed', Lone, Apart, Alone, Kept, [Next]_vars PROVE Kept'
<1>1. SUFFICES ASSUME ~spoiled', ~beside' PROVE \E p, q \in AnyCycle : Pointed(p, q)'
  BY DEF Kept
<1>2. ~spoiled /\ ~beside
  BY <1>1, OnceSpoiled
<1>3. PICK p \in AnyCycle, q \in AnyCycle : Pointed(p, q)
  BY <1>2 DEF Kept
<1>4. CASE \E g \in Gens : Start(g) \/ StartFails(g) \/ Stop(g) \/ StopDone(g) \/ WatcherFails(g)
  <2>1. UNCHANGED <<act, disk, dirs>>
    BY <1>4 DEF Start, StartFails, Stop, StopDone, WatcherFails
  <2>2. Pointed(p, q)'
    BY <1>3, <2>1, StaysPointed
  <2> QED
    BY <2>2
<1>5. ASSUME NEW g \in Gens, NEW a \in Activities, TimerFires(g, a) \/ Signal(g, a) \/ Rerun(g,
             a)
      PROVE  Pointed(p, q)'
  <2>1. CASE TimerFires(g, a)
    BY <1>3, <2>1, BeginsPointed DEF TimerFires
  <2>2. CASE Signal(g, a)
    BY <1>3, <2>2, BeginsPointed DEF Signal
  <2>3. CASE Rerun(g, a)
    BY <1>3, <2>3, BeginsPointed DEF Rerun
  <2> QED
    BY <1>5, <2>1, <2>2, <2>3
<1>6. ASSUME NEW a \in Activities, Edit(a) PROVE Pointed(p, q)'
  <2>1. PICK c \in 1..used.cycles, kind \in {"apply", "archive"} :
          Begins(a, kind, 1, IF kind = "apply" THEN <<"applying", "apply">> ELSE <<"archive">>, c)
    BY <1>6 DEF Edit
  <2> DEFINE t == IF kind = "apply" THEN <<"applying", "apply">> ELSE <<"archive">>
  <2>2. Begins(a, kind, 1, t, c) /\ disk' = disk /\ dirs' = dirs
    BY <1>6, <2>1 DEF Edit
  <2>3. Head(t) \in {"applying", "archive"}
    OBVIOUS
  <2> HIDE DEF t
  <2> QED
    BY <1>3, <2>2, <2>3, BeginsPointed
<1>7. ASSUME NEW a \in Activities, Step(a) PROVE \E p1, q1 \in AnyCycle : Pointed(p1, q1)'
  BY <1>1, <1>2, <1>3, <1>7, StepPointed
<1>8. ASSUME NEW a \in Activities, Fault(a) PROVE Pointed(p, q)'
  BY <1>1, <1>3, <1>8, FaultPointed
<1>9. CASE Crash
  <2>1. Pointed(p, q)'
    BY <1>1, <1>3, <1>9, CrashPointed
  <2> QED
    BY <2>1
<1>10. CASE CooldownEnds
  <2>1. Pointed(p, q)'
    BY <1>3, <1>10, CooldownPointed
  <2> QED
    BY <2>1
<1>11. CASE UNCHANGED vars
  <2>1. Pointed(p, q)'
    BY <1>3, <1>11, StaysPointed DEF vars
  <2> QED
    BY <2>1
<1> QED
  BY <1>4, <1>5, <1>6, <1>7, <1>8, <1>9, <1>10, <1>11 DEF Next

\* No cycle is active at first, by either file.
LEMMA InitKeeps == Init => Kept
<1> SUFFICES ASSUME Init PROVE \E p, q \in AnyCycle : Pointed(p, q)
  BY DEF Kept
<1>1. \A a \in Activities : act[a].todo = <<>> /\ act[a].held = Nothing
  BY DEF Init, IdleActivity
<1>2. disk["state"].active = NoCycle /\ dirs = {}
  BY DEF Init, Default
<1>3. Pointed(NoCycle, NoCycle)
  BY <1>1, <1>2 DEF Pointed, DiskPoints, Points, Single, Fresh, Does, Holds
<1> QED
  BY <1>3 DEF AnyCycle

\* Files that agree on the active cycle know of one at most.
LEMMA KeptIsOne ==
  ASSUME Typed, Kept PROVE OneActiveCycle
<1>1. SUFFICES ASSUME disk["index"] # Torn, ~spoiled, ~beside
      PROVE  Cardinality(ActiveCycles) <= 1
  BY DEF OneActiveCycle
<1>2. PICK q : Single(disk["index"], q)
  BY <1>1 DEF Kept, Pointed, DiskPoints
<1>3. \A x \in ActiveCycles : x = q
  BY <1>1, <1>2 DEF ActiveCycles, Reading, Single
<1>4. CASE ActiveCycles = {}
  BY <1>4, FS_EmptySet
<1>5. CASE ActiveCycles # {}
  <2>1. ActiveCycles = {q}
    BY <1>3, <1>5
  <2> QED
    BY <2>1, FS_Singleton
<1> QED
  BY <1>4, <1>5

\* At most one work cycle with a workspace is active, as long as no update of a file has been
\* lost and nothing ran beside a rerun or an edit.
THEOREM OneActiveCycleHolds == Spec => []OneActiveCycle
<1>1. Init => Kept
  BY InitKeeps
<1>2. Faithful /\ Faithful' /\ Kept /\ [Next]_vars => Kept'
  BY NextKeeps DEF Faithful, Sequenced
<1>3. Faithful /\ Kept => OneActiveCycle
  BY KeptIsOne DEF Faithful, Sequenced
<1>4. Spec => []Kept
  BY <1>1, <1>2, SpecIsFaithful, PTL DEF Spec
<1> QED
  BY <1>3, <1>4, SpecIsFaithful, PTL
==============================================================================
