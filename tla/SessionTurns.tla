---------------------------- MODULE SessionTurns ----------------------------
(***************************************************************************)
(* Turns of the gateway: SessionRouter, InProcessGateway.submitTurn and    *)
(* abortTurn, the two prompt buses, and the AgentSession objects the turns *)
(* run in.                                                                 *)
(*                                                                         *)
(* Everything runs on one JavaScript event loop, so a step here is the     *)
(* code between two awaits.  A turn is two coroutines: the host side, the  *)
(* async generator submitTurn that hands events to whoever submitted, and  *)
(* the pump, which opens the session and drives the agent.                 *)
(*                                                                         *)
(* An AgentSession object is named after the turn whose pump built it, so  *)
(* a session key may be served by several objects over time.               *)
(***************************************************************************)
EXTENDS Naturals, FiniteSets

CONSTANTS
    Keys,        \* session keys
    Turns,       \* calls of submitTurn, each with a runId of its own
    KeyOf,       \* the session key each call names
    Aborts,      \* calls of abortTurn
    MaxAsks,     \* how many prompts one run may raise
    EarlyLeave,  \* may a host stop iterating a stream before its end?
    NoTurn       \* undefined

ASSUME KeyOfAssumption == KeyOf \in [Turns -> Keys]
ASSUME NoTurnAssumption == NoTurn \notin Turns
ASSUME MaxAsksAssumption == MaxAsks \in Nat
ASSUME EarlyLeaveAssumption == EarlyLeave \in BOOLEAN

VARIABLES
    \* SessionRouter
    record,      \* sessions: key -> the object that serves it, or NoTurn
    dirty,       \* SessionRecord.dirtyReason is set
    slot,        \* inFlightTurns: key -> the turn that holds it
    \* InProcessGateway
    completion,  \* turnCompletions: key -> the turn whose deferred is there
    sink,        \* emitSinks and activeTurnReplays: key -> the turn to show to
    permissionBus,   \* key -> turns with a registered permission request
    elicitationBus,  \* key -> turns with a registered question
    host,        \* submitTurn's generator, per turn
    pump,        \* submitTurn's background pump, per turn
    object,      \* the AgentSession the pump works with
    prompt,      \* what the run is blocked on
    asks,        \* prompts raised by the run so far
    shownTo,     \* the turn whose stream showed the last prompt
    \* AgentSession
    controller,  \* object -> the turn its abortController belongs to
    aborted,     \* turns whose signal has fired
    memory,      \* object -> the turns in state.messages
    base,        \* turn -> state.messages as its run found them
    transcript,  \* key -> the turns recorded on disk
    \* abortTurn
    call,        \* where each call of abortTurn is
    target,      \* the key it names
    awaited,     \* the turn whose completion it awaits
    found        \* the turn that held the slot when it was called

routerVars  == <<record, dirty, slot>>
gatewayVars == <<completion, sink, permissionBus, elicitationBus>>
turnVars    == <<host, pump, object, prompt, asks, shownTo>>
agentVars   == <<controller, aborted, memory, base, transcript>>
abortVars   == <<call, target, awaited, found>>
vars == <<routerVars, gatewayVars, turnVars, agentVars, abortVars>>

MaybeTurn == Turns \cup {NoTurn}
Objects == Turns

HostStates == {"new", "refreshing", "streaming", "draining", "done", "busy"}
PumpStates == {"off", "creating", "recreating", "preparing",
               "starting", "running", "finished"}
Prompts == {"none", "permission", "question"}
CallStates == {"idle", "signalled", "waiting", "returned"}

TypeOK ==
    /\ record \in [Keys -> MaybeTurn]
    /\ dirty \in [Keys -> BOOLEAN]
    /\ slot \in [Keys -> MaybeTurn]
    /\ completion \in [Keys -> MaybeTurn]
    /\ sink \in [Keys -> MaybeTurn]
    /\ permissionBus \in [Keys -> SUBSET Turns]
    /\ elicitationBus \in [Keys -> SUBSET Turns]
    /\ host \in [Turns -> HostStates]
    /\ pump \in [Turns -> PumpStates]
    /\ object \in [Turns -> MaybeTurn]
    /\ prompt \in [Turns -> Prompts]
    /\ asks \in [Turns -> 0..MaxAsks]
    /\ shownTo \in [Turns -> MaybeTurn]
    /\ controller \in [Objects -> MaybeTurn]
    /\ aborted \subseteq Turns
    /\ memory \in [Objects -> SUBSET Turns]
    /\ base \in [Turns -> SUBSET Turns]
    /\ transcript \in [Keys -> SUBSET Turns]
    /\ call \in [Aborts -> CallStates]
    /\ target \in [Aborts -> Keys]
    /\ awaited \in [Aborts -> MaybeTurn]
    /\ found \in [Aborts -> MaybeTurn]

Init ==
    /\ record = [k \in Keys |-> NoTurn]
    /\ dirty = [k \in Keys |-> FALSE]
    /\ slot = [k \in Keys |-> NoTurn]
    /\ completion = [k \in Keys |-> NoTurn]
    /\ sink = [k \in Keys |-> NoTurn]
    /\ permissionBus = [k \in Keys |-> {}]
    /\ elicitationBus = [k \in Keys |-> {}]
    /\ host = [t \in Turns |-> "new"]
    /\ pump = [t \in Turns |-> "off"]
    /\ object = [t \in Turns |-> NoTurn]
    /\ prompt = [t \in Turns |-> "none"]
    /\ asks = [t \in Turns |-> 0]
    /\ shownTo = [t \in Turns |-> NoTurn]
    /\ controller = [o \in Objects |-> NoTurn]
    /\ aborted = {}
    /\ memory = [o \in Objects |-> {}]
    /\ base = [t \in Turns |-> {}]
    /\ transcript = [k \in Keys |-> {}]
    /\ call = [a \in Aborts |-> "idle"]
    /\ target \in [Aborts -> Keys]
    /\ awaited = [a \in Aborts |-> NoTurn]
    /\ found = [a \in Aborts |-> NoTurn]

-----------------------------------------------------------------------------
(* SessionRouter *)

\* sweepIdle may drop any session whose slot is free: how long it has been idle
\* is left to chance.
Idle(k) == record[k] # NoTurn /\ slot[k] = NoTurn

Swept(evicted) == [k \in Keys |-> IF k \in evicted THEN NoTurn ELSE record[k]]
CleanAfter(evicted) == [k \in Keys |-> dirty[k] /\ k \notin evicted]

\* describeServer asks for sessionCount, which sweeps.
DescribeServer ==
    \E evicted \in SUBSET {k \in Keys : Idle(k)} :
        /\ evicted # {}
        /\ record' = Swept(evicted)
        /\ dirty' = CleanAfter(evicted)
        /\ UNCHANGED <<slot, gatewayVars, turnVars, agentVars, abortVars>>

\* A configuration or extension change marks the cached sessions.
MarkDirty(k) ==
    /\ record[k] # NoTurn
    /\ ~dirty[k]
    /\ dirty' = [dirty EXCEPT ![k] = TRUE]
    /\ UNCHANGED <<record, slot, gatewayVars, turnVars, agentVars, abortVars>>

\* closeSession forgets the cached session; a turn in flight keeps its slot.
Close(k) ==
    /\ record[k] # NoTurn
    /\ record' = [record EXCEPT ![k] = NoTurn]
    /\ dirty' = [dirty EXCEPT ![k] = FALSE]
    /\ UNCHANGED <<slot, gatewayVars, turnVars, agentVars, abortVars>>

-----------------------------------------------------------------------------
(* submitTurn: the host side *)

\* The host calls submitTurn, which first awaits the configuration refresh.
Submit(t) ==
    /\ host[t] = "new"
    /\ host' = [host EXCEPT ![t] = "refreshing"]
    /\ UNCHANGED <<routerVars, gatewayVars, pump, object, prompt, asks, shownTo,
                   agentVars, abortVars>>

\* beginTurn refuses a key whose slot is taken.
RefuseBusy(t) ==
    /\ host[t] = "refreshing"
    /\ slot[KeyOf[t]] # NoTurn
    /\ \E evicted \in SUBSET {k \in Keys : Idle(k)} :
          /\ record' = Swept(evicted)
          /\ dirty' = CleanAfter(evicted)
    /\ host' = [host EXCEPT ![t] = "busy"]
    /\ UNCHANGED <<slot, gatewayVars, pump, object, prompt, asks, shownTo,
                   agentVars, abortVars>>

\* beginTurn takes the slot; the pump runs up to its first await, in getOrCreate:
\* a fresh record is used as it is, a dirty one is rebuilt, a missing one created.
Begin(t) ==
    LET k == KeyOf[t] IN
    /\ host[t] = "refreshing"
    /\ slot[k] = NoTurn
    /\ \E evicted \in SUBSET {j \in Keys : Idle(j)} :
          LET cached == Swept(evicted)[k] IN
          /\ record' = Swept(evicted)
          /\ dirty' = CleanAfter(evicted)
          /\ object' = [object EXCEPT ![t] = cached]
          /\ pump' = [pump EXCEPT ![t] =
                         IF cached = NoTurn THEN "creating"
                         ELSE IF dirty[k] THEN "recreating"
                         ELSE "preparing"]
    /\ slot' = [slot EXCEPT ![k] = t]
    /\ completion' = [completion EXCEPT ![k] = t]
    /\ sink' = [sink EXCEPT ![k] = t]
    /\ host' = [host EXCEPT ![t] = "streaming"]
    /\ UNCHANGED <<permissionBus, elicitationBus, prompt, asks, shownTo,
                   agentVars, abortVars>>

\* Mutant: the entries are rejected but the bucket is not deleted.
EmptiedNot(bus, k) == bus

\* rejectSession drops the whole bucket of the session.
Emptied(bus, k) == [bus EXCEPT ![k] = {}]

\* rejectSession: every run still blocked on a registered prompt is woken.
Rejected(k) ==
    [u \in Turns |->
        IF \/ prompt[u] = "permission" /\ u \in permissionBus[k]
           \/ prompt[u] = "question" /\ u \in elicitationBus[k]
        THEN "none" ELSE prompt[u]]

Unwind(t) ==
    LET k == KeyOf[t] IN
    /\ sink' = [sink EXCEPT ![k] = NoTurn]
    /\ prompt' = Rejected(k)
    /\ permissionBus' = Emptied(permissionBus, k)
    /\ elicitationBus' = Emptied(elicitationBus, k)
    /\ slot' = [slot EXCEPT ![k] = IF @ = t THEN NoTurn ELSE @]
    /\ host' = [host EXCEPT ![t] = "draining"]
    /\ UNCHANGED <<record, dirty, completion, pump, object, asks, shownTo,
                   agentVars, abortVars>>

\* The queue is closed and read to its end.
StreamEnds(t) ==
    /\ host[t] = "streaming"
    /\ pump[t] = "finished"
    /\ Unwind(t)

\* The host's own loop body fails (CronFire awaits a write to disk in it) after an
\* event was handed over: the generator is returned and its finally block runs
\* while the agent is still at work.
Leave(t) ==
    /\ EarlyLeave
    /\ host[t] = "streaming"
    /\ pump[t] \in {"starting", "running"}
    /\ Unwind(t)

\* The finally block has awaited the pump; it releases those who await the turn.
Drained(t) ==
    LET k == KeyOf[t] IN
    /\ host[t] = "draining"
    /\ pump[t] = "finished"
    /\ completion' = [completion EXCEPT ![k] = IF @ = t THEN NoTurn ELSE @]
    /\ host' = [host EXCEPT ![t] = "done"]
    /\ UNCHANGED <<routerVars, sink, permissionBus, elicitationBus,
                   pump, object, prompt, asks, shownTo, agentVars, abortVars>>

-----------------------------------------------------------------------------
(* submitTurn: the pump *)

\* createSession resumes the conversation from the transcript.
Created(t) ==
    LET k == KeyOf[t] IN
    /\ pump[t] = "creating"
    /\ record' = [record EXCEPT ![k] = t]
    /\ dirty' = [dirty EXCEPT ![k] = FALSE]
    /\ object' = [object EXCEPT ![t] = t]
    /\ memory' = [memory EXCEPT ![t] = transcript[k]]
    /\ pump' = [pump EXCEPT ![t] = "preparing"]
    /\ UNCHANGED <<slot, gatewayVars, host, prompt, asks, shownTo,
                   controller, aborted, base, transcript, abortVars>>

\* Mutant: the rebuilt session starts from an empty conversation.
RecreatedEmpty(t) ==
    LET k == KeyOf[t] IN
    /\ pump[t] = "recreating"
    /\ record' = [record EXCEPT ![k] = IF @ = NoTurn THEN NoTurn ELSE t]
    /\ dirty' = [dirty EXCEPT ![k] = FALSE]
    /\ object' = [object EXCEPT ![t] = t]
    /\ memory' = [memory EXCEPT ![t] = {}]
    /\ pump' = [pump EXCEPT ![t] = "preparing"]
    /\ UNCHANGED <<slot, gatewayVars, host, prompt, asks, shownTo,
                   controller, aborted, base, transcript, abortVars>>

\* recreateSession copies the conversation of the object it replaces.  A record
\* closed in the meantime stays closed: only the detached record is updated.
Recreated(t) ==
    LET k == KeyOf[t] IN
    /\ pump[t] = "recreating"
    /\ record' = [record EXCEPT ![k] = IF @ = NoTurn THEN NoTurn ELSE t]
    /\ dirty' = [dirty EXCEPT ![k] = FALSE]
    /\ object' = [object EXCEPT ![t] = t]
    /\ memory' = [memory EXCEPT ![t] = memory[object[t]]]
    /\ pump' = [pump EXCEPT ![t] = "preparing"]
    /\ UNCHANGED <<slot, gatewayVars, host, prompt, asks, shownTo,
                   controller, aborted, base, transcript, abortVars>>

\* Mutant: a failure does not close the queue.
OpenFailsSilently(t) ==
    /\ pump[t] \in {"creating", "recreating", "preparing"}
    /\ pump' = [pump EXCEPT ![t] = "off"]
    /\ UNCHANGED <<routerVars, gatewayVars, host, object, prompt, asks, shownTo,
                   agentVars, abortVars>>

\* Opening the session, or reading the attachments, may fail: the pump reports the
\* error and closes the queue.
OpenFails(t) ==
    /\ pump[t] \in {"creating", "recreating", "preparing"}
    /\ pump' = [pump EXCEPT ![t] = "finished"]
    /\ UNCHANGED <<routerVars, gatewayVars, host, object, prompt, asks, shownTo,
                   agentVars, abortVars>>

\* session.submit: a new AbortController for the object, then the session hooks.
Start(t) ==
    /\ pump[t] = "preparing"
    /\ controller' = [controller EXCEPT ![object[t]] = t]
    /\ pump' = [pump EXCEPT ![t] = "starting"]
    /\ UNCHANGED <<routerVars, gatewayVars, host, object, prompt, asks, shownTo,
                   aborted, memory, base, transcript, abortVars>>

\* The run takes the messages of the session to work on.
Accept(t) ==
    /\ pump[t] = "starting"
    /\ base' = [base EXCEPT ![t] = memory[object[t]]]
    /\ pump' = [pump EXCEPT ![t] = "running"]
    /\ UNCHANGED <<routerVars, gatewayVars, host, object, prompt, asks, shownTo,
                   controller, aborted, memory, transcript, abortVars>>

\* The run ends and writes its messages back.  When the accepted input could not be
\* recorded the turn leaves no trace, in memory or on disk.
RunEnds(t) ==
    /\ pump[t] = "running"
    /\ prompt[t] = "none"
    /\ \/ /\ memory' = [memory EXCEPT ![object[t]] = base[t] \cup {t}]
          /\ transcript' = [transcript EXCEPT ![KeyOf[t]] = @ \cup {t}]
       \/ /\ memory' = [memory EXCEPT ![object[t]] = base[t]]
          /\ transcript' = transcript
    /\ pump' = [pump EXCEPT ![t] = "finished"]
    /\ UNCHANGED <<routerVars, gatewayVars, host, object, prompt, asks, shownTo,
                   controller, aborted, base, abortVars>>

-----------------------------------------------------------------------------
(* Prompts *)

CanAsk(t) ==
    /\ pump[t] = "running"
    /\ prompt[t] = "none"
    /\ asks[t] < MaxAsks

\* createGatewayPermissionHook: no sink, no prompt (the tool is denied).  Otherwise
\* the request is shown, registered, and awaited unless the signal has fired: then
\* the wait is rejected at once, but the entry stays.
AskPermission(t) ==
    LET k == KeyOf[t] IN
    /\ CanAsk(t)
    /\ sink[k] # NoTurn
    /\ shownTo' = [shownTo EXCEPT ![t] = sink[k]]
    /\ permissionBus' = [permissionBus EXCEPT ![k] = @ \cup {t}]
    /\ prompt' = [prompt EXCEPT ![t] = IF t \in aborted THEN "none" ELSE "permission"]
    /\ asks' = [asks EXCEPT ![t] = @ + 1]
    /\ UNCHANGED <<routerVars, completion, sink, elicitationBus, host, pump, object,
                   agentVars, abortVars>>

\* GatewayElicitationChannel.askUser: registered whether or not a sink shows it;
\* taken back at once when the signal has fired.
AskQuestion(t) ==
    LET k == KeyOf[t] IN
    /\ CanAsk(t)
    /\ t \notin aborted
    /\ shownTo' = [shownTo EXCEPT ![t] = sink[k]]
    /\ elicitationBus' = [elicitationBus EXCEPT ![k] = @ \cup {t}]
    /\ prompt' = [prompt EXCEPT ![t] = "question"]
    /\ asks' = [asks EXCEPT ![t] = @ + 1]
    /\ UNCHANGED <<routerVars, completion, sink, permissionBus, host, pump, object,
                   agentVars, abortVars>>

\* permissionDecide: the entry is consumed and its promise resolved, which has no
\* effect when the hook has stopped waiting.
PermissionDecide(t) ==
    LET k == KeyOf[t] IN
    /\ t \in permissionBus[k]
    /\ permissionBus' = [permissionBus EXCEPT ![k] = @ \ {t}]
    /\ prompt' = [prompt EXCEPT ![t] = IF @ = "permission" THEN "none" ELSE @]
    /\ UNCHANGED <<routerVars, completion, sink, elicitationBus, host, pump, object,
                   asks, shownTo, agentVars, abortVars>>

\* respondElicitation.
RespondElicitation(t) ==
    LET k == KeyOf[t] IN
    /\ t \in elicitationBus[k]
    /\ elicitationBus' = [elicitationBus EXCEPT ![k] = @ \ {t}]
    /\ prompt' = [prompt EXCEPT ![t] = "none"]
    /\ UNCHANGED <<routerVars, completion, sink, permissionBus, host, pump, object,
                   asks, shownTo, agentVars, abortVars>>

-----------------------------------------------------------------------------
(* abortTurn *)

\* The turn whose signal router.abort fires: that of the cached object's newest
\* controller, if there is a cached object at all.
Aborted(k) ==
    IF record[k] = NoTurn THEN NoTurn ELSE controller[record[k]]

\* Mutant: the elicitation channel does not listen to the signal.
WokenPermissionOnly(u) ==
    [t \in Turns |-> IF t = u /\ prompt[t] = "permission" THEN "none" ELSE prompt[t]]

\* The listeners of the signal: both kinds of prompt stop waiting.
Woken(u) == [t \in Turns |-> IF t = u THEN "none" ELSE prompt[t]]

\* router.abort: the question of the run is taken off its bus, the permission request
\* is not.
AbortSignal(a) ==
    LET k == target[a]
        u == Aborted(k) IN
    /\ call[a] = "idle"
    /\ aborted' = aborted \cup ({u} \ {NoTurn})
    /\ prompt' = Woken(u)
    /\ elicitationBus' = [elicitationBus EXCEPT ![k] = @ \ {u}]
    /\ found' = [found EXCEPT ![a] = slot[k]]
    /\ call' = [call EXCEPT ![a] = "signalled"]
    /\ UNCHANGED <<routerVars, completion, sink, permissionBus, host, pump, object,
                   asks, shownTo, controller, memory, base, transcript,
                   target, awaited>>

\* Mutant: abortTurn does not wait for the turn to unwind.
AbortAwaitNothing(a) ==
    /\ call[a] = "signalled"
    /\ call' = [call EXCEPT ![a] = "returned"]
    /\ UNCHANGED <<routerVars, gatewayVars, turnVars, agentVars, target, awaited, found>>

\* After the await of router.abort: wait for the turn that is installed by now.
AbortAwait(a) ==
    LET pending == completion[target[a]] IN
    /\ call[a] = "signalled"
    /\ awaited' = [awaited EXCEPT ![a] = pending]
    /\ call' = [call EXCEPT ![a] = IF pending = NoTurn THEN "returned" ELSE "waiting"]
    /\ UNCHANGED <<routerVars, gatewayVars, turnVars, agentVars, target, found>>

AbortReturn(a) ==
    /\ call[a] = "waiting"
    /\ host[awaited[a]] = "done"
    /\ call' = [call EXCEPT ![a] = "returned"]
    /\ UNCHANGED <<routerVars, gatewayVars, turnVars, agentVars, target, awaited, found>>

-----------------------------------------------------------------------------
Open(t) == Created(t) \/ Recreated(t)
Answer(t) == PermissionDecide(t) \/ RespondElicitation(t)

Next ==
    \/ DescribeServer
    \/ \E k \in Keys : MarkDirty(k) \/ Close(k)
    \/ \E t \in Turns :
          \/ Submit(t) \/ RefuseBusy(t) \/ Begin(t)
          \/ StreamEnds(t) \/ Leave(t) \/ Drained(t)
          \/ Created(t) \/ Recreated(t) \/ OpenFails(t)
          \/ Start(t) \/ Accept(t) \/ RunEnds(t)
          \/ AskPermission(t) \/ AskQuestion(t)
          \/ PermissionDecide(t) \/ RespondElicitation(t)
    \/ \E a \in Aborts : AbortSignal(a) \/ AbortAwait(a) \/ AbortReturn(a)

Spec == Init /\ [][Next]_vars

\* What the event loop and the agent owe: every await is on something that settles.
\* Nobody owes an answer to a prompt, a submit, an abort or a close.
ProgramFairness ==
    /\ \A t \in Turns :
          /\ WF_vars(RefuseBusy(t) \/ Begin(t))
          /\ WF_vars(Open(t) \/ OpenFails(t))
          /\ WF_vars(Start(t) \/ OpenFails(t))
          /\ WF_vars(Accept(t))
          /\ WF_vars(RunEnds(t))
          /\ WF_vars(StreamEnds(t))
          /\ WF_vars(Drained(t))
    /\ \A a \in Aborts : WF_vars(AbortAwait(a)) /\ WF_vars(AbortReturn(a))

FairSpec == Spec /\ ProgramFairness

\* A user answers what is asked, and hosts read their streams to the end.
Attended ==
    \A t \in Turns : WF_vars(Answer(t)) /\ [](host[t] = "draining" => pump[t] = "finished")

-----------------------------------------------------------------------------
(* Properties *)

AtWork(t) == pump[t] \in {"starting", "running"}

\* Two turns of one session never run at the same time: AgentSession keeps one
\* abortController, one currentTurnId and one message list.
OneRunPerSession ==
    \A t, u \in Turns :
        AtWork(t) /\ AtWork(u) /\ KeyOf[t] = KeyOf[u] => t = u

\* When the slot of a session is free no prompt of an earlier turn is left on the
\* buses: a subsequent turn sees no stale state (submitTurn's finally block).
NoStalePrompts ==
    \A k \in Keys : slot[k] = NoTurn => permissionBus[k] = {} /\ elicitationBus[k] = {}

\* A run that is blocked on a prompt can be unblocked: the prompt was shown in the
\* stream of its own turn, that stream is still open, and the answer will find it.
BlockedRunIsAnswerable ==
    \A t \in Turns :
        LET k == KeyOf[t] IN
        prompt[t] # "none" =>
            /\ shownTo[t] = t
            /\ sink[k] = t
            /\ \/ prompt[t] = "permission" /\ t \in permissionBus[k]
               \/ prompt[t] = "question" /\ t \in elicitationBus[k]

\* When abortTurn returns, the turn that held the slot when it was called holds it
\* no longer, so a stop followed by a new submit is not refused on account of the
\* stopped turn (the contract above turnCompletions).
AbortReleasesSlot ==
    \A a \in Aborts :
        call[a] = "returned" /\ found[a] # NoTurn => slot[target[a]] # found[a]

\* A prompt lives and dies with its turn: nothing is left for a later turn, and what is
\* there can be answered.
PromptsFollowTheirTurn == NoStalePrompts /\ BlockedRunIsAnswerable

Statuses ==
    [t \in Turns |->
        IF pump[t] = "running" THEN "running"
        ELSE IF pump[t] = "finished" \/ host[t] = "busy" THEN "over"
        ELSE "waiting"]

Talk == INSTANCE Conversation WITH status <- Statuses, view <- base, said <- transcript

\* The turns of a session are serial and lose nothing: whatever the router does in
\* between (idle sweep, close, rebuild after a configuration change), a run starts
\* from every recorded turn of its session and no two runs overlap.
ImplementsConversation == Talk!Spec

\* Every submitted turn is refused or unwinds completely, so no session stays busy
\* for ever, provided that prompts are answered and nobody abandons a stream.
EveryTurnSettles ==
    Attended => \A t \in Turns : host[t] = "refreshing" ~> host[t] \in {"done", "busy"}

\* A turn whose signal has fired unwinds even if nobody answers its prompts.
AbortedTurnSettles ==
    \A t \in Turns : t \in aborted ~> host[t] = "done"

\* No session stays busy for ever: turns end by themselves or by an abort.
TurnsSettle == AbortedTurnSettles /\ EveryTurnSettles
=============================================================================
