---------------------------- MODULE RuntimeReload ---------------------------
(***************************************************************************)
(* How a configuration change reaches the sessions: PilotConfigStore       *)
(* publishes the new snapshot, ProjectRuntimeRegistry drops its runtime,   *)
(* SessionRouter marks the cached sessions, and getOrCreate rebuilds a     *)
(* marked one when its next turn begins.  The registry also gives a        *)
(* limited number of sessions a private McpRuntime with its own processes. *)
(*                                                                         *)
(* Configurations are numbered in the order in which they are written; the *)
(* file may also be unreadable for a while.  The sessions are of one       *)
(* project.  One turn at a time runs under a key (SessionTurns), and a     *)
(* session and its private McpRuntime are named after the turn that built  *)
(* them.                                                                   *)
(*                                                                         *)
(* The initial states, the steps and the specification carry the prefix    *)
(* Reload, for RuntimeProofs extends this module beside McpConnection.     *)
(***************************************************************************)
EXTENDS Naturals, FiniteSets

CONSTANTS
    Keys,        \* session keys
    Turns,       \* calls of submitTurn
    KeyOf,       \* the key of each call
    MaxEdits,    \* how often the configuration file is written
    MaxMcp,      \* maxPerSessionMcpInstances
    NoTurn       \* undefined

ASSUME KeyOfAssumption == KeyOf \in [Turns -> Keys]
ASSUME KeysAssumption == IsFiniteSet(Keys)
ASSUME NoTurnAssumption == NoTurn \notin Turns
ASSUME BoundsAssumption == MaxEdits \in Nat /\ MaxMcp \in Nat \ {0}

VARIABLES
    disk,        \* the configuration on disk
    readable,    \* can it be loaded?
    snapshot,    \* PilotConfigStore.currentSnapshot
    runtime,     \* the configuration of the cached ProjectRuntime, 0 for none
    record,      \* SessionRouter.sessions: key -> its session, or NoTurn
    dirty,       \* keys whose record has a dirtyReason
    mcp,         \* sessionMcpRuntimes: key -> an McpRuntime, or NoTurn
    live,        \* the McpRuntimes with running processes
    pulled,      \* those stopped under somebody who may start them again (history)
    turn,        \* where each turn is
    rebuilds,    \* turns that found a record to rebuild
    session,     \* turn -> the session it runs in
    seen,        \* turn -> the snapshot after its refreshConfigBeforeTurn
    built,       \* session -> the configuration it is built from
    private,     \* sessions that were given an McpRuntime of their own
    crossed      \* sessions being built while a change was published

configVars  == <<disk, readable, snapshot>>
routerVars  == <<record, dirty>>
mcpVars     == <<mcp, live, pulled>>
turnVars    == <<turn, rebuilds, session, seen>>
sessionVars == <<built, private, crossed>>
reloadVars == <<configVars, runtime, routerVars, mcpVars, turnVars, sessionVars>>

Versions == 1..(MaxEdits + 1)
MaybeTurn == Turns \cup {NoTurn}
TurnStates == {"new", "begun", "opening", "attached", "running", "over"}

ReloadTypeOK ==
    /\ disk \in Versions /\ snapshot \in Versions
    /\ readable \in BOOLEAN
    /\ runtime \in Versions \cup {0}
    /\ record \in [Keys -> MaybeTurn] /\ dirty \subseteq Keys
    /\ mcp \in [Keys -> MaybeTurn] /\ live \subseteq Turns /\ pulled \subseteq Turns
    /\ turn \in [Turns -> TurnStates]
    /\ rebuilds \subseteq Turns
    /\ session \in [Turns -> Turns]
    /\ seen \in [Turns -> Versions] /\ built \in [Turns -> Versions]
    /\ private \subseteq Turns /\ crossed \subseteq Turns

ReloadInit ==
    /\ disk = 1 /\ readable = TRUE /\ snapshot = 1 /\ runtime = 1
    /\ record = [k \in Keys |-> NoTurn] /\ dirty = {}
    /\ mcp = [k \in Keys |-> NoTurn] /\ live = {} /\ pulled = {}
    /\ turn = [t \in Turns |-> "new"]
    /\ rebuilds = {}
    /\ session = [t \in Turns |-> t]
    /\ seen = [t \in Turns |-> 1] /\ built = [t \in Turns |-> 1]
    /\ private = {} /\ crossed = {}

Opening(t) == turn[t] \in {"opening", "attached"}
InFlight(t) == turn[t] \in {"begun", "opening", "attached", "running"}
Free(k) == \A t \in Turns : KeyOf[t] = k => ~InFlight(t)
Cached == {k \in Keys : record[k] # NoTurn}

-----------------------------------------------------------------------------
(* The private McpRuntimes *)

Slots == {k \in Keys : mcp[k] # NoTurn}

\* The McpRuntime of u is being started by the turn that builds its session, or a turn
\* runs in that session.
UsedBy(t, u) ==
    \/ turn[t] = "attached" /\ u = t
    \/ turn[t] = "running" /\ u = session[t]

InUse == {u \in Turns : \E t \in Turns : UsedBy(t, u)}

\* evictSessionMcp for every key in evicted.  Those of users may start theirs again.
Stop(evicted, users) ==
    /\ mcp' = [k \in Keys |-> IF k \in evicted THEN NoTurn ELSE mcp[k]]
    /\ live' = live \ {mcp[k] : k \in evicted}
    /\ pulled' = pulled \cup (users \cap {mcp[k] : k \in evicted})

\* The extensions of a project none of these sessions belongs to have changed:
\* invalidate(projectRoot) stops every private McpRuntime, whoever it belongs to,
\* and marks no session here, so that each of them goes on with a stopped one.
OtherProjectChanges ==
    /\ Slots # {}
    /\ Stop(Keys, Turns)
    /\ UNCHANGED <<configVars, runtime, routerVars, turnVars, sessionVars>>

\* McpClient connects also when its runtime was stopped: for a tool call of a running
\* session, and in start() and listTools() of one being built.
Revives(t) ==
    /\ \E u \in private \ live : UsedBy(t, u) /\ live' = live \cup {u}
    /\ UNCHANGED <<configVars, runtime, routerVars, mcp, pulled, turnVars, sessionVars>>

-----------------------------------------------------------------------------
(* The configuration *)

\* Somebody writes the file; what is written may not load.
Edit(ok) ==
    /\ disk <= MaxEdits
    /\ disk' = disk + 1
    /\ readable' = ok
    /\ UNCHANGED <<snapshot, runtime, routerVars, mcpVars, turnVars, sessionVars>>

\* PilotConfigStore.reload: a changed file that loads becomes the snapshot.
Loads == readable /\ disk # snapshot

\* Mutant: the listener drops the runtimes but does not mark the sessions.
PublishUnmarked ==
    /\ snapshot' = disk
    /\ runtime' = 0
    /\ Stop(Keys, InUse)
    /\ crossed' = crossed \cup {t \in Turns : Opening(t)}
    /\ UNCHANGED <<disk, readable, routerVars>>

\* The listener of createLocalGateway: registry.invalidate stops every private
\* McpRuntime and forgets the project runtime; markAllDirty marks the cached sessions.
Publish ==
    /\ snapshot' = disk
    /\ runtime' = 0
    /\ Stop(Keys, InUse)
    /\ dirty' = Cached
    /\ crossed' = crossed \cup {t \in Turns : Opening(t)}
    /\ UNCHANGED <<disk, readable, record>>

\* The file watcher's reload, which may come late or not at all.
WatchReload ==
    /\ Loads
    /\ Publish
    /\ UNCHANGED <<turnVars, built, private>>

\* registry.resolve: the cached runtime, or one built from the file as it is now.
Resolved == IF runtime = 0 THEN disk ELSE runtime
Resolvable == runtime # 0 \/ readable

\* listSessions resolves the runtime too.
ListSessions ==
    /\ runtime = 0 /\ Resolvable
    /\ runtime' = Resolved
    /\ UNCHANGED <<configVars, routerVars, mcpVars, turnVars, sessionVars>>

-----------------------------------------------------------------------------
(* A turn *)

\* submitTurn: refreshConfigBeforeTurn, where a file that does not load leaves the old
\* snapshot, then at once beginTurn, which refuses a busy key.
Submit(t) ==
    /\ turn[t] = "new"
    /\ IF Loads THEN Publish
       ELSE UNCHANGED <<configVars, runtime, routerVars, mcpVars, crossed>>
    /\ turn' = [turn EXCEPT ![t] = IF Free(KeyOf[t]) THEN "begun" ELSE "over"]
    /\ seen' = [seen EXCEPT ![t] = snapshot']
    /\ UNCHANGED <<rebuilds, session, built, private>>

\* A clean cached session is used as it is.
UseCached(t) ==
    LET k == KeyOf[t] IN
    /\ turn[t] = "begun"
    /\ k \in Cached \ dirty
    /\ turn' = [turn EXCEPT ![t] = "running"]
    /\ session' = [session EXCEPT ![t] = record[k]]
    /\ UNCHANGED <<configVars, runtime, routerVars, mcpVars, rebuilds, seen, sessionVars>>

\* Otherwise a session is created, or the marked one rebuilt after its McpRuntime is
\* stopped.  The runtime is resolved before the first await; when it cannot be, the
\* turn fails.
BeginOpen(t) ==
    LET k == KeyOf[t] IN
    /\ turn[t] = "begun"
    /\ k \notin Cached \ dirty
    /\ IF k \in Cached THEN Stop({k}, InUse) ELSE UNCHANGED mcpVars
    /\ rebuilds' = IF k \in Cached THEN rebuilds \cup {t} ELSE rebuilds
    /\ IF Resolvable
       THEN /\ runtime' = Resolved
            /\ built' = [built EXCEPT ![t] = Resolved]
            /\ turn' = [turn EXCEPT ![t] = "opening"]
       ELSE /\ turn' = [turn EXCEPT ![t] = "over"]
            /\ UNCHANGED <<runtime, built>>
    /\ UNCHANGED <<configVars, routerVars, session, seen, private, crossed>>

WithinLimit == Cardinality(Slots) < MaxMcp

\* After the awaits on plugins and shared servers, prepareSessionRuntime starts a
\* private McpRuntime if the limit allows one, in place of any its key still has.
Attach(t) ==
    LET k == KeyOf[t] IN
    /\ turn[t] = "opening"
    /\ IF WithinLimit
       THEN /\ mcp' = [mcp EXCEPT ![k] = t]
            /\ live' = (live \ {mcp[k]}) \cup {t}
            /\ private' = private \cup {t}
            /\ UNCHANGED pulled
       ELSE UNCHANGED <<mcpVars, private>>
    /\ turn' = [turn EXCEPT ![t] = "attached"]
    /\ UNCHANGED <<configVars, runtime, routerVars, rebuilds, session, seen, built, crossed>>

\* The session is ready.  A created one is cached; a rebuilt one replaces the session
\* in the record found before the awaits, which may have been closed since.  The mark
\* is wiped.
Opened(t) ==
    LET k == KeyOf[t] IN
    /\ turn[t] = "attached"
    /\ record' = IF t \in rebuilds /\ k \notin Cached THEN record
                 ELSE [record EXCEPT ![k] = t]
    /\ dirty' = dirty \ {k}
    /\ turn' = [turn EXCEPT ![t] = "running"]
    /\ session' = [session EXCEPT ![t] = t]
    /\ UNCHANGED <<configVars, runtime, mcpVars, rebuilds, seen, sessionVars>>

\* afterTurnCompleted resolves the runtime for memory maintenance.
Over(t) ==
    /\ turn' = [turn EXCEPT ![t] = "over"]
    /\ runtime' = IF Resolvable THEN Resolved ELSE runtime
    /\ UNCHANGED <<configVars, routerVars, mcpVars, rebuilds, session, seen, sessionVars>>

\* Plugins that do not load, or a transcript that cannot be read.
OpenFails(t) == Opening(t) /\ Over(t)

EndTurn(t) == turn[t] = "running" /\ Over(t)

\* Mutant: the McpRuntime of an idle session is stopped, the session kept.
EvictKeepsRecord(k) ==
    /\ k \in Cached
    /\ Stop({k}, InUse)
    /\ UNCHANGED <<configVars, runtime, routerVars, turnVars, sessionVars>>

\* close, at any time; and the idle sweep, between turns.
Evict(k) ==
    /\ k \in Cached
    /\ record' = [record EXCEPT ![k] = NoTurn]
    /\ dirty' = dirty \ {k}
    /\ Stop({k}, InUse)
    /\ UNCHANGED <<configVars, runtime, turnVars, sessionVars>>

Step(t) ==
    \/ Submit(t) \/ UseCached(t) \/ BeginOpen(t) \/ Attach(t) \/ Opened(t)
    \/ OpenFails(t) \/ EndTurn(t) \/ Revives(t)

ReloadNext ==
    \/ \E ok \in BOOLEAN : Edit(ok)
    \/ WatchReload
    \/ ListSessions
    \/ OtherProjectChanges
    \/ \E t \in Turns : Step(t)
    \/ \E k \in Keys : Evict(k)

ReloadSpec == ReloadInit /\ [][ReloadNext]_reloadVars

-----------------------------------------------------------------------------
(* Properties *)

\* A cached session without a mark is at least as new as the snapshot, unless a change
\* was published while it was being built: markAllDirty then either had no record to
\* mark or made a mark that getOrCreate wiped (SessionRouter.getOrCreate, markAllDirty).
UnmarkedIsCurrent ==
    \A k \in Cached \ dirty : record[k] \in crossed \/ built[record[k]] >= snapshot

\* With the same exception, a turn runs in a session built from the configuration that
\* its refreshConfigBeforeTurn saw, or a newer one.
TurnsRunFresh ==
    \A t \in Turns : turn[t] = "running" =>
        session[t] \in crossed \/ built[session[t]] >= seen[t]

\* A change of the configuration reaches the cached sessions and the turns that run in
\* them, with that exception.
ChangesReachSessions == UnmarkedIsCurrent /\ TurnsRunFresh

\* PilotGatewayConfig promises a "Maximum number of concurrent per-session MCP instances".
\* Every private McpRuntime with processes is the one registered under its key, where the
\* limit counts it and the next rebuild, close or change stops it; so no more than the
\* limit run at once.  Not counted are those stopped while a turn worked with them or
\* built their session, or by a change of another project: these may run again, beside
\* the limit.
McpWithinLimit ==
    /\ \A t \in live \ pulled : mcp[KeyOf[t]] = t
    /\ Cardinality(live \ pulled) <= MaxMcp

\* The comment in submitTurn: the refresh "guarantees a fresh apiKey/url is in effect
\* for the very next turn".  A session opened by an earlier turn across a change is
\* never rebuilt, and the turns after it run in it.
VeryNextTurnIsFresh ==
    \A t \in Turns : turn[t] = "running" /\ session[t] # t =>
        built[session[t]] >= seen[t]
=============================================================================
