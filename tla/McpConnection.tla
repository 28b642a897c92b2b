---------------------------- MODULE McpConnection ----------------------------
(***************************************************************************)
(* One McpClient: the connection to one MCP server, shared by the tool     *)
(* calls of a session, or of all sessions of a project.  start() connects  *)
(* once for everybody; a request whose session has expired reconnects and  *)
(* is sent again; one that timed out has the connection replaced; close()  *)
(* may come at any time, and whoever calls afterwards connects again.      *)
(*                                                                         *)
(* The connections are numbered as they are built.  What the SDK's Client  *)
(* and its transports do, from the way McpClient uses them: a connection   *)
(* that was told to close takes a while, its requests may still be         *)
(* answered or time out meanwhile, and those left are rejected when it is  *)
(* closed; a handshake nobody waits for any more may yet succeed.          *)
(***************************************************************************)
EXTENDS Naturals

CONSTANTS
    Calls,       \* calls of start, listTools and callTool
    Setup,       \* those of start and listTools
    MaxConns,    \* bound: connections built; two for each call are all it takes
    MaxCloses    \* bound: calls of close

ASSUME McpAssumption == Setup \subseteq Calls /\ MaxConns \in Nat \ {0} /\ MaxCloses \in Nat

Conns == 1..MaxConns
MaybeConn == 0..MaxConns    \* 0 for null

VARIABLES
    client,      \* this.client and this.transport
    promise,     \* this.connectPromise, as the connection it is of
    status,
    cache,       \* listToolsCache, as the connection the list came from
    inFlight,    \* reconnectInFlight
    dir,         \* perSessionDir, as the connection it was made for
    dirs,        \* the profile directories on disk
    doomed,      \* those a recycled connection takes with it when it is closed
    conn,        \* the connections
    opened,      \* how many were built
    call,        \* the calls
    closer,      \* the connection a close() waits for
    closes,      \* how often close() was called
    overtaken,   \* a list came from a connection that was being closed (history)
    raced,       \* a connection was dropped in place of the one that was closed (history)
    touched      \* since the last close() ended the client was in use (history)

fields == <<client, promise, status, cache, inFlight>>
profile == <<dir, dirs, doomed>>
closeVars == <<closer, closes, touched>>
history == <<raced, overtaken>>
vars == <<fields, profile, conn, opened, call, closeVars, history>>

ConnStates == {"none", "connecting", "late", "up", "orphan", "closing", "closed"}
Phases == {"idle", "waiting", "sent", "reclosing", "rewaiting", "resent", "done"}
Results == {"none", "ok", "handshake", "failed", "timeout", "uncoded"}

CallStates == [phase : Phases, op : {"start", "list", "tool"}, at : MaybeConn, result : Results]

TypeOK ==
    /\ client \in MaybeConn /\ promise \in MaybeConn /\ cache \in MaybeConn
    /\ status \in {"idle", "connecting", "ready", "error"}
    /\ inFlight \in BOOLEAN
    /\ dir \in MaybeConn /\ dirs \subseteq Conns /\ doomed \in [Conns -> MaybeConn]
    /\ conn \in [Conns -> ConnStates] /\ opened \in MaybeConn
    /\ call \in [Calls -> CallStates]
    /\ closer \in MaybeConn /\ closes \in 0..MaxCloses
    /\ raced \in BOOLEAN /\ overtaken \in BOOLEAN /\ touched \in BOOLEAN

Init ==
    /\ client = 0 /\ promise = 0 /\ cache = 0 /\ status = "idle" /\ inFlight = FALSE
    /\ dir = 0 /\ dirs = {} /\ doomed = [c \in Conns |-> 0]
    /\ conn = [c \in Conns |-> "none"] /\ opened = 0
    /\ \E op \in [Calls -> {"start", "list", "tool"}] :
           /\ \A x \in Calls : op[x] = "tool" <=> x \notin Setup
           /\ call = [x \in Calls |-> [phase |-> "idle", op |-> op[x], at |-> 0, result |-> "none"]]
    /\ closer = 0 /\ closes = 0
    /\ raced = FALSE /\ overtaken = FALSE /\ touched = TRUE

Alive == {c \in Conns : conn[c] \in {"connecting", "up"}}
Waits(x, c) == call[x].phase \in {"waiting", "rewaiting"} /\ call[x].at = c
Pending(x) == call[x].phase \in {"sent", "resent"}
UnderWay(x) == call[x].phase \notin {"idle", "done"}

\* x is over; a call that was reconnecting gives reconnectInFlight back.
Settles(x, result) ==
    /\ call' = [call EXCEPT ![x].phase = "done", ![x].result = result]
    /\ inFlight' = (inFlight /\ call[x].phase \notin {"rewaiting", "resent"})

-----------------------------------------------------------------------------
(* start *)

\* runConnect up to its await: a transport is built, with a profile directory of its own.
Connects(x, phase) ==
    /\ opened < MaxConns
    /\ opened' = opened + 1
    /\ conn' = [conn EXCEPT ![opened + 1] = "connecting"]
    /\ promise' = opened + 1
    /\ status' = "connecting"
    /\ dir' = opened + 1 /\ dirs' = dirs \cup {opened + 1}
    /\ call' = [call EXCEPT ![x].phase = phase, ![x].at = opened + 1]

\* A call connects, waits with the others, or finds the client connected.
Starts(x) ==
    \/ /\ promise = 0
       /\ Connects(x, "waiting")
       /\ UNCHANGED <<client, cache>>
    \/ /\ promise # 0 /\ conn[promise] = "connecting"
       /\ call' = [call EXCEPT ![x].phase = "waiting", ![x].at = promise]
       /\ UNCHANGED <<client, cache, promise, status, conn, opened, dir, dirs>>
    \/ /\ promise # 0 /\ conn[promise] # "connecting"
       /\ call' = [call EXCEPT ![x] =
              IF @.op = "start" THEN [@ EXCEPT !.phase = "done", !.result = "ok"]
              ELSE IF client = 0 THEN [@ EXCEPT !.phase = "done", !.result = "handshake"]
              ELSE [@ EXCEPT !.phase = "sent", !.at = client]]
       /\ UNCHANGED <<client, cache, promise, status, conn, opened, dir, dirs>>

Call(x) ==
    /\ call[x].phase = "idle"
    /\ Starts(x)
    /\ touched' = TRUE
    /\ UNCHANGED <<inFlight, doomed, closer, closes, history>>

\* listTools answers from the cache while it has not expired.
CachedList(x) ==
    /\ call[x].phase = "idle" /\ call[x].op = "list" /\ cache # 0
    /\ Settles(x, "ok")
    /\ UNCHANGED <<client, promise, status, cache, profile, conn, opened, closeVars, history>>

\* Mutant: a call that reconnects is not woken.
ReadyForCalls(c) ==
    /\ conn[c] = "connecting"
    /\ conn' = [conn EXCEPT ![c] = "up"]
    /\ client' = c /\ status' = "ready"
    /\ call' = [x \in Calls |->
           IF ~Waits(x, c) \/ call[x].phase = "rewaiting" THEN call[x]
           ELSE IF call[x].op = "start" THEN [call[x] EXCEPT !.phase = "done", !.result = "ok"]
           ELSE [call[x] EXCEPT !.phase = "sent"]]
    /\ UNCHANGED <<promise, cache, inFlight, profile, opened, closeVars, history>>

\* The handshake succeeds, and everybody who waits sends its request.
Ready(c) ==
    /\ conn[c] = "connecting"
    /\ conn' = [conn EXCEPT ![c] = "up"]
    /\ client' = c /\ status' = "ready"
    /\ call' = [x \in Calls |->
           IF ~Waits(x, c) THEN call[x]
           ELSE IF call[x].phase = "rewaiting" THEN [call[x] EXCEPT !.phase = "resent"]
           ELSE IF call[x].op = "start" THEN [call[x] EXCEPT !.phase = "done", !.result = "ok"]
           ELSE [call[x] EXCEPT !.phase = "sent"]]
    /\ UNCHANGED <<promise, cache, inFlight, profile, opened, closeVars, history>>

\* The handshake fails, and the SDK closes the transport, or its time is up, and nobody
\* does.  The call that began it forgets the promise, whatever connection that is of by now.
HandshakeFails(c) ==
    /\ conn[c] = "connecting"
    /\ \E s \in {"closed", "late"} : conn' = [conn EXCEPT ![c] = s]
    /\ promise' = 0 /\ status' = "error"
    /\ raced' = (raced \/ promise \notin {0, c})
    /\ call' = [x \in Calls |->
           IF Waits(x, c) THEN [call[x] EXCEPT !.phase = "done", !.result = "handshake"]
           ELSE call[x]]
    /\ inFlight' = (inFlight /\ ~\E x \in Calls : call[x].phase = "rewaiting" /\ call[x].at = c)
    /\ UNCHANGED <<client, cache, profile, opened, closeVars, overtaken>>

-----------------------------------------------------------------------------
(* The requests: callWithReconnect *)

\* The answer; listTools keeps it.
Answered(x) ==
    /\ Pending(x) /\ conn[call[x].at] \in {"up", "closing"}
    /\ Settles(x, "ok")
    /\ cache' = IF call[x].op = "list" THEN call[x].at ELSE cache
    /\ overtaken' = (overtaken \/ (call[x].op = "list" /\ conn[call[x].at] = "closing"))
    /\ UNCHANGED <<client, promise, status, profile, conn, opened, closeVars, raced>>

\* An error of the server, the connection, or the caller's signal.  What the second
\* request rejects with is thrown as it is.
Fails(x) ==
    /\ Pending(x)
    /\ Settles(x, IF call[x].phase = "sent" THEN "failed" ELSE "uncoded")
    /\ UNCHANGED <<client, promise, status, cache, profile, conn, opened, closeVars, history>>

\* What close() of the SDK's client is awaited for; of a connection that is being closed
\* already, or is gone, it returns at once.
ToClose == IF client # 0 /\ conn[client] = "up" THEN client ELSE 0
Closing == IF ToClose = 0 THEN conn ELSE [conn EXCEPT ![client] = "closing"]

\* Mutant: the list of tools is kept.
RecycleKeepingCache ==
    /\ client' = 0 /\ promise' = 0 /\ dir' = 0 /\ status' = "error"
    /\ conn' = Closing
    /\ doomed' = IF ToClose = 0 THEN doomed ELSE [doomed EXCEPT ![client] = dir]
    /\ dirs' = IF ToClose = 0 THEN dirs \ {dir} ELSE dirs
    /\ UNCHANGED cache
    /\ raced' = (raced \/ promise \notin {0, client})

\* recycleTransportAfterTimeout: the client of this moment is dropped and closed in the
\* background, be it the one the request was sent on or not; the profile goes with it.
Recycle ==
    /\ client' = 0 /\ promise' = 0 /\ cache' = 0 /\ dir' = 0 /\ status' = "error"
    /\ conn' = Closing
    /\ doomed' = IF ToClose = 0 THEN doomed ELSE [doomed EXCEPT ![client] = dir]
    /\ dirs' = IF ToClose = 0 THEN dirs \ {dir} ELSE dirs
    /\ raced' = (raced \/ promise \notin {0, client})

\* The first request times out.  A second one that does, merely Fails.
TimesOut(x) ==
    /\ call[x].phase = "sent" /\ conn[call[x].at] \in {"up", "closing"}
    /\ Settles(x, "timeout")
    /\ Recycle
    /\ UNCHANGED <<opened, closeVars, overtaken>>

\* reconnect, after its await: the client of this moment is dropped, and a new one connects.
Drop(closed) ==
    /\ client' = 0 /\ UNCHANGED <<doomed, overtaken>>
    /\ raced' = (raced \/ ~({client, promise} \subseteq {0, closed}))

Reconnects(x) ==
    /\ call[x].phase = "reclosing" /\ conn[call[x].at] = "closed"
    /\ Drop(call[x].at)
    /\ Connects(x, "rewaiting")
    /\ UNCHANGED <<cache, inFlight, closeVars>>

\* Mutant: nobody looks whether a reconnect is under way.
ExpiresUnchecked(x) ==
    /\ call[x].phase = "sent" /\ conn[call[x].at] \in {"up", "closing"}
    /\ inFlight' = TRUE /\ cache' = 0
    /\ ToClose # 0
    /\ conn' = Closing /\ status' = "connecting"
    /\ call' = [call EXCEPT ![x].phase = "reclosing", ![x].at = ToClose]
    /\ UNCHANGED <<client, promise, profile, opened, closeVars, history>>

\* The session of the first request has expired: reconnect closes the client, if it is not
\* closed already.  While another call reconnects, the request merely Fails.
Expires(x) ==
    /\ call[x].phase = "sent" /\ conn[call[x].at] \in {"up", "closing"}
    /\ ~inFlight
    /\ inFlight' = TRUE /\ cache' = 0
    /\ \/ /\ ToClose # 0
          /\ conn' = Closing /\ status' = "connecting"
          /\ call' = [call EXCEPT ![x].phase = "reclosing", ![x].at = ToClose]
          /\ UNCHANGED <<client, promise, profile, opened, history>>
       \/ /\ ToClose = 0
          /\ Drop(client)
          /\ Connects(x, "rewaiting")
    /\ UNCHANGED closeVars

-----------------------------------------------------------------------------
(* close *)

\* The client of this moment and its profile are dropped.
Forget(closed) ==
    /\ closer' = 0
    /\ client' = 0 /\ promise' = 0 /\ cache' = 0 /\ status' = "idle"
    /\ dirs' = dirs \ {dir} /\ dir' = 0
    /\ raced' = (raced \/ ~({client, promise} \subseteq {0, closed}))
    /\ touched' = \E x \in Calls : UnderWay(x)
    /\ UNCHANGED <<inFlight, doomed, opened, call, overtaken>>

\* Mutant: the client is dropped, and not closed.
CloseUnclosed ==
    /\ closes < MaxCloses /\ closer = 0
    /\ closes' = closes + 1
    /\ Forget(client)
    /\ UNCHANGED conn

\* close() waits for the SDK's close, if there is something to close.
Close ==
    /\ closes < MaxCloses /\ closer = 0
    /\ closes' = closes + 1
    /\ conn' = Closing
    /\ \/ ToClose = 0 /\ Forget(client)
       \/ /\ ToClose # 0
          /\ closer' = ToClose
          /\ UNCHANGED <<fields, profile, opened, call, history, touched>>

Closed ==
    /\ closer # 0 /\ conn[closer] = "closed"
    /\ Forget(closer)
    /\ UNCHANGED <<conn, closes>>

-----------------------------------------------------------------------------
(* The SDK and the server *)

\* A connection is closed; one that was recycled takes its profile with it.
ConnClosed(c) ==
    /\ conn[c] = "closing"
    /\ conn' = [conn EXCEPT ![c] = "closed"]
    /\ dirs' = dirs \ {doomed[c]}
    /\ UNCHANGED <<fields, dir, doomed, opened, call, closeVars, history>>

\* The server is gone.
Drops(c) ==
    /\ conn[c] = "up"
    /\ conn' = [conn EXCEPT ![c] = "closed"]
    /\ UNCHANGED <<fields, profile, opened, call, closeVars, history>>

\* A handshake whose time was up succeeds, and the connection is nobody's, or does not.
LateEnds(c) ==
    /\ conn[c] = "late"
    /\ \E s \in {"orphan", "closed"} : conn' = [conn EXCEPT ![c] = s]
    /\ UNCHANGED <<fields, profile, opened, call, closeVars, history>>

-----------------------------------------------------------------------------

CallSteps(x) ==
    Call(x) \/ CachedList(x) \/ Answered(x) \/ Fails(x) \/ TimesOut(x) \/ Expires(x) \/ Reconnects(x)

ConnSteps(c) == Ready(c) \/ HandshakeFails(c) \/ ConnClosed(c) \/ Drops(c) \/ LateEnds(c)

Next ==
    \/ \E x \in Calls : CallSteps(x)
    \/ \E c \in Conns : ConnSteps(c)
    \/ Close \/ Closed

Spec == Init /\ [][Next]_vars

\* Handshakes and requests have timeouts, a close of the SDK ends, and what was awaited goes on.
Fairness ==
    /\ \A c \in Conns : WF_vars(Ready(c) \/ HandshakeFails(c)) /\ WF_vars(ConnClosed(c))
    /\ \A x \in Calls : /\ WF_vars(Answered(x) \/ Fails(x) \/ TimesOut(x) \/ Expires(x))
                         /\ WF_vars(Reconnects(x))

FairSpec == Spec /\ Fairness

-----------------------------------------------------------------------------
(* Properties *)

\* A connectPromise that has resolved means that there is a client: no caller finds
\* "Client not connected" after start(), whatever is recycled, reconnected and closed around it.
ConnectedMeansClient ==
    /\ promise # 0 /\ conn[promise] # "connecting" => client # 0
    /\ status = "ready" => client # 0

\* At most one call reconnects, and reconnectInFlight says so until its second request is over.
OneReconnect ==
    LET Reconnecting == {x \in Calls : call[x].phase \in {"reclosing", "rewaiting", "resent"}}
    IN  /\ inFlight <=> Reconnecting # {}
        /\ \A x, y \in Reconnecting : x = y

\* There is one connection, and it is the one callers get, unless somebody gave up a
\* connection while another was there that nobody closes now.
OneConnection == ~raced => \A c, d \in Alive : c = d /\ c \in {client, promise}

\* Only timeouts and close() can lead to that; any number of expired sessions, failed
\* handshakes and lost servers cannot.
RacesNeedTimeouts == raced => closes > 0 \/ \E x \in Calls : call[x].result = "timeout"

\* A profile directory is not removed while its server runs, with the same exception.
ProfilesAreKept == ~raced => Alive \subseteq dirs

\* Connecting, reconnecting and recycling leave one connection, which calls can use.
ConnectionsAgree ==
    /\ ConnectedMeansClient /\ OneReconnect
    /\ OneConnection /\ ProfilesAreKept /\ RacesNeedTimeouts

\* After a timeout reported as such, no later call gets the connection that timed out.
TimedOutIsDropped == \A x \in Calls : call[x].result = "timeout" => client # call[x].at

\* The cached list of tools is of the connection in use, unless it was answered while its
\* connection was being closed.
CachedListIsCurrent == ~raced /\ ~overtaken => cache \in {0, client}

\* Nothing of a connection that was given up is used again.
OldConnectionsAreUnused == TimedOutIsDropped /\ CachedListIsCurrent

\* A client that was closed, with no call under way, stays without a connection until
\* somebody calls.
ClosedStaysClosed == ~touched /\ ~raced => Alive = {}

\* Every call comes to an end, whatever connects, expires, times out or closes meanwhile (each
\* is made once, so in the end none is under way).
CallsSettle == <>[](\A x \in Calls : ~UnderWay(x))
=============================================================================
