---------------------------- MODULE RuntimeProofs ----------------------------
(***************************************************************************)
(* Proofs about what a session works with: the connection to an MCP        *)
(* server, and the configuration and private McpRuntime it was built with. *)
(* The two modules share nothing and are extended side by side.            *)
(*                                                                         *)
(* McpConnection, for any calls and any bounds.  Where each connection may *)
(* be (Placed) holds whatever happens.  Agreed is what the fields of the   *)
(* client have in common as long as nothing was raced, Calm that without   *)
(* timeouts and closes nothing can be: the only connection being closed is *)
(* the one a reconnect waits for.                                          *)
(*                                                                         *)
(* RuntimeReload, for every set of keys and turns, any number of edits and *)
(* any limit on private McpRuntimes: after the proofs about connections.   *)
(* Fresh relates sessions to configurations, Counted says that what runs   *)
(* is registered unless it was stopped under its users.                    *)
(***************************************************************************)
EXTENDS McpConnection, RuntimeReload, FiniteSetTheorems, TLAPS

-----------------------------------------------------------------------------
(* Types *)

LEMMA CallStateType ==
    ASSUME NEW r \in CallStates
    PROVE  /\ \A p \in Phases, e \in Results :
                 [r EXCEPT !.phase = p, !.result = e] \in CallStates
           /\ \A p \in Phases, c \in MaybeConn :
                 [r EXCEPT !.phase = p, !.at = c] \in CallStates
           /\ \A p \in Phases : [r EXCEPT !.phase = p] \in CallStates
BY DEF CallStates

LEMMA InitType == Init => TypeOK
<1> SUFFICES ASSUME Init PROVE TypeOK
    OBVIOUS
<1>0. 0 \in MaybeConn /\ 0 \in 0..MaxCloses
    BY McpAssumption DEF MaybeConn
<1>1. call \in [Calls -> CallStates]
    BY <1>0 DEF Init, CallStates, Phases, Results
<1> QED
    BY <1>0, <1>1 DEF Init, TypeOK, ConnStates

LEMMA SettlesType ==
    ASSUME TypeOK, NEW x \in Calls, NEW e \in Results, Settles(x, e)
    PROVE  call' \in [Calls -> CallStates] /\ inFlight' \in BOOLEAN
<1>1. [call[x] EXCEPT !.phase = "done", !.result = e] \in CallStates
    BY CallStateType DEF TypeOK, Phases
<1> QED
    BY <1>1 DEF Settles, TypeOK

LEMMA ConnectsType ==
    ASSUME TypeOK, NEW x \in Calls, NEW p \in Phases, Connects(x, p)
    PROVE  /\ promise' \in MaybeConn /\ status' = "connecting" /\ opened' \in MaybeConn
           /\ dir' \in MaybeConn /\ dirs' \subseteq Conns /\ conn' \in [Conns -> ConnStates]
           /\ call' \in [Calls -> CallStates]
<1>1. opened + 1 \in Conns /\ opened + 1 \in MaybeConn
    BY McpAssumption DEF TypeOK, Connects, Conns, MaybeConn
<1>2. [call[x] EXCEPT !.phase = p, !.at = opened + 1] \in CallStates
    BY <1>1, CallStateType DEF TypeOK
<1> QED
    BY <1>1, <1>2 DEF TypeOK, Connects, ConnStates

LEMMA ClosingType ==
    ASSUME TypeOK
    PROVE  Closing \in [Conns -> ConnStates] /\ ToClose \in MaybeConn
<1>1. 0 \in MaybeConn
    BY McpAssumption DEF MaybeConn
<1>2. ToClose \in MaybeConn
    BY <1>1 DEF TypeOK, ToClose
<1>3. [conn EXCEPT ![client] = "closing"] \in [Conns -> ConnStates]
    BY DEF TypeOK, ConnStates
<1> QED
    BY <1>2, <1>3 DEF TypeOK, Closing

LEMMA StepType == TypeOK /\ [Next]_vars => TypeOK'
<1> SUFFICES ASSUME TypeOK, [Next]_vars PROVE TypeOK'
    OBVIOUS
<1>0. 0 \in MaybeConn /\ Conns \subseteq MaybeConn
    BY McpAssumption DEF MaybeConn, Conns
<1> USE DEF vars, fields, profile, closeVars, history
<1>1. ASSUME NEW x \in Calls, Call(x) PROVE TypeOK'
    <2>1. CASE Connects(x, "waiting") /\ UNCHANGED <<client, cache>>
        BY <1>1, <2>1, ConnectsType DEF Call, TypeOK, Phases
    <2>2. CASE promise # 0 /\ UNCHANGED <<client, cache, promise, status, conn, opened, dir, dirs>>
        <3>1. /\ [call[x] EXCEPT !.phase = "waiting", !.at = promise] \in CallStates
              /\ [call[x] EXCEPT !.phase = "done", !.result = "ok"] \in CallStates
              /\ [call[x] EXCEPT !.phase = "done", !.result = "handshake"] \in CallStates
              /\ [call[x] EXCEPT !.phase = "sent", !.at = client] \in CallStates
            BY CallStateType DEF TypeOK, Phases, Results
        <3>2. call' \in [Calls -> CallStates]
            BY <1>1, <2>2, <3>1 DEF Call, Starts, TypeOK
        <3> QED
            BY <1>1, <2>2, <3>2 DEF Call, TypeOK
    <2> QED
        BY <1>1, <2>1, <2>2 DEF Call, Starts
<1>2. ASSUME NEW x \in Calls, CachedList(x) \/ Answered(x) PROVE TypeOK'
    <2>1. Settles(x, "ok") /\ "ok" \in Results
        BY <1>2 DEF CachedList, Answered, Results
    <2>2. call[x].at \in MaybeConn
        BY DEF TypeOK, CallStates
    <2> QED
        BY <1>2, <2>1, <2>2, SettlesType DEF CachedList, Answered, TypeOK
<1>3. ASSUME NEW x \in Calls, Fails(x) PROVE TypeOK'
    <2>1. \E e \in Results : Settles(x, e)
        BY <1>3 DEF Fails, Results
    <2> QED
        BY <1>3, <2>1, SettlesType DEF Fails, TypeOK
<1>4. ASSUME NEW x \in Calls, TimesOut(x) PROVE TypeOK'
    <2>1. Settles(x, "timeout") /\ "timeout" \in Results
        BY <1>4 DEF TimesOut, Results
    <2>2. doomed' \in [Conns -> MaybeConn] /\ dirs' \subseteq Conns
        BY <1>4 DEF TimesOut, Recycle, TypeOK
    <2> QED
        BY <1>0, <1>4, <2>1, <2>2, SettlesType, ClosingType DEF TimesOut, Recycle, TypeOK
<1>5. ASSUME NEW x \in Calls, Expires(x) PROVE TypeOK'
    <2>1. CASE ToClose # 0 /\ conn' = Closing
        <3>1. [call[x] EXCEPT !.phase = "reclosing", !.at = ToClose] \in CallStates
            BY CallStateType, ClosingType DEF TypeOK, Phases
        <3>2. CASE Connects(x, "rewaiting")
            BY <1>0, <1>5, <3>2, ConnectsType DEF Expires, Drop, TypeOK, Phases
        <3>3. CASE ~Connects(x, "rewaiting")
            BY <1>0, <1>5, <2>1, <3>1, <3>3, ClosingType DEF Expires, TypeOK
        <3> QED
            BY <3>2, <3>3
    <2>2. CASE Drop(client) /\ Connects(x, "rewaiting")
        BY <1>0, <1>5, <2>2, ConnectsType DEF Expires, Drop, TypeOK, Phases
    <2> QED
        BY <1>5, <2>1, <2>2 DEF Expires
<1>6. ASSUME NEW x \in Calls, Reconnects(x) PROVE TypeOK'
    BY <1>0, <1>6, ConnectsType DEF Reconnects, Drop, TypeOK, Phases
<1>7. ASSUME NEW c \in Conns, Ready(c) PROVE TypeOK'
    <2>1. \A x \in Calls : /\ [call[x] EXCEPT !.phase = "resent"] \in CallStates
                           /\ [call[x] EXCEPT !.phase = "done", !.result = "ok"] \in CallStates
                           /\ [call[x] EXCEPT !.phase = "sent"] \in CallStates
        BY CallStateType DEF TypeOK, Phases, Results
    <2>2. call' \in [Calls -> CallStates]
        BY <1>7, <2>1 DEF Ready, TypeOK
    <2> QED
        BY <1>0, <1>7, <2>2 DEF Ready, TypeOK, ConnStates
<1>8. ASSUME NEW c \in Conns, HandshakeFails(c) PROVE TypeOK'
    <2>1. \A x \in Calls : [call[x] EXCEPT !.phase = "done", !.result = "handshake"] \in CallStates
        BY CallStateType DEF TypeOK, Phases, Results
    <2>2. call' \in [Calls -> CallStates]
        BY <1>8, <2>1 DEF HandshakeFails, TypeOK
    <2> QED
        BY <1>0, <1>8, <2>2 DEF HandshakeFails, TypeOK, ConnStates
<1>9. ASSUME NEW c \in Conns, ConnClosed(c) \/ Drops(c) \/ LateEnds(c) PROVE TypeOK'
    BY <1>9 DEF ConnClosed, Drops, LateEnds, TypeOK, ConnStates
<1>10. CASE Close
    <2>0. closes' \in 0..MaxCloses
        BY <1>10, McpAssumption DEF Close, TypeOK
    <2>1. CASE Forget(client)
        BY <1>0, <1>10, <2>0, <2>1, ClosingType DEF Close, Forget, TypeOK
    <2>2. CASE closer' = ToClose /\ UNCHANGED <<fields, profile, opened, call, history, touched>>
        BY <1>10, <2>0, <2>2, ClosingType DEF Close, TypeOK
    <2> QED
        BY <1>10, <2>1, <2>2 DEF Close
<1>11. CASE Closed
    BY <1>0, <1>11 DEF Closed, Forget, TypeOK
<1>12. CASE UNCHANGED vars
    BY <1>12 DEF TypeOK
<1> QED
    BY <1>1, <1>2, <1>3, <1>4, <1>5, <1>6, <1>7, <1>8, <1>9, <1>10, <1>11, <1>12
    DEF Next, CallSteps, ConnSteps

\* The fields, the connections and the calls of a client keep their types.
THEOREM TypeCorrect == Spec => []TypeOK
BY InitType, StepType, PTL DEF Spec

-----------------------------------------------------------------------------
(* Where the connections are *)

Met == {"up", "closing", "closed"}

Numbered ==
    /\ \A c \in Conns : conn[c] = "none" <=> c > opened
    /\ dir <= opened /\ promise <= opened /\ \A c \in Conns : doomed[c] <= opened
    /\ client # 0 => conn[client] \in Met
    /\ closer # 0 => closes > 0

Sent(x) ==
    /\ call[x].result = "timeout" => call[x].phase = "done"
    /\ Pending(x) \/ call[x].result = "timeout" => call[x].at # 0 /\ conn[call[x].at] \in Met
    /\ call[x].phase = "reclosing" => call[x].at # 0 /\ conn[call[x].at] \in {"closing", "closed"}

\* Connections are numbered as they are built; what has been a client, or was sent a
\* request, has been up.
Placed == Numbered /\ \A x \in Calls : Sent(x)

\* What becomes of the connections and calls that are not the subject of a step.
Kept ==
    /\ opened' \in {opened, opened + 1}
    /\ \A c \in Conns : /\ conn'[c] = "none" <=> c > opened'
                        /\ conn[c] \in Met => conn'[c] \in Met
                        /\ conn[c] \in {"closing", "closed"} => conn'[c] \in {"closing", "closed"}

LEMMA ClosingKeeps ==
    ASSUME TypeOK, Placed
    PROVE  /\ \A c \in Conns : Closing[c] = IF c = ToClose THEN "closing" ELSE conn[c]
           /\ ToClose # 0 => ToClose = client /\ client \in Conns /\ conn[client] = "up"
BY McpAssumption DEF TypeOK, Placed, Numbered, Closing, ToClose, Conns, MaybeConn

LEMMA ConnectsKeeps ==
    ASSUME TypeOK, Placed, NEW x \in Calls, NEW p \in Phases, Connects(x, p)
    PROVE  /\ opened' = opened + 1 /\ opened' \in Conns /\ promise' = opened' /\ dir' = opened'
           /\ \A c \in Conns : conn'[c] = IF c = opened' THEN "connecting" ELSE conn[c]
           /\ conn[opened'] = "none"
           /\ \A y \in Calls : y # x => call'[y] = call[y]
           /\ call'[x] = [call[x] EXCEPT !.phase = p, !.at = opened']
           /\ call'[x].phase = p /\ call'[x].at = opened' /\ call'[x].result = call[x].result
BY McpAssumption DEF TypeOK, CallStates, Placed, Numbered, Connects, Conns, MaybeConn

LEMMA StepKeeps == TypeOK /\ Placed /\ [Next]_vars => Kept
<1> SUFFICES ASSUME TypeOK, Placed, [Next]_vars PROVE Kept
    OBVIOUS
<1>0. /\ \A c \in Conns : conn[c] = "none" <=> c > opened
      /\ opened \in Nat /\ Conns \subseteq Nat \ {0}
    BY McpAssumption DEF Placed, Numbered, TypeOK, MaybeConn, Conns
<1>1. ASSUME conn' = conn \/ conn' = Closing, opened' = opened PROVE Kept
    BY <1>0, <1>1, ClosingKeeps DEF Kept, Met
<1>2. ASSUME NEW x \in Calls, NEW p \in Phases, Connects(x, p) PROVE Kept
    <2>1. \A c \in Conns : c > opened + 1 <=> c > opened /\ c # opened + 1
        BY <1>0
    <2> QED
        BY <1>0, <1>2, <2>1, ConnectsKeeps DEF Kept, Met
<1>3. ASSUME NEW c \in Conns, ConnSteps(c) PROVE Kept
    <2>1. ASSUME opened' = opened, conn[c] # "none", NEW s \in ConnStates \ {"none"},
                 conn' = [conn EXCEPT ![c] = s],
                 conn[c] \in {"connecting", "late"} \/ s = "closed"
          PROVE  Kept
        BY <1>0, <2>1 DEF TypeOK, Kept, Met
    <2>2. CASE Ready(c)
        BY <2>1, <2>2 DEF Ready, ConnStates
    <2>3. CASE HandshakeFails(c)
        BY <2>1, <2>3 DEF HandshakeFails, ConnStates
    <2>4. CASE ConnClosed(c) \/ Drops(c) \/ LateEnds(c)
        BY <2>1, <2>4 DEF ConnClosed, Drops, LateEnds, ConnStates
    <2> QED
        BY <1>3, <2>2, <2>3, <2>4 DEF ConnSteps
<1>4. ASSUME NEW x \in Calls, CallSteps(x) PROVE Kept
    <2>1. "waiting" \in Phases /\ "rewaiting" \in Phases
        BY DEF Phases
    <2>2. CASE \E p \in {"waiting", "rewaiting"} : Connects(x, p)
        <3>1. PICK p \in {"waiting", "rewaiting"} : Connects(x, p)
            BY <2>2
        <3> QED
            BY <1>2, <2>1, <3>1
    <2>3. CASE ~\E p \in {"waiting", "rewaiting"} : Connects(x, p)
        BY <1>1, <1>4, <2>3
        DEF CallSteps, Call, Starts, CachedList, Answered, Fails, TimesOut, Recycle, Expires, Reconnects
    <2> QED
        BY <2>2, <2>3
<1>5. CASE Close \/ Closed \/ UNCHANGED vars
    BY <1>1, <1>5 DEF Close, Closed, Forget, vars, profile
<1> QED
    BY <1>3, <1>4, <1>5 DEF Next

LEMMA SettlesKeeps ==
    ASSUME TypeOK, NEW x \in Calls, NEW e, Settles(x, e)
    PROVE  /\ \A y \in Calls : y # x => call'[y] = call[y]
           /\ call'[x].phase = "done" /\ call'[x].at = call[x].at /\ call'[x].result = e
BY DEF TypeOK, CallStates, Settles


\* What becomes of the calls when a connection gets ready, or does not.
LEMMA ReadyKeeps ==
    ASSUME TypeOK, NEW c \in Conns, Ready(c), NEW x \in Calls
    PROVE  /\ call'[x].at = call[x].at
           /\ ~Waits(x, c) => call'[x] = call[x]
           /\ call[x].phase = "rewaiting" /\ Waits(x, c) =>
                  call'[x].phase = "resent" /\ call'[x].result = call[x].result
           /\ call[x].phase # "rewaiting" /\ Waits(x, c) =>
                  \/ call'[x].phase = "sent" /\ call'[x].result = call[x].result
                  \/ call'[x].phase = "done" /\ call'[x].result = "ok"
<1>1. call'[x] = IF ~Waits(x, c) THEN call[x]
                 ELSE IF call[x].phase = "rewaiting" THEN [call[x] EXCEPT !.phase = "resent"]
                 ELSE IF call[x].op = "start" THEN [call[x] EXCEPT !.phase = "done", !.result = "ok"]
                 ELSE [call[x] EXCEPT !.phase = "sent"]
    BY DEF Ready
<1>2. call[x] \in CallStates
    BY DEF TypeOK
<1>3. CASE ~Waits(x, c)
    BY <1>1, <1>3
<1>4. CASE Waits(x, c)
    BY <1>1, <1>2, <1>4 DEF CallStates
<1> QED
    BY <1>3, <1>4

LEMMA FailureKeeps ==
    ASSUME TypeOK, NEW c \in Conns, HandshakeFails(c), NEW x \in Calls
    PROVE  /\ call'[x].at = call[x].at
           /\ ~Waits(x, c) => call'[x] = call[x]
           /\ Waits(x, c) => call'[x].phase = "done" /\ call'[x].result = "handshake"
<1>1. call'[x] = IF Waits(x, c) THEN [call[x] EXCEPT !.phase = "done", !.result = "handshake"]
                 ELSE call[x]
    BY DEF HandshakeFails
<1>2. call[x] \in CallStates
    BY DEF TypeOK
<1> QED
    BY <1>1, <1>2 DEF CallStates

\* A call that neither finds a connection to wait for nor has to begin one.
LEMMA StartedKeeps ==
    ASSUME TypeOK, NEW x \in Calls, Call(x), ~Connects(x, "waiting")
    PROVE  /\ UNCHANGED <<client, cache, promise, status, conn, opened, dir, dirs>>
           /\ promise # 0
           /\ \A y \in Calls : y # x => call'[y] = call[y]
           /\ \/ call'[x].phase \in {"waiting", "done"}
              \/ call'[x].phase = "sent" /\ call'[x].at = client /\ client # 0
           /\ call'[x].result \in {call[x].result, "ok", "handshake"}
<1>1. call[x] \in CallStates
    BY DEF TypeOK
<1>2. \/ /\ call' = [call EXCEPT ![x].phase = "waiting", ![x].at = promise]
      \/ call' = [call EXCEPT ![x] =
              IF @.op = "start" THEN [@ EXCEPT !.phase = "done", !.result = "ok"]
              ELSE IF client = 0 THEN [@ EXCEPT !.phase = "done", !.result = "handshake"]
              ELSE [@ EXCEPT !.phase = "sent", !.at = client]]
    BY DEF Call, Starts
<1>3. \A y \in Calls : y # x => call'[y] = call[y]
    BY <1>2 DEF TypeOK
<1>4. \/ call'[x] = [call[x] EXCEPT !.phase = "waiting", !.at = promise]
      \/ call'[x] = [call[x] EXCEPT !.phase = "done", !.result = "ok"]
      \/ call'[x] = [call[x] EXCEPT !.phase = "done", !.result = "handshake"]
      \/ client # 0 /\ call'[x] = [call[x] EXCEPT !.phase = "sent", !.at = client]
    BY <1>2 DEF TypeOK
<1>5. /\ \/ call'[x].phase \in {"waiting", "done"}
         \/ call'[x].phase = "sent" /\ call'[x].at = client /\ client # 0
      /\ call'[x].result \in {call[x].result, "ok", "handshake"}
    BY <1>1, <1>4 DEF CallStates
<1> QED
    BY <1>3, <1>5 DEF Call, Starts

\* A call whose session has expired, when there is something to close.
LEMMA ExpiredKeeps ==
    ASSUME TypeOK, NEW x \in Calls, Expires(x), ~Connects(x, "rewaiting")
    PROVE  /\ ToClose # 0 /\ conn' = Closing
           /\ UNCHANGED <<client, promise, dir, dirs, doomed, opened, raced, overtaken>>
           /\ \A y \in Calls : y # x => call'[y] = call[y]
           /\ call'[x].phase = "reclosing" /\ call'[x].at = ToClose
           /\ call'[x].result = call[x].result
BY DEF TypeOK, CallStates, Expires, profile, history

LEMMA StepPlaced == TypeOK /\ Placed /\ [Next]_vars => Placed'
<1> SUFFICES ASSUME TypeOK, Placed, [Next]_vars PROVE Placed'
    OBVIOUS
<1>0. Kept /\ Numbered /\ TypeOK'
    BY StepKeeps, StepType DEF Placed
<1>1. /\ opened \in Nat /\ opened' \in Nat /\ Conns \subseteq Nat \ {0} /\ MaybeConn = Conns \cup {0}
      /\ dir \in Nat /\ promise \in Nat /\ \A c \in Conns : doomed[c] \in Nat
      /\ client \in MaybeConn /\ client' \in MaybeConn
    BY <1>0, McpAssumption DEF TypeOK, MaybeConn, Conns
<1>2. ASSUME NEW x \in Calls PROVE Sent(x) /\ call[x].at \in MaybeConn
    BY DEF Placed, TypeOK, CallStates
<1>3. ASSUME NEW x \in Calls, call'[x] = call[x] PROVE Sent(x)'
    BY <1>0, <1>1, <1>2, <1>3 DEF Sent, Pending, Kept
<1>4. ASSUME NEW x \in Calls, call'[x].phase = "done", call'[x].result # "timeout" PROVE Sent(x)'
    BY <1>4 DEF Sent, Pending
<1>5. ASSUME NEW x \in Calls, call'[x].phase \in {"waiting", "rewaiting"},
             call'[x].result = call[x].result, call[x].phase # "done"
      PROVE  Sent(x)'
    BY <1>2, <1>5 DEF Sent, Pending
<1>6. ASSUME dir' \in {dir, 0}, promise' \in {promise, 0}, client' \in {client, 0},
             \A c \in Conns : doomed'[c] \in {doomed[c], dir}, closer' # 0 => closes' > 0
      PROVE  Numbered'
    BY <1>0, <1>1, <1>6 DEF Numbered, Kept
<1>7. ASSUME NEW x \in Calls, NEW p \in Phases, Connects(x, p),
             client' \in {client, 0}, UNCHANGED <<doomed, closer, closes>>
      PROVE  Numbered'
    <2>0. dir' = opened' /\ promise' = opened' /\ opened' = opened + 1
        BY <1>7, ConnectsKeeps
    <2>1. opened' >= opened
        BY <1>1, <2>0
    <2> QED
        BY <1>0, <1>1, <1>7, <2>0, <2>1 DEF Numbered, Kept
<1>8. closes \in Nat /\ (closer # 0 => closes > 0)
    BY <1>0, McpAssumption DEF TypeOK, Numbered
<1> USE DEF vars, fields, profile, closeVars, history, Phases
<1>9. ASSUME NEW x \in Calls, CachedList(x) \/ Answered(x) \/ Fails(x) PROVE Placed'
    <2>1. \E e \in {"ok", "failed", "uncoded"} : Settles(x, e)
        BY <1>9 DEF CachedList, Answered, Fails
    <2>2. Numbered'
        BY <1>6, <1>8, <1>9 DEF CachedList, Answered, Fails
    <2> QED
        BY <1>3, <1>4, <2>1, <2>2, SettlesKeeps DEF Placed
<1>10. ASSUME NEW x \in Calls, TimesOut(x) PROVE Placed'
    <2>1. /\ \A y \in Calls : y # x => call'[y] = call[y]
          /\ call'[x].phase = "done" /\ call'[x].at = call[x].at
          /\ call[x].phase = "sent"
        BY <1>10, SettlesKeeps DEF TimesOut
    <2>2. Sent(x)'
        BY <1>0, <1>1, <1>2, <2>1 DEF Sent, Pending, Kept
    <2>3. \A c \in Conns : doomed'[c] \in {doomed[c], dir}
        BY <1>10 DEF TimesOut, Recycle, TypeOK
    <2>4. Numbered'
        BY <1>6, <1>8, <1>10, <2>3 DEF TimesOut, Recycle
    <2> QED
        BY <1>3, <2>1, <2>2, <2>4 DEF Placed
<1>11. ASSUME NEW x \in Calls, Call(x) PROVE Placed'
    <2>1. CASE Connects(x, "waiting")
        <3>1. Numbered'
            BY <1>7, <1>11, <2>1 DEF Call, Starts
        <3>2. Sent(x)' /\ \A y \in Calls : y # x => call'[y] = call[y]
            BY <1>5, <1>11, <2>1, ConnectsKeeps DEF Call
        <3> QED
            BY <1>3, <3>1, <3>2 DEF Placed
    <2>2. CASE ~Connects(x, "waiting")
        <3>1. Numbered'
            BY <1>6, <1>8, <1>11, <2>2, StartedKeeps DEF Call
        <3>2. Sent(x)'
            BY <1>0, <1>1, <1>2, <1>11, <2>2, StartedKeeps DEF Call, Sent, Pending, Numbered
        <3> QED
            BY <1>3, <1>11, <2>2, <3>1, <3>2, StartedKeeps DEF Placed
    <2> QED
        BY <2>1, <2>2
<1>12. ASSUME NEW x \in Calls, Expires(x) \/ Reconnects(x) PROVE Placed'
    <2>1. CASE Connects(x, "rewaiting")
        <3>1. Numbered'
            BY <1>7, <1>12, <2>1 DEF Expires, Reconnects, Drop
        <3>2. Sent(x)' /\ \A y \in Calls : y # x => call'[y] = call[y]
            BY <1>5, <1>12, <2>1, ConnectsKeeps DEF Expires, Reconnects
        <3> QED
            BY <1>3, <3>1, <3>2 DEF Placed
    <2>2. CASE ~Connects(x, "rewaiting") /\ Expires(x)
        <3>1. Numbered'
            BY <1>6, <1>8, <2>2, ExpiredKeeps DEF Expires
        <3>2. ToClose # 0 /\ ToClose \in Conns /\ Closing[ToClose] = "closing"
            BY <2>2, ExpiredKeeps, ClosingKeeps
        <3>3. Sent(x)'
            BY <1>2, <2>2, <3>2, ExpiredKeeps DEF Expires, Sent, Pending
        <3> QED
            BY <1>3, <2>2, <3>1, <3>3, ExpiredKeeps DEF Placed
    <2> QED
        BY <1>12, <2>1, <2>2 DEF Reconnects
<1>13. ASSUME NEW c \in Conns, Ready(c) PROVE Placed'
    <2>1. \A d \in Conns : conn'[d] = IF d = c THEN "up" ELSE conn[d]
        BY <1>13 DEF Ready, TypeOK
    <2>2. Numbered'
        BY <1>0, <1>1, <1>8, <1>13, <2>1 DEF Ready, Numbered, Kept, Met
    <2>3. ASSUME NEW x \in Calls, Waits(x, c) PROVE Sent(x)'
        <3>1. call'[x].at = c /\ conn'[c] = "up" /\ c # 0 /\ call[x].phase # "done"
            BY <1>1, <1>13, <2>1, <2>3, ReadyKeeps DEF Waits
        <3>2. call'[x].phase \in {"done", "sent", "resent"} /\ call'[x].result # "timeout"
            BY <1>2, <1>13, <2>3, <3>1, ReadyKeeps DEF Sent
        <3> QED
            BY <3>1, <3>2 DEF Sent, Pending, Met
    <2> QED
        BY <1>3, <1>13, <2>2, <2>3, ReadyKeeps DEF Placed
<1>14. ASSUME NEW c \in Conns, HandshakeFails(c) PROVE Placed'
    <2>1. Numbered'
        BY <1>6, <1>8, <1>14 DEF HandshakeFails
    <2> QED
        BY <1>3, <1>4, <1>14, <2>1, FailureKeeps DEF Placed
<1>15. ASSUME NEW c \in Conns, ConnClosed(c) \/ Drops(c) \/ LateEnds(c) PROVE Placed'
    BY <1>3, <1>6, <1>8, <1>15 DEF ConnClosed, Drops, LateEnds, Placed
<1>16. CASE Close \/ Closed \/ UNCHANGED vars
    <2>1. call' = call /\ (closer' # 0 => closes' > 0)
        <3>1. CASE Close
            <4>1. closes' = closes + 1 /\ call' = call
                BY <3>1 DEF Close, Forget
            <4> QED
                BY <1>8, <4>1
        <3>2. CASE Closed \/ UNCHANGED vars
            BY <1>8, <3>2 DEF Closed, Forget
        <3> QED
            BY <1>16, <3>1, <3>2
    <2>2. Numbered'
        BY <1>6, <1>16, <2>1 DEF Close, Closed, Forget
    <2> QED
        BY <1>3, <2>1, <2>2 DEF Placed
<1> QED
    BY <1>9, <1>10, <1>11, <1>12, <1>13, <1>14, <1>15, <1>16 DEF Next, CallSteps, ConnSteps

-----------------------------------------------------------------------------
(* One reconnect *)

Reconnecting(x) == call[x].phase \in {"reclosing", "rewaiting", "resent"}

Single ==
    /\ inFlight <=> \E x \in Calls : Reconnecting(x)
    /\ \A x, y \in Calls : Reconnecting(x) /\ Reconnecting(y) => x = y

LEMMA SingleIsOne == Single <=> OneReconnect
BY DEF Single, OneReconnect, Reconnecting

\* A call settles while the others stay as they are.
LEMMA SettlesSingle ==
    ASSUME TypeOK, Single, NEW x \in Calls, NEW e, Settles(x, e), call[x].phase # "reclosing"
    PROVE  Single'
<1>1. ~Reconnecting(x)' /\ \A y \in Calls : y # x => (Reconnecting(y)' <=> Reconnecting(y))
    BY SettlesKeeps DEF Reconnecting
<1>2. inFlight' <=> inFlight /\ ~Reconnecting(x)
    BY DEF Settles, Reconnecting
<1> QED
    BY <1>1, <1>2 DEF Single

\* A call begins to reconnect, or goes on.
LEMMA TakesSingle ==
    ASSUME TypeOK, Single, NEW x \in Calls, \A y \in Calls : y # x => call'[y] = call[y],
           call'[x].phase \in {"reclosing", "rewaiting"}, inFlight', ~inFlight \/ Reconnecting(x)
    PROVE  Single'
<1>1. Reconnecting(x)' /\ \A y \in Calls : y # x => (Reconnecting(y)' <=> Reconnecting(y))
    BY DEF Reconnecting
<1> QED
    BY <1>1 DEF Single

LEMMA InitIdle ==
    ASSUME Init, NEW x \in Calls
    PROVE  call[x].phase = "idle" /\ call[x].result = "none"
<1>1. PICK op \in [Calls -> {"start", "list", "tool"}] :
          call = [y \in Calls |-> [phase |-> "idle", op |-> op[y], at |-> 0, result |-> "none"]]
    BY DEF Init
<1> QED
    BY <1>1

LEMMA InitPlaced == Init => Placed
<1> SUFFICES ASSUME Init PROVE Placed
    OBVIOUS
<1>1. Numbered
    BY McpAssumption DEF Init, Numbered, Conns
<1>2. \A x \in Calls : Sent(x)
    BY InitIdle DEF Sent, Pending
<1> QED
    BY <1>1, <1>2 DEF Placed

LEMMA InitSingle == Init => Single
<1> SUFFICES ASSUME Init PROVE Single
    OBVIOUS
<1>1. \A x \in Calls : ~Reconnecting(x)
    BY InitIdle DEF Reconnecting
<1>2. inFlight = FALSE
    BY DEF Init
<1> QED
    BY <1>1, <1>2 DEF Single

LEMMA StepSingle == TypeOK /\ Placed /\ Single /\ [Next]_vars => Single'
<1> SUFFICES ASSUME TypeOK, Placed, Single, [Next]_vars PROVE Single'
    OBVIOUS
<1>0. ASSUME \A x \in Calls : Reconnecting(x)' <=> Reconnecting(x), inFlight' = inFlight
      PROVE  Single'
    BY <1>0 DEF Single
<1> USE DEF vars, fields, profile, closeVars, history, Phases
<1>1. ASSUME NEW x \in Calls, CachedList(x) \/ Answered(x) \/ Fails(x) \/ TimesOut(x)
      PROVE  Single'
    <2>1. call[x].phase # "reclosing"
        BY <1>1 DEF CachedList, Answered, Fails, TimesOut, Pending
    <2>2. \E e \in {"ok", "failed", "uncoded", "timeout"} : Settles(x, e)
        BY <1>1 DEF CachedList, Answered, Fails, TimesOut
    <2> QED
        BY <2>1, <2>2, SettlesSingle
<1>2. ASSUME NEW x \in Calls, Call(x) PROVE Single'
    <2>1. /\ \A y \in Calls : y # x => call'[y] = call[y]
          /\ call'[x].phase \in {"waiting", "sent", "done"}
        BY <1>2, ConnectsKeeps, StartedKeeps
    <2> QED
        BY <1>0, <1>2, <2>1 DEF Call, Reconnecting
<1>3. ASSUME NEW x \in Calls, Expires(x) \/ Reconnects(x) PROVE Single'
    <2>1. /\ \A y \in Calls : y # x => call'[y] = call[y]
          /\ call'[x].phase \in {"reclosing", "rewaiting"}
        BY <1>3, ConnectsKeeps, ExpiredKeeps DEF Reconnects
    <2>2. inFlight' /\ (~inFlight \/ Reconnecting(x))
        BY <1>3 DEF Expires, Reconnects, Reconnecting, Single
    <2> QED
        BY <2>1, <2>2, TakesSingle
<1>4. ASSUME NEW c \in Conns, Ready(c) PROVE Single'
    <2>1. \A x \in Calls : Reconnecting(x)' <=> Reconnecting(x)
        BY <1>4, ReadyKeeps DEF Reconnecting, Waits
    <2> QED
        BY <1>0, <1>4, <2>1 DEF Ready
<1>5. ASSUME NEW c \in Conns, HandshakeFails(c) PROVE Single'
    <2> DEFINE Gone(x) == call[x].phase = "rewaiting" /\ call[x].at = c
    <2>1. \A x \in Calls : Reconnecting(x)' <=> Reconnecting(x) /\ ~Gone(x)
        BY <1>5, FailureKeeps DEF Reconnecting, Waits
    <2>2. inFlight' <=> inFlight /\ ~\E x \in Calls : Gone(x)
        BY <1>5 DEF HandshakeFails
    <2>3. \A x \in Calls : Gone(x) => Reconnecting(x)
        BY DEF Reconnecting
    <2> HIDE DEF Gone
    <2> QED
        BY <2>1, <2>2, <2>3 DEF Single
<1>6. ASSUME NEW c \in Conns, ConnClosed(c) \/ Drops(c) \/ LateEnds(c) PROVE Single'
    BY <1>0, <1>6 DEF ConnClosed, Drops, LateEnds, Reconnecting
<1>7. CASE Close \/ Closed \/ UNCHANGED vars
    <2>1. call' = call /\ inFlight' = inFlight
        BY <1>7 DEF Close, Closed, Forget
    <2> QED
        BY <1>0, <2>1 DEF Reconnecting
<1> QED
    BY <1>1, <1>2, <1>3, <1>4, <1>5, <1>6, <1>7 DEF Next, CallSteps, ConnSteps

-----------------------------------------------------------------------------
(* A connection means a client *)

LEMMA InitClient == Init => ConnectedMeansClient
BY DEF Init, ConnectedMeansClient

LEMMA StepClient == TypeOK /\ Placed /\ ConnectedMeansClient /\ [Next]_vars => ConnectedMeansClient'
<1> SUFFICES ASSUME TypeOK, Placed, ConnectedMeansClient, [Next]_vars PROVE ConnectedMeansClient'
    OBVIOUS
<1>0. /\ MaybeConn = Conns \cup {0} /\ promise \in MaybeConn /\ 0 \notin Conns
      /\ \A c \in Conns : conn[c] = "none" <=> c > opened
      /\ promise # 0 => conn[promise] # "none"
    BY McpAssumption DEF Placed, Numbered, TypeOK, MaybeConn, Conns
<1>1. ASSUME promise' = promise, client' = client, status' # "ready" \/ status' = status,
             conn' = conn \/ conn' = Closing
      PROVE  ConnectedMeansClient'
    <2>1. promise # 0 /\ conn[promise] = "connecting" => conn'[promise] = "connecting"
        BY <1>0, <1>1, ClosingKeeps
    <2> QED
        BY <1>1, <2>1 DEF ConnectedMeansClient
<1>2. ASSUME promise' = 0, status' # "ready" PROVE ConnectedMeansClient'
    BY <1>2 DEF ConnectedMeansClient
<1>3. ASSUME NEW x \in Calls, NEW p \in Phases, Connects(x, p) PROVE ConnectedMeansClient'
    <2>1. promise' = opened' /\ conn'[opened'] = "connecting" /\ status' = "connecting"
        BY <1>3, ConnectsKeeps DEF Connects
    <2> QED
        BY <2>1 DEF ConnectedMeansClient
<1> USE DEF vars, fields, profile, closeVars, history, Phases
<1>4. ASSUME NEW x \in Calls, CallSteps(x) PROVE ConnectedMeansClient'
    <2>1. CASE Connects(x, "waiting") \/ Connects(x, "rewaiting")
        BY <1>3, <2>1
    <2>2. CASE Call(x) /\ ~Connects(x, "waiting")
        BY <1>1, <2>2, StartedKeeps
    <2>3. CASE CachedList(x) \/ Answered(x) \/ Fails(x)
        BY <1>1, <2>3 DEF CachedList, Answered, Fails
    <2>4. CASE TimesOut(x)
        BY <1>2, <2>4 DEF TimesOut, Recycle
    <2>5. CASE Expires(x) /\ ~Connects(x, "rewaiting")
        BY <1>1, <2>5, ExpiredKeeps DEF Expires
    <2> QED
        BY <1>4, <2>1, <2>2, <2>3, <2>4, <2>5 DEF CallSteps, Reconnects
<1>5. ASSUME NEW c \in Conns, Ready(c) PROVE ConnectedMeansClient'
    BY <1>0, <1>5 DEF Ready, ConnectedMeansClient
<1>6. ASSUME NEW c \in Conns, HandshakeFails(c) PROVE ConnectedMeansClient'
    BY <1>2, <1>6 DEF HandshakeFails
<1>7. ASSUME NEW c \in Conns, ConnClosed(c) \/ Drops(c) \/ LateEnds(c)
      PROVE ConnectedMeansClient'
    <2>1. /\ promise' = promise /\ client' = client /\ status' = status
          /\ \A d \in Conns : conn[d] = "connecting" => conn'[d] = "connecting"
        BY <1>7 DEF ConnClosed, Drops, LateEnds, TypeOK
    <2> QED
        BY <1>0, <2>1 DEF ConnectedMeansClient
<1>8. CASE Close \/ Closed \/ UNCHANGED vars
    <2>1. CASE promise' = 0 /\ status' = "idle"
        BY <1>2, <2>1
    <2>2. CASE UNCHANGED fields /\ (conn' = conn \/ conn' = Closing)
        BY <1>1, <2>2
    <2> QED
        BY <1>8, <2>1, <2>2 DEF Close, Closed, Forget
<1> QED
    BY <1>4, <1>5, <1>6, <1>7, <1>8 DEF Next, ConnSteps

-----------------------------------------------------------------------------
(* One connection *)

\* As long as nothing was raced, what is alive is the connection of the promise, with its
\* directory, which nobody is about to remove.
Agreed ==
    ~raced => /\ client \in {0, promise}
              /\ Alive \subseteq {promise} /\ Alive \subseteq dirs
              /\ \A c \in Conns : doomed[c] \notin Alive

\* Whoever drops the client that is closed, drops everything there is.
LEMMA DropEmpties ==
    ASSUME TypeOK, Agreed, ~raced, NEW closed, {client, promise} \subseteq {0, closed},
           closed \notin Alive
    PROVE  Alive = {}
BY McpAssumption DEF Agreed, Alive, Conns

\* Closing the client leaves nothing, if there is no other promise.
LEMMA CloseEmpties ==
    ASSUME TypeOK, Placed, Agreed, ~raced, promise \in {0, client}
    PROVE  \A c \in Conns : Closing[c] \notin {"connecting", "up"}
<1> SUFFICES ASSUME NEW c \in Conns, Closing[c] \in {"connecting", "up"} PROVE FALSE
    OBVIOUS
<1>1. c # ToClose /\ conn[c] \in {"connecting", "up"} /\ c # 0
    BY ClosingKeeps, McpAssumption DEF Conns
<1>2. c = client
    BY <1>1 DEF Agreed, Alive
<1> QED
    BY <1>1, <1>2 DEF Placed, Numbered, Met, ToClose

\* Nobody uses a connection that is not met.
LEMMA PromisedIsAlive ==
    ASSUME TypeOK, Placed, Agreed, ~raced, NEW c \in Conns, conn[c] = "connecting"
    PROVE  c = promise /\ client = 0 /\ \A d \in Conns : d \in Alive => d = c
BY McpAssumption DEF Agreed, Alive, Placed, Numbered, Met, Conns

LEMMA InitAgreed == Init => Agreed
BY DEF Init, Agreed, Alive

LEMMA StepAgreed == TypeOK /\ Placed /\ Agreed /\ [Next]_vars => Agreed'
<1> SUFFICES ASSUME TypeOK, Placed, Agreed, [Next]_vars PROVE Agreed'
    OBVIOUS
<1>0. /\ Numbered /\ 0 \notin Conns /\ opened \in Nat
      /\ \A c \in Conns : doomed[c] \in Nat
    BY McpAssumption DEF Placed, Conns, MaybeConn, TypeOK
<1>1. ASSUME Alive' \subseteq Alive, UNCHANGED <<client, promise, dirs, doomed, raced>>
      PROVE  Agreed'
    BY <1>1 DEF Agreed
<1>2. ASSUME ~raced' => Alive' = {}, client' = 0 PROVE Agreed'
    BY <1>2 DEF Agreed
<1>3. ASSUME NEW x \in Calls, NEW p \in Phases, Connects(x, p), UNCHANGED doomed,
             ~raced' => Alive = {} /\ client' = 0
      PROVE  Agreed'
    <2> SUFFICES ASSUME ~raced' PROVE Agreed'
        BY DEF Agreed
    <2>1. /\ opened' \in Conns /\ promise' = opened' /\ opened' = opened + 1
          /\ \A d \in Conns : conn'[d] = IF d = opened' THEN "connecting" ELSE conn[d]
        BY <1>3, ConnectsKeeps
    <2>2. \A c \in Conns : doomed'[c] # opened + 1
        BY <1>0, <1>3 DEF Numbered
    <2>3. Alive' = {opened'}
        BY <1>3, <2>1 DEF Alive
    <2>4. opened' \in dirs'
        BY <1>3, <2>1 DEF Connects
    <2> QED
        BY <1>3, <2>1, <2>2, <2>3, <2>4 DEF Agreed
<1>4. conn' = Closing => Alive' \subseteq Alive
    BY ClosingKeeps DEF Alive
<1> USE DEF vars, fields, profile, closeVars, history, Phases
<1>5. ASSUME NEW x \in Calls, Call(x) PROVE Agreed'
    <2>1. CASE Connects(x, "waiting")
        <3>1. promise = 0 /\ UNCHANGED <<client, doomed, raced>>
            BY <1>0, <1>5, <2>1 DEF Call, Starts, Connects
        <3>2. ~raced => Alive = {} /\ client = 0
            BY <1>0, <3>1 DEF Agreed, Alive
        <3> QED
            BY <1>3, <2>1, <3>1, <3>2
    <2>2. CASE ~Connects(x, "waiting")
        BY <1>1, <1>5, <2>2, StartedKeeps DEF Call, Alive
    <2> QED
        BY <2>1, <2>2
<1>6. ASSUME NEW x \in Calls, CachedList(x) \/ Answered(x) \/ Fails(x) PROVE Agreed'
    BY <1>1, <1>6 DEF CachedList, Answered, Fails, Alive
<1>7. ASSUME NEW x \in Calls, TimesOut(x) PROVE Agreed'
    <2>1. ~raced' => ~raced /\ promise \in {0, client}
        BY <1>7 DEF TimesOut, Recycle
    <2>2. ~raced' => Alive' = {}
        BY <1>7, <2>1, CloseEmpties DEF TimesOut, Recycle, Alive
    <2> QED
        BY <1>2, <1>7, <2>2 DEF TimesOut, Recycle
<1>8. ASSUME NEW x \in Calls, Expires(x) PROVE Agreed'
    <2>1. CASE Connects(x, "rewaiting")
        <3>1. Drop(client) /\ ToClose = 0
            BY <1>0, <1>8, <2>1 DEF Expires, Connects
        <3>2. client \notin Alive
            BY <1>0, <3>1 DEF ToClose, Alive, Numbered, Met
        <3>3. ~raced' => Alive = {}
            BY <3>1, <3>2, DropEmpties DEF Drop
        <3> QED
            BY <1>3, <2>1, <3>1, <3>3 DEF Drop
    <2>2. CASE ~Connects(x, "rewaiting")
        BY <1>1, <1>4, <1>8, <2>2, ExpiredKeeps
    <2> QED
        BY <2>1, <2>2
<1>9. ASSUME NEW x \in Calls, Reconnects(x) PROVE Agreed'
    <2>1. call[x].at \notin Alive
        BY <1>9 DEF Reconnects, Alive
    <2>2. ~raced' => Alive = {}
        BY <1>9, <2>1, DropEmpties DEF Reconnects, Drop
    <2> QED
        BY <1>3, <1>9, <2>2 DEF Reconnects, Drop
<1>10. ASSUME NEW c \in Conns, Ready(c) PROVE Agreed'
    <2> SUFFICES ASSUME ~raced PROVE Agreed'
        BY <1>10 DEF Agreed, Ready
    <2>1. c = promise /\ Alive = {c} /\ conn[c] = "connecting"
        BY <1>10, PromisedIsAlive DEF Ready, Alive
    <2>2. Alive' = Alive /\ client' = c /\ UNCHANGED <<promise, dirs, doomed, raced>>
        BY <1>10, <2>1 DEF Ready, Alive, TypeOK
    <2> QED
        BY <2>1, <2>2 DEF Agreed
<1>11. ASSUME NEW c \in Conns, HandshakeFails(c) PROVE Agreed'
    <2> SUFFICES ASSUME ~raced PROVE Agreed'
        BY <1>11 DEF Agreed, HandshakeFails
    <2>1. client = 0 /\ Alive = {c}
        BY <1>11, PromisedIsAlive DEF HandshakeFails, Alive
    <2>2. \A d \in Conns : d # c => conn'[d] = conn[d]
        BY <1>11 DEF HandshakeFails, TypeOK
    <2>3. conn'[c] \in {"closed", "late"}
        BY <1>11 DEF HandshakeFails, TypeOK
    <2>4. Alive' = {}
        BY <2>1, <2>2, <2>3 DEF Alive
    <2> QED
        BY <1>2, <1>11, <2>1, <2>4 DEF HandshakeFails
<1>12. ASSUME NEW c \in Conns, ConnClosed(c) PROVE Agreed'
    <2>1. Alive' = Alive /\ dirs' = dirs \ {doomed[c]} /\ UNCHANGED <<client, promise, doomed, raced>>
        BY <1>12 DEF ConnClosed, Alive, TypeOK
    <2> QED
        BY <2>1 DEF Agreed
<1>13. ASSUME NEW c \in Conns, Drops(c) \/ LateEnds(c) PROVE Agreed'
    <2>1. Alive' \subseteq Alive
        BY <1>13 DEF Drops, LateEnds, Alive, TypeOK
    <2> QED
        BY <1>1, <1>13, <2>1 DEF Drops, LateEnds
<1>14. ASSUME NEW closed, Forget(closed), closed \notin Alive', Alive' = Alive PROVE Agreed'
    <2>1. ~raced' => Alive = {}
        BY <1>14, DropEmpties DEF Forget
    <2> QED
        BY <1>2, <1>14, <2>1 DEF Forget
<1>15. CASE Close
    <2>1. CASE ToClose = 0 /\ Forget(client)
        <3>1. client \notin Alive
            BY <1>0, <2>1 DEF ToClose, Alive, Numbered, Met
        <3>2. Alive' = Alive
            BY <1>15, <2>1 DEF Close, Closing, Alive
        <3> QED
            BY <1>14, <2>1, <3>1, <3>2
    <2>2. CASE UNCHANGED <<fields, profile, opened, call, history, touched>>
        BY <1>1, <1>4, <1>15, <2>2 DEF Close
    <2> QED
        BY <1>15, <2>1, <2>2 DEF Close
<1>16. CASE Closed
    <2>1. closer \notin Alive /\ Alive' = Alive /\ Forget(closer)
        BY <1>16 DEF Closed, Alive
    <2> QED
        BY <1>14, <2>1
<1>17. CASE UNCHANGED vars
    BY <1>1, <1>17 DEF Alive
<1> QED
    BY <1>5, <1>6, <1>7, <1>8, <1>9, <1>10, <1>11, <1>12, <1>13, <1>15, <1>16, <1>17
    DEF Next, CallSteps, ConnSteps

-----------------------------------------------------------------------------
(* Only timeouts and closes race *)

TimedOut == \E x \in Calls : call[x].result = "timeout"
Reclosing(x) == call[x].phase = "reclosing"

\* Without timeouts and closes, the only connection that is being closed is the one a
\* reconnect waits for, and it is still the client and the promise.
Calm ==
    closes = 0 /\ ~TimedOut =>
        /\ ~raced
        /\ \A c \in Conns : conn[c] = "closing" => \E x \in Calls : Reclosing(x) /\ call[x].at = c
        /\ \A x \in Calls : Reclosing(x) => client = call[x].at /\ promise = call[x].at

LEMMA InitCalm == Init => Calm
<1> SUFFICES ASSUME Init PROVE Calm
    OBVIOUS
<1>1. \A x \in Calls : ~Reclosing(x)
    BY InitIdle DEF Reclosing
<1>2. ~raced /\ \A c \in Conns : conn[c] # "closing"
    BY DEF Init
<1> QED
    BY <1>1, <1>2 DEF Calm

LEMMA StepCalm ==
    TypeOK /\ Placed /\ Single /\ ConnectedMeansClient /\ Agreed /\ Calm /\ [Next]_vars => Calm'
<1> SUFFICES ASSUME TypeOK, Placed, Single, ConnectedMeansClient, Agreed, Calm, [Next]_vars,
                    closes' = 0, ~TimedOut'
             PROVE  /\ ~raced'
                    /\ \A c \in Conns : conn'[c] = "closing" =>
                           \E x \in Calls : Reclosing(x)' /\ call'[x].at = c
                    /\ \A x \in Calls : Reclosing(x)' =>
                           client' = call'[x].at /\ promise' = call'[x].at
    BY DEF Calm
<1> DEFINE Goal ==
        /\ ~raced'
        /\ \A c \in Conns : conn'[c] = "closing" => \E x \in Calls : Reclosing(x)' /\ call'[x].at = c
        /\ \A x \in Calls : Reclosing(x)' => client' = call'[x].at /\ promise' = call'[x].at
<1>0. /\ Numbered /\ 0 \notin Conns /\ opened \in Nat /\ closes \in Nat
      /\ client \in Conns \cup {0} /\ promise \in Conns \cup {0}
    BY McpAssumption DEF Placed, Conns, MaybeConn, TypeOK
<1>1. ASSUME NEW x \in Calls PROVE Sent(x) /\ call[x].at \in Conns \cup {0}
    BY McpAssumption DEF Placed, TypeOK, CallStates, Conns, MaybeConn
<1>2. ASSUME closes = 0, ~TimedOut
      PROVE  /\ ~raced
             /\ \A c \in Conns : conn[c] = "closing" => \E x \in Calls : Reclosing(x) /\ call[x].at = c
             /\ \A x \in Calls : Reclosing(x) => client = call[x].at /\ promise = call[x].at
    BY <1>2 DEF Calm
<1>3. ASSUME closes = 0, ~TimedOut, ~raced',
             \A c \in Conns : conn'[c] = "closing" => conn[c] = "closing",
             \A x \in Calls : Reclosing(x) => Reclosing(x)',
             \A x \in Calls : Reclosing(x)' => Reclosing(x) /\ call'[x].at = call[x].at,
             UNCHANGED <<client, promise>>
      PROVE  Goal
    BY <1>2, <1>3
<1>4. ASSUME ~raced', \A c \in Conns : conn'[c] # "closing", \A x \in Calls : ~Reclosing(x)'
      PROVE  Goal
    BY <1>4
<1> HIDE DEF Goal
<1>5. SUFFICES Goal
    BY DEF Goal
<1>6. ASSUME closes' = closes, \A x \in Calls : call[x].result = "timeout" => call'[x].result = "timeout"
      PROVE  closes = 0 /\ ~TimedOut
    BY <1>6 DEF TimedOut
<1> USE DEF vars, fields, profile, closeVars, history, Phases
<1>7. ASSUME NEW x \in Calls, Call(x) PROVE Goal
    <2>1. /\ \A y \in Calls : y # x => call'[y] = call[y]
          /\ call'[x].phase \in {"waiting", "sent", "done"} /\ call[x].phase = "idle"
          /\ raced' = raced /\ closes' = closes
        BY <1>7, ConnectsKeeps, StartedKeeps DEF Call
    <2>2. closes = 0 /\ ~TimedOut
        BY <1>1, <1>6, <2>1 DEF Sent
    <2>3. \A y \in Calls : /\ Reclosing(y)' <=> Reclosing(y)
                           /\ Reclosing(y) => call'[y].at = call[y].at
        BY <2>1 DEF Reclosing
    <2>4. CASE Connects(x, "waiting")
        <3>1. promise = 0 /\ \A y \in Calls : ~Reclosing(y)
            BY <1>0, <1>1, <1>2, <1>7, <2>2, <2>4 DEF Call, Starts, Connects, Sent, Reclosing
        <3>2. \A c \in Conns : conn[c] # "closing"
            BY <1>2, <2>2, <3>1
        <3>3. \A c \in Conns : conn'[c] # "closing"
            BY <2>4, <3>2, ConnectsKeeps
        <3> QED
            BY <1>2, <1>4, <2>1, <2>2, <2>3, <3>1, <3>3
    <2>5. CASE ~Connects(x, "waiting")
        BY <1>2, <1>3, <1>7, <2>1, <2>2, <2>3, <2>5, StartedKeeps
    <2> QED
        BY <2>4, <2>5
<1>8. ASSUME NEW x \in Calls, CachedList(x) \/ Answered(x) \/ Fails(x) PROVE Goal
    <2>1. /\ \E e \in {"ok", "failed", "uncoded"} : Settles(x, e)
          /\ call[x].phase \in {"idle", "sent", "resent"}
          /\ UNCHANGED <<client, promise, conn, closes, raced>>
        BY <1>8 DEF CachedList, Answered, Fails, Pending
    <2>2. /\ \A y \in Calls : y # x => call'[y] = call[y]
          /\ call'[x].phase = "done"
        BY <2>1, SettlesKeeps
    <2>3. closes = 0 /\ ~TimedOut
        BY <1>1, <1>6, <2>1, <2>2 DEF Sent
    <2> QED
        BY <1>2, <1>3, <2>1, <2>2, <2>3 DEF Reclosing
<1>9. ASSUME NEW x \in Calls, TimesOut(x) PROVE Goal
    BY <1>9, SettlesKeeps DEF TimesOut, TimedOut
<1>10. ASSUME NEW x \in Calls, Expires(x) PROVE Goal
    <2>1. /\ \A y \in Calls : y # x => call'[y] = call[y]
          /\ call'[x].result = call[x].result /\ closes' = closes
        BY <1>10, ConnectsKeeps, ExpiredKeeps DEF Expires
    <2>2. closes = 0 /\ ~TimedOut
        BY <1>6, <2>1
    <2>3. \A y \in Calls : ~Reclosing(y)
        BY <1>10 DEF Expires, Single, Reclosing, Reconnecting
    <2>4. \A c \in Conns : conn[c] # "closing"
        BY <1>2, <2>2, <2>3
    <2>5. call[x].at \in Alive /\ conn[call[x].at] = "up"
        BY <1>1, <1>10, <2>4 DEF Expires, Alive, Sent, Pending
    <2>6. client = promise /\ ToClose = client /\ client # 0
        BY <1>0, <1>2, <2>2, <2>5 DEF Agreed, ConnectedMeansClient, Alive, ToClose
    <2>7. ~Connects(x, "rewaiting")
        BY <1>0, <1>10, <2>6 DEF Expires, Connects
    <2>8. \A c \in Conns : conn'[c] = "closing" => c = client
        BY <1>10, <2>4, <2>6, <2>7, ExpiredKeeps, ClosingKeeps
    <2>9. /\ Reclosing(x)' /\ call'[x].at = client /\ UNCHANGED <<client, promise, raced>>
          /\ \A y \in Calls : Reclosing(y)' => y = x
        BY <1>10, <2>1, <2>3, <2>6, <2>7, ExpiredKeeps DEF Reclosing
    <2> QED
        BY <1>2, <2>2, <2>6, <2>8, <2>9 DEF Goal
<1>11. ASSUME NEW x \in Calls, Reconnects(x) PROVE Goal
    <2>1. /\ \A y \in Calls : y # x => call'[y] = call[y]
          /\ call'[x].result = call[x].result /\ call'[x].phase = "rewaiting"
          /\ closes' = closes /\ Reclosing(x)
        BY <1>11, ConnectsKeeps DEF Reconnects, Reclosing
    <2>2. closes = 0 /\ ~TimedOut
        BY <1>6, <2>1
    <2>3. \A y \in Calls : Reclosing(y) => y = x
        BY <2>1 DEF Single, Reclosing, Reconnecting
    <2>4. ~raced'
        BY <1>2, <1>11, <2>1, <2>2 DEF Reconnects, Drop
    <2>5. \A c \in Conns : conn[c] # "closing"
        BY <1>2, <1>11, <2>2, <2>3 DEF Reconnects
    <2>6. \A c \in Conns : conn'[c] # "closing"
        BY <1>11, <2>5, ConnectsKeeps DEF Reconnects
    <2> QED
        BY <1>4, <2>1, <2>3, <2>4, <2>6 DEF Reclosing
<1>12. ASSUME NEW c \in Conns, Ready(c) \/ HandshakeFails(c) PROVE Goal
    <2>1. ASSUME NEW x \in Calls
          PROVE  /\ call'[x].at = call[x].at /\ (Reclosing(x)' <=> Reclosing(x))
                 /\ call[x].result = "timeout" => call'[x].result = "timeout"
        BY <1>1, <1>12, ReadyKeeps, FailureKeeps DEF Reclosing, Waits, Sent
    <2>2. closes = 0 /\ ~TimedOut
        BY <1>6, <1>12, <2>1 DEF Ready, HandshakeFails
    <2>3. c = promise /\ conn[c] = "connecting"
        BY <1>2, <1>12, <2>2, PromisedIsAlive DEF Ready, HandshakeFails
    <2>4. \A x \in Calls : ~Reclosing(x)
        BY <1>1, <1>2, <2>2, <2>3 DEF Sent, Reclosing
    <2>5. \A d \in Conns : conn'[d] # "closing"
        BY <1>2, <1>12, <2>2, <2>4 DEF Ready, HandshakeFails, TypeOK
    <2>6. ~raced'
        BY <1>2, <1>12, <2>2, <2>3 DEF Ready, HandshakeFails
    <2> QED
        BY <1>4, <2>1, <2>4, <2>5, <2>6
<1>13. ASSUME NEW c \in Conns, ConnClosed(c) \/ Drops(c) \/ LateEnds(c) PROVE Goal
    <2>1. /\ UNCHANGED <<client, promise, call, closes, raced>>
          /\ \A d \in Conns : conn'[d] = "closing" => conn[d] = "closing"
        BY <1>13 DEF ConnClosed, Drops, LateEnds, TypeOK
    <2> QED
        BY <1>2, <1>3, <1>6, <2>1 DEF Reclosing
<1>14. CASE Close \/ Closed
    <2>1. CASE Close
        BY <1>0, <2>1 DEF Close
    <2>2. CASE Closed
        BY <1>0, <2>2 DEF Closed, Numbered
    <2> QED
        BY <1>14, <2>1, <2>2
<1>15. CASE UNCHANGED vars
    BY <1>2, <1>3, <1>6, <1>15 DEF Reclosing
<1> QED
    BY <1>7, <1>8, <1>9, <1>10, <1>11, <1>12, <1>13, <1>14, <1>15 DEF Next, CallSteps, ConnSteps

-----------------------------------------------------------------------------
(* Nothing of an old connection is used again *)

LEMMA StepTimedOut == TypeOK /\ Placed /\ TimedOutIsDropped /\ [Next]_vars => TimedOutIsDropped'
<1> SUFFICES ASSUME TypeOK, Placed, TimedOutIsDropped, [Next]_vars PROVE TimedOutIsDropped'
    OBVIOUS
<1>0. ASSUME NEW x \in Calls, call[x].result = "timeout"
      PROVE  /\ call[x].phase = "done" /\ client # call[x].at /\ call[x].at # 0
             /\ conn[call[x].at] \in Met
    BY <1>0 DEF Placed, Sent, TimedOutIsDropped
<1>1. ASSUME client' \in {client, 0},
             \A x \in Calls : call'[x].result = "timeout" =>
                 call[x].result = "timeout" /\ call'[x].at = call[x].at
      PROVE  TimedOutIsDropped'
    BY <1>0, <1>1 DEF TimedOutIsDropped
<1> USE DEF vars, fields, profile, closeVars, history, Phases
<1>2. ASSUME NEW x \in Calls, CachedList(x) \/ Answered(x) \/ Fails(x) PROVE TimedOutIsDropped'
    <2>1. client' = client /\ \E e \in {"ok", "failed", "uncoded"} : Settles(x, e)
        BY <1>2 DEF CachedList, Answered, Fails
    <2> QED
        BY <1>1, <2>1, SettlesKeeps
<1>3. ASSUME NEW x \in Calls, TimesOut(x) PROVE TimedOutIsDropped'
    <2>1. /\ \A y \in Calls : y # x => call'[y] = call[y]
          /\ call'[x].at = call[x].at /\ call[x].phase = "sent" /\ client' = 0
        BY <1>3, SettlesKeeps DEF TimesOut, Recycle
    <2>2. call[x].at # 0
        BY <2>1 DEF Placed, Sent, Pending
    <2> QED
        BY <1>0, <2>1, <2>2 DEF TimedOutIsDropped
<1>4. ASSUME NEW x \in Calls, Call(x) \/ Expires(x) \/ Reconnects(x) PROVE TimedOutIsDropped'
    <2>1. call[x].phase # "done"
        BY <1>4 DEF Call, Expires, Reconnects
    <2>2. /\ \A y \in Calls : y # x => call'[y] = call[y]
          /\ call'[x].result \in {call[x].result, "ok", "handshake"}
        BY <1>4, ConnectsKeeps, StartedKeeps, ExpiredKeeps DEF Reconnects
    <2>3. client' \in {client, 0}
        BY <1>4, StartedKeeps, ExpiredKeeps DEF Call, Starts, Expires, Reconnects, Drop
    <2> QED
        BY <1>0, <1>1, <2>1, <2>2, <2>3
<1>5. ASSUME NEW c \in Conns, Ready(c) PROVE TimedOutIsDropped'
    <2>1. client' = c /\ conn[c] = "connecting"
        BY <1>5 DEF Ready
    <2>2. \A x \in Calls : call'[x].result = "timeout" =>
              call[x].result = "timeout" /\ call'[x].at = call[x].at
        BY <1>5, ReadyKeeps
    <2> QED
        BY <1>0, <2>1, <2>2 DEF TimedOutIsDropped, Met
<1>6. ASSUME NEW c \in Conns, HandshakeFails(c) PROVE TimedOutIsDropped'
    BY <1>1, <1>6, FailureKeeps DEF HandshakeFails
<1>7. ASSUME NEW c \in Conns, ConnClosed(c) \/ Drops(c) \/ LateEnds(c) PROVE TimedOutIsDropped'
    BY <1>1, <1>7 DEF ConnClosed, Drops, LateEnds
<1>8. CASE Close \/ Closed \/ UNCHANGED vars
    <2>1. call' = call /\ client' \in {client, 0}
        BY <1>8 DEF Close, Closed, Forget
    <2> QED
        BY <1>1, <2>1
<1> QED
    BY <1>2, <1>3, <1>4, <1>5, <1>6, <1>7, <1>8 DEF Next, CallSteps, ConnSteps

\* The list that is kept is of the client, and never of what a reconnect is closing.
ListHeld ==
    ~overtaken => /\ ~raced => cache \in {0, client}
                  /\ \A x \in Calls : Reclosing(x) => cache # call[x].at

LEMMA StepListHeld ==
    TypeOK /\ Placed /\ ConnectedMeansClient /\ Agreed /\ ListHeld /\ [Next]_vars => ListHeld'
<1> SUFFICES ASSUME TypeOK, Placed, ConnectedMeansClient, Agreed, ListHeld, [Next]_vars,
                    ~overtaken'
             PROVE  /\ ~raced' => cache' \in {0, client'}
                    /\ \A x \in Calls : Reclosing(x)' => cache' # call'[x].at
    BY DEF ListHeld
<1> DEFINE Goal == /\ ~raced' => cache' \in {0, client'}
                   /\ \A x \in Calls : Reclosing(x)' => cache' # call'[x].at
<1>0. ASSUME NEW x \in Calls
      PROVE  /\ Reclosing(x) => call[x].at # 0 /\ conn[call[x].at] \in {"closing", "closed"}
             /\ Pending(x) => call[x].at \in Conns
    BY McpAssumption DEF Placed, Sent, Reclosing, TypeOK, CallStates, Conns, MaybeConn
<1>1. ASSUME ~overtaken
      PROVE  /\ ~raced => cache \in {0, client}
             /\ \A x \in Calls : Reclosing(x) => cache # call[x].at
    BY <1>1 DEF ListHeld
<1>2. ASSUME ~overtaken, ~raced' => ~raced, cache' = cache, ~raced' => client' = client \/ cache = 0,
             \A x \in Calls : Reclosing(x)' => Reclosing(x) /\ call'[x].at = call[x].at
      PROVE  Goal
    BY <1>1, <1>2
<1>3. ASSUME cache' = 0, \A x \in Calls : Reclosing(x)' => call'[x].at # 0 PROVE Goal
    BY <1>3
<1> HIDE DEF Goal
<1> SUFFICES Goal
    BY DEF Goal
<1> USE DEF vars, fields, profile, closeVars, history, Phases
<1>4. ASSUME NEW x \in Calls, CachedList(x) \/ Fails(x) PROVE Goal
    <2>1. /\ \E e \in {"ok", "failed", "uncoded"} : Settles(x, e)
          /\ UNCHANGED <<client, cache, raced, overtaken>>
        BY <1>4 DEF CachedList, Fails
    <2> QED
        BY <1>2, <2>1, SettlesKeeps DEF Reclosing
<1>5. ASSUME NEW x \in Calls, Answered(x) PROVE Goal
    <2>1. /\ \A y \in Calls : y # x => call'[y] = call[y]
          /\ call'[x].phase = "done" /\ UNCHANGED <<client, promise, raced, conn>> /\ ~overtaken
        BY <1>5, SettlesKeeps DEF Answered
    <2>2. CASE cache' = cache
        BY <1>2, <2>1, <2>2 DEF Reclosing
    <2>3. CASE cache' = call[x].at /\ conn[call[x].at] = "up"
        <3>1. ~raced => client = call[x].at
            BY <1>0, <1>5, <2>3 DEF Answered, Agreed, Alive, ConnectedMeansClient, Conns
        <3>2. \A y \in Calls : Reclosing(y)' => cache' # call'[y].at
            BY <1>0, <2>1, <2>3 DEF Reclosing
        <3> QED
            BY <2>1, <2>3, <3>1, <3>2 DEF Goal
    <2> QED
        BY <1>5, <2>2, <2>3 DEF Answered
<1>6. ASSUME NEW x \in Calls, TimesOut(x) PROVE Goal
    <2>1. /\ \A y \in Calls : y # x => call'[y] = call[y]
          /\ call'[x].phase = "done" /\ cache' = 0
        BY <1>6, SettlesKeeps DEF TimesOut, Recycle
    <2> QED
        BY <1>0, <1>3, <2>1 DEF Reclosing
<1>7. ASSUME NEW x \in Calls, Call(x) PROVE Goal
    <2>1. /\ \A y \in Calls : y # x => call'[y] = call[y]
          /\ call'[x].phase \in {"waiting", "sent", "done"}
          /\ UNCHANGED <<raced, overtaken>>
        BY <1>7, ConnectsKeeps, StartedKeeps DEF Call
    <2>2. UNCHANGED <<client, cache>>
        BY <1>7 DEF Call, Starts
    <2> QED
        BY <1>2, <2>1, <2>2 DEF Reclosing
<1>8. ASSUME NEW x \in Calls, Expires(x) PROVE Goal
    <2>1. /\ \A y \in Calls : y # x => call'[y] = call[y]
          /\ cache' = 0
        BY <1>8, ConnectsKeeps, ExpiredKeeps DEF Expires
    <2>2. Reclosing(x)' => call'[x].at # 0
        BY <1>8, ConnectsKeeps, ExpiredKeeps DEF Reclosing
    <2> QED
        BY <1>0, <1>3, <2>1, <2>2 DEF Reclosing
<1>9. ASSUME NEW x \in Calls, Reconnects(x) PROVE Goal
    <2>1. /\ \A y \in Calls : y # x => call'[y] = call[y]
          /\ call'[x].phase = "rewaiting" /\ Reclosing(x)
        BY <1>9, ConnectsKeeps DEF Reconnects, Reclosing
    <2>2. /\ UNCHANGED <<cache, overtaken>> /\ (~raced' => ~raced)
          /\ ~raced' => client \in {0, call[x].at}
        BY <1>9 DEF Reconnects, Drop
    <2>3. ~raced' => cache = 0
        BY <1>1, <2>1, <2>2
    <2> QED
        BY <1>2, <2>1, <2>2, <2>3 DEF Reclosing
<1>10. ASSUME NEW c \in Conns, Ready(c) PROVE Goal
    <2>1. \A x \in Calls : Reclosing(x)' => Reclosing(x) /\ call'[x].at = call[x].at
        BY <1>10, ReadyKeeps DEF Reclosing
    <2>2. UNCHANGED <<cache, raced, overtaken>>
        BY <1>10 DEF Ready
    <2>3. ~raced' => cache = 0
        <3>1. ~raced => client = 0
            BY <1>10, PromisedIsAlive DEF Ready
        <3> QED
            BY <1>1, <2>2, <3>1
    <2> QED
        BY <1>2, <2>1, <2>2, <2>3
<1>11. ASSUME NEW c \in Conns, HandshakeFails(c) PROVE Goal
    <2>1. \A x \in Calls : Reclosing(x)' => Reclosing(x) /\ call'[x].at = call[x].at
        BY <1>11, FailureKeeps DEF Reclosing
    <2> QED
        BY <1>2, <1>11, <2>1 DEF HandshakeFails
<1>12. ASSUME NEW c \in Conns, ConnClosed(c) \/ Drops(c) \/ LateEnds(c) PROVE Goal
    BY <1>2, <1>12 DEF ConnClosed, Drops, LateEnds, Reclosing
<1>13. CASE Close \/ Closed \/ UNCHANGED vars
    <2>1. CASE call' = call /\ cache' = 0
        BY <1>0, <1>3, <2>1 DEF Reclosing
    <2>2. CASE UNCHANGED <<fields, call, history>>
        <3>1. UNCHANGED <<client, cache, call, raced, overtaken>>
            BY <2>2
        <3> QED
            BY <1>2, <3>1 DEF Reclosing
    <2> QED
        BY <1>13, <2>1, <2>2 DEF Close, Closed, Forget
<1> QED
    BY <1>4, <1>5, <1>6, <1>7, <1>8, <1>9, <1>10, <1>11, <1>12, <1>13
    DEF Next, CallSteps, ConnSteps

-----------------------------------------------------------------------------
(* A client that nobody uses *)

Untouched == ~touched => (\A x \in Calls : ~UnderWay(x)) /\ (~raced => Alive = {})

LEMMA StepUntouched == TypeOK /\ Placed /\ Agreed /\ Untouched /\ [Next]_vars => Untouched'
<1> SUFFICES ASSUME TypeOK, Placed, Agreed, Untouched, [Next]_vars, ~touched'
             PROVE  (\A x \in Calls : ~UnderWay(x)') /\ (~raced' => Alive' = {})
    BY DEF Untouched
<1> DEFINE Goal == (\A x \in Calls : ~UnderWay(x)') /\ (~raced' => Alive' = {})
<1>1. ASSUME ~touched PROVE (\A x \in Calls : ~UnderWay(x)) /\ (~raced => Alive = {})
    BY <1>1 DEF Untouched
<1>2. ASSUME ~touched, \A x \in Calls : UnderWay(x)' => UnderWay(x), Alive' \subseteq Alive,
             ~raced' => ~raced
      PROVE  Goal
    BY <1>1, <1>2
<1> HIDE DEF Goal
<1> SUFFICES Goal
    BY DEF Goal
<1>3. conn' = Closing => Alive' \subseteq Alive
    BY ClosingKeeps DEF Alive
<1> USE DEF vars, fields, profile, closeVars, history, Phases
<1>4. ASSUME NEW x \in Calls, CallSteps(x) PROVE Goal
    <2>1. CASE Call(x)
        BY <2>1 DEF Call
    <2>2. CASE CachedList(x)
        <3>1. /\ \A y \in Calls : y # x => call'[y] = call[y]
              /\ call'[x].phase = "done"
            BY <2>2, SettlesKeeps DEF CachedList
        <3> QED
            BY <1>2, <2>2, <3>1 DEF CachedList, UnderWay, Alive
    <2>3. CASE UnderWay(x) /\ ~Call(x) /\ ~CachedList(x)
        <3>1. touched' = touched
            BY <1>4, <2>3 DEF CallSteps, Answered, Fails, TimesOut, Expires, Reconnects
        <3> QED
            BY <1>1, <2>3, <3>1
    <2> QED
        BY <1>4, <2>1, <2>2, <2>3
        DEF CallSteps, UnderWay, Answered, Fails, TimesOut, Expires, Reconnects, Pending
<1>5. ASSUME NEW c \in Conns, Ready(c) \/ HandshakeFails(c) PROVE Goal
    <2>1. ~touched /\ c \in Alive /\ (~raced' => ~raced)
        <3>1. c \in Alive
            BY <1>5 DEF Ready, HandshakeFails, Alive
        <3>2. touched' = touched
            BY <1>5 DEF Ready, HandshakeFails
        <3>3. ~raced' => ~raced
            BY <1>5 DEF Ready, HandshakeFails
        <3> QED
            BY <3>1, <3>2, <3>3
    <2>2. \A x \in Calls : UnderWay(x)' => UnderWay(x)
        BY <1>5, ReadyKeeps, FailureKeeps DEF UnderWay, Waits
    <2> QED
        BY <1>1, <2>1, <2>2 DEF Goal
<1>6. ASSUME NEW c \in Conns, ConnClosed(c) \/ Drops(c) \/ LateEnds(c) PROVE Goal
    <2>1. Alive' \subseteq Alive /\ UNCHANGED <<touched, call, raced>>
        BY <1>6 DEF ConnClosed, Drops, LateEnds, Alive, TypeOK
    <2> QED
        BY <1>2, <2>1 DEF UnderWay
<1>7. ASSUME NEW closed, Forget(closed), closed \notin Alive, Alive' = Alive PROVE Goal
    <2>1. ~raced' => Alive = {}
        BY <1>7, DropEmpties DEF Forget
    <2>2. \A x \in Calls : ~UnderWay(x)'
        BY <1>7 DEF Forget, UnderWay
    <2> QED
        BY <1>7, <2>1, <2>2 DEF Goal
<1>8. CASE Close
    <2>1. CASE ToClose = 0 /\ Forget(client)
        <3>1. client \notin Alive
            BY <2>1, McpAssumption DEF ToClose, Alive, Placed, Numbered, Met, Conns
        <3>2. Alive' = Alive
            BY <1>8, <2>1 DEF Close, Closing, Alive
        <3> QED
            BY <1>7, <2>1, <3>1, <3>2
    <2>2. CASE UNCHANGED <<fields, profile, opened, call, history, touched>>
        <3>1. UNCHANGED <<call, raced, touched>> /\ Alive' \subseteq Alive
            BY <1>3, <1>8, <2>2 DEF Close
        <3> QED
            BY <1>2, <3>1 DEF UnderWay
    <2> QED
        BY <1>8, <2>1, <2>2 DEF Close
<1>9. CASE Closed
    <2>1. closer \notin Alive /\ Alive' = Alive /\ Forget(closer)
        BY <1>9 DEF Closed, Alive
    <2> QED
        BY <1>7, <2>1
<1>10. CASE UNCHANGED vars
    <2>1. UNCHANGED <<call, raced, touched>> /\ Alive' = Alive
        BY <1>10 DEF Alive
    <2> QED
        BY <1>2, <2>1 DEF UnderWay
<1> QED
    BY <1>4, <1>5, <1>6, <1>8, <1>9, <1>10 DEF Next, ConnSteps

-----------------------------------------------------------------------------
(* The invariant, and what follows *)

IInv ==
    /\ TypeOK /\ Placed /\ Single /\ ConnectedMeansClient /\ Agreed
    /\ Calm /\ TimedOutIsDropped /\ ListHeld /\ Untouched

LEMMA InitInv == Init => IInv
<1> SUFFICES ASSUME Init PROVE IInv
    OBVIOUS
<1>1. TimedOutIsDropped
    BY InitIdle DEF TimedOutIsDropped
<1>2. ListHeld
    BY InitIdle DEF Init, ListHeld, Reclosing
<1>3. Untouched
    BY DEF Init, Untouched
<1> QED
    BY <1>1, <1>2, <1>3, InitType, InitPlaced, InitSingle, InitClient, InitAgreed, InitCalm
    DEF IInv

LEMMA StepInv == IInv /\ [Next]_vars => IInv'
BY StepType, StepPlaced, StepSingle, StepClient, StepAgreed, StepCalm, StepTimedOut, StepListHeld,
   StepUntouched
DEF IInv

LEMMA InvHolds == Spec => []IInv
BY InitInv, StepInv, PTL DEF Spec

\* Callers find a client, one call reconnects at a time, and there is one connection with its
\* profile directory, as long as no timeout and no close() made somebody drop another.
THEOREM ConnectionsAgreeHolds == Spec => []ConnectionsAgree
<1>1. ASSUME IInv PROVE ConnectionsAgree
    <2>1. ConnectedMeansClient /\ OneReconnect
        BY <1>1, SingleIsOne DEF IInv
    <2>2. OneConnection /\ ProfilesAreKept
        BY <1>1 DEF IInv, Agreed, OneConnection, ProfilesAreKept
    <2>3. RacesNeedTimeouts
        BY <1>1, McpAssumption DEF IInv, TypeOK, Calm, TimedOut, RacesNeedTimeouts
    <2> QED
        BY <2>1, <2>2, <2>3 DEF ConnectionsAgree
<1> QED
    BY <1>1, InvHolds, PTL

\* After a timeout nobody gets the connection that timed out, and the list of tools that is
\* kept is of the connection in use.
THEOREM OldConnectionsHold == Spec => []OldConnectionsAreUnused
<1>1. IInv => OldConnectionsAreUnused
    BY DEF IInv, ListHeld, OldConnectionsAreUnused, CachedListIsCurrent
<1> QED
    BY <1>1, InvHolds, PTL

\* A client that was closed stays without a connection until somebody calls.
THEOREM ClosedStaysClosedHolds == Spec => []ClosedStaysClosed
<1>1. IInv => ClosedStaysClosed
    BY DEF IInv, Untouched, ClosedStaysClosed
<1> QED
    BY <1>1, InvHolds, PTL

-----------------------------------------------------------------------------
(* RuntimeReload: types *)

USE DEF MaybeTurn, TurnStates, configVars, routerVars, mcpVars, turnVars, sessionVars

LEMMA VersionFacts == Versions \subseteq Nat \ {0} /\ 1 \in Versions
  BY BoundsAssumption DEF Versions

\* Every variable keeps its type: no step of the reload machinery stores a
\* configuration, a session or an McpRuntime that does not exist.
THEOREM ReloadTypeCorrect == ReloadSpec => []ReloadTypeOK
<1>1. ReloadInit => ReloadTypeOK
  BY KeyOfAssumption, VersionFacts DEF ReloadInit, ReloadTypeOK
<1>2. ReloadTypeOK /\ [ReloadNext]_reloadVars => ReloadTypeOK'
  <2> SUFFICES ASSUME ReloadTypeOK, [ReloadNext]_reloadVars PROVE ReloadTypeOK'
    OBVIOUS
  <2> USE KeyOfAssumption, NoTurnAssumption, BoundsAssumption
  <2>1. ASSUME NEW ok \in BOOLEAN, Edit(ok) PROVE ReloadTypeOK'
    BY <2>1 DEF Edit, ReloadTypeOK, Versions, Cached
  <2>2. CASE WatchReload
    BY <2>2 DEF WatchReload, Loads, Publish, Stop, InUse, ReloadTypeOK, Versions, Cached
  <2>3. CASE ListSessions
    BY <2>3 DEF ListSessions, Resolved, Resolvable, ReloadTypeOK, Versions, Cached
  <2>4. CASE OtherProjectChanges
    BY <2>4 DEF OtherProjectChanges, Stop, ReloadTypeOK, Versions, Cached
  <2>5. ASSUME NEW t \in Turns, Submit(t) PROVE ReloadTypeOK'
    BY <2>5 DEF Submit, Loads, Publish, Stop, InUse, ReloadTypeOK, Versions, Cached
  <2>6. ASSUME NEW t \in Turns, UseCached(t) PROVE ReloadTypeOK'
    BY <2>6 DEF UseCached, ReloadTypeOK, Versions, Cached
  <2>7. ASSUME NEW t \in Turns, BeginOpen(t) PROVE ReloadTypeOK'
    BY <2>7 DEF BeginOpen, Stop, InUse, Resolved, Resolvable, ReloadTypeOK, Versions, Cached
  <2>8. ASSUME NEW t \in Turns, Attach(t) PROVE ReloadTypeOK'
    BY <2>8 DEF Attach, ReloadTypeOK, Versions, Cached
  <2>9. ASSUME NEW t \in Turns, Opened(t) PROVE ReloadTypeOK'
    BY <2>9 DEF Opened, ReloadTypeOK, Versions, Cached
  <2>10. ASSUME NEW t \in Turns, OpenFails(t) PROVE ReloadTypeOK'
    BY <2>10 DEF OpenFails, Over, Resolved, Resolvable, ReloadTypeOK, Versions, Cached
  <2>11. ASSUME NEW t \in Turns, EndTurn(t) PROVE ReloadTypeOK'
    BY <2>11 DEF EndTurn, Over, Resolved, Resolvable, ReloadTypeOK, Versions, Cached
  <2>12. ASSUME NEW t \in Turns, Revives(t) PROVE ReloadTypeOK'
    BY <2>12 DEF Revives, ReloadTypeOK, Versions, Cached
  <2>13. ASSUME NEW k \in Keys, Evict(k) PROVE ReloadTypeOK'
    BY <2>13 DEF Evict, Stop, InUse, ReloadTypeOK, Versions, Cached
  <2>14. CASE UNCHANGED reloadVars
    BY <2>14 DEF ReloadTypeOK, Versions, Cached, reloadVars
  <2> QED
    BY <2>1, <2>2, <2>3, <2>4, <2>5, <2>6, <2>7, <2>8, <2>9, <2>10, <2>11, <2>12, <2>13, <2>14
       DEF ReloadNext, Step
<1> QED
  BY <1>1, <1>2, PTL DEF ReloadSpec

-----------------------------------------------------------------------------
(* How new everything is *)

\* The snapshot lies between what the turns saw and what is on disk; a runtime that is
\* cached is as new as the snapshot, for publishing drops it.
Ordered ==
    /\ snapshot <= disk
    /\ runtime # 0 => runtime >= snapshot
    /\ \A t \in Turns : seen[t] <= snapshot

\* A turn works with a finished session, so what the session was built from is settled.
Settled ==
    /\ \A k \in Cached : turn[record[k]] \in {"running", "over"}
    /\ \A t \in Turns : turn[t] = "running" => turn[session[t]] \in {"running", "over"}

\* A session under construction is as new as the snapshot or has been crossed.
OpensCurrent == \A t \in Turns : Opening(t) => t \in crossed \/ built[t] >= snapshot

Fresh == Ordered /\ Settled /\ OpensCurrent /\ UnmarkedIsCurrent /\ TurnsRunFresh

LEMMA FreshInvariant == ReloadSpec => []Fresh
<1>1. ReloadInit => Fresh
  BY NoTurnAssumption DEF ReloadInit, Fresh, Ordered, Settled, OpensCurrent, UnmarkedIsCurrent,
     TurnsRunFresh, Cached, Opening
<1>2. ReloadTypeOK /\ ReloadTypeOK' /\ Fresh /\ [ReloadNext]_reloadVars => Fresh'
  <2> SUFFICES ASSUME ReloadTypeOK, ReloadTypeOK', Fresh, [ReloadNext]_reloadVars PROVE Fresh'
    OBVIOUS
  <2> USE KeyOfAssumption, NoTurnAssumption, VersionFacts
  <2>1. ASSUME NEW ok \in BOOLEAN, Edit(ok) PROVE Fresh'
    BY <2>1 DEF Edit, ReloadTypeOK, Fresh, Ordered, Settled, OpensCurrent,
       UnmarkedIsCurrent, TurnsRunFresh, Cached, Opening
  <2>2. CASE WatchReload
    BY <2>2 DEF WatchReload, Loads, Publish, Stop, ReloadTypeOK, Fresh, Ordered, Settled, OpensCurrent,
       UnmarkedIsCurrent, TurnsRunFresh, Cached, Opening
  <2>3. CASE ListSessions
    BY <2>3 DEF ListSessions, Resolved, Resolvable, ReloadTypeOK, Fresh, Ordered, Settled, OpensCurrent,
       UnmarkedIsCurrent, TurnsRunFresh, Cached, Opening
  <2>4. CASE OtherProjectChanges
    BY <2>4 DEF OtherProjectChanges, Stop, ReloadTypeOK, Fresh, Ordered, Settled, OpensCurrent,
       UnmarkedIsCurrent, TurnsRunFresh, Cached, Opening
  <2>5. ASSUME NEW t \in Turns, Submit(t) PROVE Fresh'
    BY <2>5 DEF Submit, Loads, Publish, Stop, ReloadTypeOK, Fresh, Ordered, Settled, OpensCurrent,
       UnmarkedIsCurrent, TurnsRunFresh, Cached, Opening
  <2>6. ASSUME NEW t \in Turns, UseCached(t) PROVE Fresh'
    <3>1. KeyOf[t] \in Cached \ dirty /\ turn[t] = "begun"
      BY <2>6 DEF UseCached
    <3>2. record[KeyOf[t]] \in Turns /\ turn[record[KeyOf[t]]] \in {"running", "over"}
      BY <3>1 DEF Fresh, Settled, Cached, ReloadTypeOK
    <3>3. UNCHANGED <<disk, snapshot, runtime, record, dirty, seen, built, crossed>>
      BY <2>6 DEF UseCached
    <3>4. turn' = [turn EXCEPT ![t] = "running"] /\ session' = [session EXCEPT ![t] =
       record[KeyOf[t]]]
      BY <2>6 DEF UseCached
    <3>5. turn'[t] = "running" /\ session'[t] = record[KeyOf[t]]
      BY <3>4 DEF ReloadTypeOK
    <3>6. \A u \in Turns : u # t => turn'[u] = turn[u] /\ session'[u] = session[u]
      BY <3>4 DEF ReloadTypeOK
    <3>7. record[KeyOf[t]] \in crossed \/ built[record[KeyOf[t]]] >= snapshot
      BY <3>1 DEF Fresh, UnmarkedIsCurrent
    <3>8. built[record[KeyOf[t]]] >= snapshot => built[record[KeyOf[t]]] >= seen[t]
      <4>1. built[record[KeyOf[t]]] \in Nat /\ snapshot \in Nat /\ seen[t] \in Nat
        BY <3>2 DEF ReloadTypeOK
      <4>2. seen[t] <= snapshot
        BY DEF Fresh, Ordered
      <4> QED
        BY <4>1, <4>2
    <3>9. Ordered'
      BY <3>3 DEF Fresh, Ordered
    <3>10. Settled'
      BY <3>1, <3>2, <3>3, <3>5, <3>6 DEF Fresh, Settled, Cached, ReloadTypeOK
    <3>11. OpensCurrent'
      BY <3>3, <3>5, <3>6 DEF Fresh, OpensCurrent, Opening
    <3>12. UnmarkedIsCurrent'
      BY <3>3 DEF Fresh, UnmarkedIsCurrent, Cached
    <3>13. TurnsRunFresh'
      BY <3>3, <3>5, <3>6, <3>7, <3>8 DEF Fresh, TurnsRunFresh
    <3> QED
      BY <3>9, <3>10, <3>11, <3>12, <3>13 DEF Fresh
  <2>7. ASSUME NEW t \in Turns, BeginOpen(t) PROVE Fresh'
    BY <2>7 DEF BeginOpen, Stop, Resolved, Resolvable, ReloadTypeOK, Fresh, Ordered, Settled,
       OpensCurrent,
       UnmarkedIsCurrent, TurnsRunFresh, Cached, Opening
  <2>8. ASSUME NEW t \in Turns, Attach(t) PROVE Fresh'
    BY <2>8 DEF Attach, ReloadTypeOK, Fresh, Ordered, Settled, OpensCurrent,
       UnmarkedIsCurrent, TurnsRunFresh, Cached, Opening
  <2>9. ASSUME NEW t \in Turns, Opened(t) PROVE Fresh'
    <3>1. Opening(t)
      BY <2>9 DEF Opened, Opening
    <3>2. t \in crossed \/ built[t] >= snapshot
      BY <3>1 DEF Fresh, OpensCurrent
    <3>3. UNCHANGED <<disk, snapshot, runtime, seen, built, crossed>>
      BY <2>9 DEF Opened
    <3>4. turn'[t] = "running" /\ session'[t] = t
      BY <2>9 DEF Opened, ReloadTypeOK
    <3>5. \A u \in Turns : u # t => turn'[u] = turn[u] /\ session'[u] = session[u]
      BY <2>9 DEF Opened, ReloadTypeOK
    <3>6. dirty' = dirty \ {KeyOf[t]} /\ KeyOf[t] \in Keys
      BY <2>9 DEF Opened
    <3>7. \/ record' = record /\ KeyOf[t] \notin Cached
          \/ record' = [record EXCEPT ![KeyOf[t]] = t]
      BY <2>9 DEF Opened
    <3>8. \A k \in Keys : k # KeyOf[t] => record'[k] = record[k]
      BY <3>7 DEF ReloadTypeOK
    <3>9. KeyOf[t] \in Cached' => record'[KeyOf[t]] = t
      BY <3>6, <3>7 DEF Cached, ReloadTypeOK
    <3>10. \A k \in Cached' : \/ record'[k] = record[k] /\ k \in Cached
                              \/ record'[k] = t /\ k = KeyOf[t]
      BY <3>8, <3>9 DEF Cached
    <3>11. ASSUME NEW k \in Keys, k \in Cached', k \notin dirty', record'[k] # t
           PROVE record'[k] = record[k] /\ k \in Cached \ dirty
      <4>1. CASE k = KeyOf[t]
        BY <3>9, <3>11, <4>1
      <4>2. CASE k # KeyOf[t]
        <5>1. k \notin dirty
          BY <3>6, <3>11, <4>2
        <5> QED
          BY <3>8, <3>11, <4>2, <5>1 DEF Cached
      <4> QED
        BY <4>1, <4>2
    <3>12. built[t] >= snapshot => built[t] >= seen[t]
      <4>1. built[t] \in Nat /\ snapshot \in Nat /\ seen[t] \in Nat
        BY DEF ReloadTypeOK
      <4>2. seen[t] <= snapshot
        BY DEF Fresh, Ordered
      <4> QED
        BY <4>1, <4>2
    <3>13. Ordered'
      BY <3>3 DEF Fresh, Ordered
    <3>14. Settled'
      <4>1. \A k \in Cached' : turn'[record'[k]] \in {"running", "over"}
        BY <3>4, <3>5, <3>10 DEF Fresh, Settled, Cached, ReloadTypeOK
      <4>2. \A u \in Turns : turn'[u] = "running" => turn'[session'[u]] \in {"running", "over"}
        BY <3>4, <3>5 DEF Fresh, Settled, ReloadTypeOK
      <4> QED
        BY <4>1, <4>2 DEF Settled
    <3>15. OpensCurrent'
      BY <3>3, <3>4, <3>5 DEF Fresh, OpensCurrent, Opening
    <3>16. UnmarkedIsCurrent'
      <4> SUFFICES ASSUME NEW k \in Cached', k \notin dirty'
                   PROVE record'[k] \in crossed' \/ built'[record'[k]] >= snapshot'
        BY DEF UnmarkedIsCurrent
      <4>1. CASE record'[k] = t
        BY <3>2, <3>3, <4>1
      <4>2. CASE record'[k] # t
        <5>1. k \in Keys
          BY DEF Cached
        <5>2. record'[k] = record[k] /\ k \in Cached \ dirty
          BY <3>11, <4>2, <5>1
        <5> QED
          BY <3>3, <5>2 DEF Fresh, UnmarkedIsCurrent
      <4> QED
        BY <4>1, <4>2
    <3>17. TurnsRunFresh'
      BY <3>2, <3>3, <3>4, <3>5, <3>12 DEF Fresh, TurnsRunFresh
    <3> QED
      BY <3>13, <3>14, <3>15, <3>16, <3>17 DEF Fresh
  <2>10. ASSUME NEW t \in Turns, OpenFails(t) PROVE Fresh'
    BY <2>10 DEF OpenFails, Over, Resolved, Resolvable, ReloadTypeOK, Fresh, Ordered, Settled,
       OpensCurrent,
       UnmarkedIsCurrent, TurnsRunFresh, Cached, Opening
  <2>11. ASSUME NEW t \in Turns, EndTurn(t) PROVE Fresh'
    BY <2>11 DEF EndTurn, Over, Resolved, Resolvable, ReloadTypeOK, Fresh, Ordered, Settled, OpensCurrent,
       UnmarkedIsCurrent, TurnsRunFresh, Cached, Opening
  <2>12. ASSUME NEW t \in Turns, Revives(t) PROVE Fresh'
    BY <2>12 DEF Revives, ReloadTypeOK, Fresh, Ordered, Settled, OpensCurrent,
       UnmarkedIsCurrent, TurnsRunFresh, Cached, Opening
  <2>13. ASSUME NEW k \in Keys, Evict(k) PROVE Fresh'
    BY <2>13 DEF Evict, Stop, ReloadTypeOK, Fresh, Ordered, Settled, OpensCurrent,
       UnmarkedIsCurrent, TurnsRunFresh, Cached, Opening
  <2>14. CASE UNCHANGED reloadVars
    BY <2>14 DEF ReloadTypeOK, Fresh, Ordered, Settled, OpensCurrent,
       UnmarkedIsCurrent, TurnsRunFresh, Cached, Opening, reloadVars
  <2> QED
    BY <2>1, <2>2, <2>3, <2>4, <2>5, <2>6, <2>7, <2>8, <2>9, <2>10, <2>11, <2>12, <2>13, <2>14
       DEF ReloadNext, Step
<1> QED
  BY <1>1, <1>2, ReloadTypeCorrect, PTL DEF ReloadSpec

\* A cached session that carries no mark is as new as the published snapshot, and a turn
\* runs in a session at least as new as the snapshot its refreshConfigBeforeTurn left, unless
\* a change was published while the session was being built.
THEOREM ChangesArrive == ReloadSpec => []ChangesReachSessions
<1>1. Fresh => ChangesReachSessions
  BY DEF Fresh, ChangesReachSessions
<1> QED
  BY <1>1, FreshInvariant, PTL

-----------------------------------------------------------------------------
(* The limit on private McpRuntimes *)

LEMMA SlotsFinite == IsFiniteSet(Slots) /\ Cardinality(Slots) \in Nat
  BY KeysAssumption, FS_Subset, FS_CardinalityType DEF Slots

SlotsWithinLimit == Cardinality(Slots) <= MaxMcp

LEMMA FewerSlots == ASSUME SlotsWithinLimit, Slots' \subseteq Slots PROVE SlotsWithinLimit'
<1>1. IsFiniteSet(Slots') /\ Cardinality(Slots') <= Cardinality(Slots)
  BY SlotsFinite, FS_Subset
<1> QED
  BY <1>1, SlotsFinite, FS_CardinalityType, BoundsAssumption DEF SlotsWithinLimit

LEMMA OnlyAttachAdds ==
  ASSUME ReloadTypeOK, [ReloadNext]_reloadVars, ~\E t \in Turns : Attach(t) PROVE Slots' \subseteq Slots
<1> USE DEF Slots
<1>1. ASSUME NEW ok \in BOOLEAN, Edit(ok) PROVE Slots' \subseteq Slots
  BY <1>1 DEF Edit
<1>2. CASE WatchReload
  BY <1>2 DEF WatchReload, Loads, Publish, Stop
<1>3. CASE ListSessions
  BY <1>3 DEF ListSessions, Resolved, Resolvable
<1>4. CASE OtherProjectChanges
  BY <1>4 DEF OtherProjectChanges, Stop
<1>5. ASSUME NEW t \in Turns, Submit(t) PROVE Slots' \subseteq Slots
  BY <1>5 DEF Submit, Loads, Publish, Stop
<1>6. ASSUME NEW t \in Turns, UseCached(t) PROVE Slots' \subseteq Slots
  BY <1>6 DEF UseCached
<1>7. ASSUME NEW t \in Turns, BeginOpen(t) PROVE Slots' \subseteq Slots
  BY <1>7 DEF BeginOpen, Stop, Resolved, Resolvable
<1>9. ASSUME NEW t \in Turns, Opened(t) PROVE Slots' \subseteq Slots
  BY <1>9 DEF Opened
<1>10. ASSUME NEW t \in Turns, OpenFails(t) PROVE Slots' \subseteq Slots
  BY <1>10 DEF OpenFails, Over, Resolved, Resolvable
<1>11. ASSUME NEW t \in Turns, EndTurn(t) PROVE Slots' \subseteq Slots
  BY <1>11 DEF EndTurn, Over, Resolved, Resolvable
<1>12. ASSUME NEW t \in Turns, Revives(t) PROVE Slots' \subseteq Slots
  BY <1>12 DEF Revives
<1>13. ASSUME NEW k \in Keys, Evict(k) PROVE Slots' \subseteq Slots
  BY <1>13 DEF Evict, Stop
<1>14. CASE UNCHANGED reloadVars
  BY <1>14 DEF reloadVars
<1> QED
  BY <1>1, <1>2, <1>3, <1>4, <1>5, <1>6, <1>7, <1>9, <1>10, <1>11, <1>12, <1>13, <1>14 DEF ReloadNext,
     Step

\* No turn registers more than MaxMcp of them.
LEMMA SlotsHold == ReloadSpec => []SlotsWithinLimit
<1>1. ReloadInit => SlotsWithinLimit
  <2> SUFFICES ASSUME ReloadInit PROVE SlotsWithinLimit
    OBVIOUS
  <2>1. Slots = {}
    BY DEF ReloadInit, Slots
  <2> QED
    BY <2>1, FS_EmptySet, BoundsAssumption DEF SlotsWithinLimit
<1>2. ReloadTypeOK /\ SlotsWithinLimit /\ [ReloadNext]_reloadVars => SlotsWithinLimit'
  <2> SUFFICES ASSUME ReloadTypeOK, SlotsWithinLimit, [ReloadNext]_reloadVars PROVE SlotsWithinLimit'
    OBVIOUS
  <2>1. ASSUME NEW t \in Turns, Attach(t), WithinLimit PROVE SlotsWithinLimit'
    <3>1. Slots' \subseteq Slots \cup {KeyOf[t]}
      BY <2>1 DEF Attach, Slots, ReloadTypeOK
    <3>2. /\ IsFiniteSet(Slots \cup {KeyOf[t]})
          /\ Cardinality(Slots \cup {KeyOf[t]}) <= Cardinality(Slots) + 1
      BY SlotsFinite, FS_AddElement
    <3>3. IsFiniteSet(Slots') /\ Cardinality(Slots') <= Cardinality(Slots \cup {KeyOf[t]})
      BY <3>1, <3>2, FS_Subset
    <3>4. Cardinality(Slots) < MaxMcp
      BY <2>1 DEF WithinLimit
    <3> QED
      BY <3>2, <3>3, <3>4, SlotsFinite, FS_CardinalityType, BoundsAssumption DEF SlotsWithinLimit
  <2>2. ASSUME NEW t \in Turns, Attach(t), ~WithinLimit PROVE mcp' = mcp
    BY <2>2 DEF Attach, mcpVars
  <2>3. CASE \E t \in Turns : Attach(t) /\ ~WithinLimit
    BY <2>2, <2>3, FewerSlots DEF Slots
  <2>4. CASE ~\E t \in Turns : Attach(t)
    BY <2>4, OnlyAttachAdds, FewerSlots
  <2> QED
    BY <2>1, <2>3, <2>4
<1> QED
  BY <1>1, <1>2, ReloadTypeCorrect, PTL DEF ReloadSpec

\* What is registered and cached under a key belongs to it, and a turn runs in a session
\* of its own key.
KeysFit ==
    /\ \A k \in Slots : KeyOf[mcp[k]] = k
    /\ \A k \in Cached : KeyOf[record[k]] = k
    /\ \A t \in Turns : turn[t] = "running" => KeyOf[session[t]] = KeyOf[t]

OneAtATime == \A t, u \in Turns : InFlight(t) /\ InFlight(u) /\ KeyOf[t] = KeyOf[u] => t = u

\* A session is built only for a key that has none, or a marked one.
OpensForNeed == \A t \in Turns : Opening(t) => KeyOf[t] \notin Cached \ dirty

GivenAfterOpening == \A t \in private : turn[t] \in {"attached", "running", "over"}

\* Nobody works with the session u or builds it, and no turn will find it.
Idle(u) ==
    /\ u \notin InUse
    /\ \A k \in Cached \ dirty : record[k] # u

\* A private McpRuntime that was stopped for good has nobody left to start it again ...
GoneAreIdle == \A u \in private \ (live \cup pulled) : Idle(u)

\* ... so that one with processes which was never pulled is still the one registered.
LiveAreRegistered == \A u \in live \ pulled : mcp[KeyOf[u]] = u

Counted ==
    /\ KeysFit /\ OneAtATime /\ OpensForNeed /\ GivenAfterOpening
    /\ GoneAreIdle /\ LiveAreRegistered

\* Stop leaves nothing behind that is neither pulled nor idle.
LEMMA StopCounts ==
  ASSUME ReloadTypeOK, Counted, NEW E \in SUBSET Keys, NEW U \in SUBSET Turns, Stop(E, U),
         UNCHANGED private,
         \A k \in E, u \in Turns \ U : u = mcp[k] => Idle(u)',
         \A u \in Turns : Idle(u) => Idle(u)'
  PROVE  GoneAreIdle' /\ LiveAreRegistered' /\ (\A k \in Slots' : KeyOf[mcp'[k]] = k)
<1> USE KeyOfAssumption, NoTurnAssumption
<1>1. /\ \A k \in Keys : mcp'[k] = IF k \in E THEN NoTurn ELSE mcp[k]
      /\ live' = live \ {mcp[k] : k \in E}
      /\ pulled' = pulled \cup (U \cap {mcp[k] : k \in E})
  BY DEF Stop
<1>2. GoneAreIdle'
  <2> SUFFICES ASSUME NEW u \in private, u \notin live' \cup pulled' PROVE Idle(u)'
    BY DEF GoneAreIdle
  <2>1. u \in Turns
    BY DEF ReloadTypeOK
  <2>2. CASE u \in live
    <3>1. PICK k \in E : u = mcp[k]
      BY <1>1, <2>2
    <3>2. u \in Turns \ U
      BY <1>1, <2>1, <3>1
    <3> QED
      BY <3>1, <3>2
  <2>3. CASE u \notin live
    BY <1>1, <2>1, <2>3 DEF Counted, GoneAreIdle
  <2> QED
    BY <2>2, <2>3
<1>3. LiveAreRegistered'
  <2> SUFFICES ASSUME NEW u \in live', u \notin pulled' PROVE mcp'[KeyOf[u]] = u
    BY DEF LiveAreRegistered
  <2>1. u \in live \ pulled /\ u \in Turns /\ KeyOf[u] \in Keys
    BY <1>1 DEF ReloadTypeOK
  <2>2. mcp[KeyOf[u]] = u
    BY <2>1 DEF Counted, LiveAreRegistered
  <2> QED
    BY <1>1, <2>1, <2>2
<1>4. \A k \in Slots' : KeyOf[mcp'[k]] = k
  BY <1>1 DEF Counted, KeysFit, Slots
<1> QED
  BY <1>2, <1>3, <1>4


\* Publishing and closing leave no clean record of what they stop.
LEMMA PublishIdles ==
  ASSUME ReloadTypeOK, Publish, UNCHANGED session,
         \A t \in Turns : turn'[t] \in {"attached", "running"} => turn'[t] = turn[t]
  PROVE  \A u \in Turns : (u \notin InUse => Idle(u)') /\ (Idle(u) => Idle(u)')
<1>1. Cached' \ dirty' = {}
  BY DEF Publish, Cached
<1> QED
  BY <1>1 DEF Idle, InUse, UsedBy

\* Each step keeps the count, one conjunct at a time.
LEMMA CountedInvariant == ReloadSpec => []Counted
<1>1. ReloadInit => Counted
  BY NoTurnAssumption DEF ReloadInit, Counted, KeysFit, OneAtATime, OpensForNeed, GivenAfterOpening,
     GoneAreIdle, LiveAreRegistered, Slots, Cached, InFlight, Opening
<1>2. ReloadTypeOK /\ ReloadTypeOK' /\ Counted /\ [ReloadNext]_reloadVars => Counted'
  <2> SUFFICES ASSUME ReloadTypeOK, ReloadTypeOK', Counted, [ReloadNext]_reloadVars PROVE Counted'
    OBVIOUS
  <2> USE KeyOfAssumption, NoTurnAssumption
  <2>1. ASSUME UNCHANGED <<routerVars, mcpVars, turn, session, private>> PROVE Counted'
    BY <2>1 DEF routerVars, mcpVars, Counted, KeysFit, OneAtATime, OpensForNeed, GivenAfterOpening,
       GoneAreIdle, LiveAreRegistered, Idle, InUse, UsedBy, Slots, Cached, InFlight, Opening
  <2>2. CASE WatchReload
    <3>1. Publish /\ UNCHANGED <<turn, session, private>>
      BY <2>2 DEF WatchReload, turnVars
    <3>2. InUse \in SUBSET Turns /\ Keys \in SUBSET Keys
      BY DEF InUse
    <3>3. Stop(Keys, InUse)
      BY <3>1 DEF Publish
    <3>4. GoneAreIdle' /\ LiveAreRegistered' /\ (\A k \in Slots' : KeyOf[mcp'[k]] = k)
      BY <3>1, <3>2, <3>3, PublishIdles, StopCounts
    <3>5. KeysFit' /\ OneAtATime' /\ OpensForNeed' /\ GivenAfterOpening'
      BY <3>1, <3>4 DEF Publish, Counted, KeysFit, OneAtATime, OpensForNeed, GivenAfterOpening,
         Cached, InFlight, Opening
    <3> QED
      BY <3>4, <3>5 DEF Counted
  <2>3. CASE OtherProjectChanges
    <3>1. UNCHANGED <<record, dirty, turn, session, private>> /\ Stop(Keys, Turns)
      BY <2>3 DEF OtherProjectChanges, routerVars, turnVars, sessionVars
    <3>2. \A u \in Turns : Idle(u) => Idle(u)'
      BY <3>1 DEF Idle, InUse, UsedBy, Cached
    <3>3. GoneAreIdle' /\ LiveAreRegistered' /\ (\A k \in Slots' : KeyOf[mcp'[k]] = k)
      BY <3>1, <3>2, StopCounts
    <3>4. KeysFit' /\ OneAtATime' /\ OpensForNeed' /\ GivenAfterOpening'
      BY <3>1, <3>3 DEF Counted, KeysFit, OneAtATime, OpensForNeed, GivenAfterOpening,
         Cached, InFlight, Opening
    <3> QED
      BY <3>3, <3>4 DEF Counted
  <2>4. ASSUME NEW t \in Turns, Submit(t) PROVE Counted'
    <3>1. /\ turn[t] = "new" /\ turn' = [turn EXCEPT ![t] = IF Free(KeyOf[t]) THEN "begun" ELSE "over"]
          /\ UNCHANGED <<session, private>>
      BY <2>4 DEF Submit
    <3>2. turn'[t] \in {"begun", "over"} /\ \A u \in Turns : u # t => turn'[u] = turn[u]
      BY <3>1 DEF ReloadTypeOK
    <3>3. OneAtATime'
      BY <3>1, <3>2 DEF Counted, OneAtATime, InFlight, Free, ReloadTypeOK
    <3>4. GivenAfterOpening'
      BY <3>1, <3>2 DEF Counted, GivenAfterOpening, ReloadTypeOK
    <3>5. CASE Publish
      <4>1. Stop(Keys, InUse) /\ InUse \in SUBSET Turns
        BY <3>5 DEF Publish, InUse
      <4>2. GoneAreIdle' /\ LiveAreRegistered' /\ (\A k \in Slots' : KeyOf[mcp'[k]] = k)
        BY <3>1, <3>2, <3>5, <4>1, PublishIdles, StopCounts
      <4>3. KeysFit' /\ OpensForNeed'
        BY <3>1, <3>2, <3>5, <4>2 DEF Publish, Counted, KeysFit, OpensForNeed, Cached, Opening
      <4> QED
        BY <3>3, <3>4, <4>2, <4>3 DEF Counted
    <3>6. CASE UNCHANGED <<routerVars, mcpVars>>
      <4>1. \A u \in Turns : Idle(u)' <=> Idle(u)
        BY <3>1, <3>2, <3>6 DEF Idle, InUse, UsedBy, Cached, routerVars
      <4>2. GoneAreIdle' /\ LiveAreRegistered'
        BY <3>1, <3>6, <4>1 DEF Counted, GoneAreIdle, LiveAreRegistered, mcpVars, ReloadTypeOK
      <4>3. KeysFit' /\ OpensForNeed'
        BY <3>1, <3>2, <3>6 DEF Counted, KeysFit, OpensForNeed, Cached, Slots, Opening, routerVars, mcpVars
      <4> QED
        BY <3>3, <3>4, <4>2, <4>3 DEF Counted
    <3> QED
      BY <2>4, <3>5, <3>6 DEF Submit
  <2>5. ASSUME NEW t \in Turns, UseCached(t) PROVE Counted'
    <3>1. /\ turn[t] = "begun" /\ KeyOf[t] \in Cached \ dirty
          /\ turn' = [turn EXCEPT ![t] = "running"]
          /\ session' = [session EXCEPT ![t] = record[KeyOf[t]]]
          /\ UNCHANGED <<record, dirty, mcp, live, pulled, private>>
      BY <2>5 DEF UseCached, routerVars, mcpVars, sessionVars
    <3>2. /\ turn'[t] = "running" /\ session'[t] = record[KeyOf[t]]
          /\ \A u \in Turns : u # t => turn'[u] = turn[u] /\ session'[u] = session[u]
      BY <3>1 DEF ReloadTypeOK
    <3>3. \A u \in Turns : Idle(u) => Idle(u)'
      BY <3>1, <3>2 DEF Idle, InUse, UsedBy, Cached
    <3>4. GoneAreIdle' /\ LiveAreRegistered'
      BY <3>1, <3>3 DEF Counted, GoneAreIdle, LiveAreRegistered, ReloadTypeOK
    <3>5. KeysFit'
      BY <3>1, <3>2 DEF Counted, KeysFit, Cached, Slots
    <3>6. OneAtATime' /\ OpensForNeed' /\ GivenAfterOpening'
      BY <3>1, <3>2 DEF Counted, OneAtATime, OpensForNeed, GivenAfterOpening, Cached, InFlight, Opening
    <3> QED
      BY <3>4, <3>5, <3>6 DEF Counted
  <2>6. ASSUME NEW t \in Turns, BeginOpen(t) PROVE Counted'
    <3>1. /\ turn[t] = "begun" /\ KeyOf[t] \notin Cached \ dirty
          /\ \E q \in {"opening", "over"} : turn' = [turn EXCEPT ![t] = q]
          /\ UNCHANGED <<record, dirty, session, private>>
      BY <2>6 DEF BeginOpen, routerVars
    <3>2. turn'[t] \in {"opening", "over"} /\ \A u \in Turns : u # t => turn'[u] = turn[u]
      BY <3>1 DEF ReloadTypeOK
    <3>3. \A u \in Turns : Idle(u) => Idle(u)'
      BY <3>1, <3>2 DEF Idle, InUse, UsedBy, Cached
    <3>4. GoneAreIdle' /\ LiveAreRegistered' /\ (\A k \in Slots' : KeyOf[mcp'[k]] = k)
      <4>1. CASE UNCHANGED mcpVars
        BY <3>1, <3>3, <4>1
        DEF Counted, GoneAreIdle, LiveAreRegistered, KeysFit, Slots, mcpVars, ReloadTypeOK
      <4>2. CASE Stop({KeyOf[t]}, InUse)
        <5>1. {KeyOf[t]} \in SUBSET Keys /\ InUse \in SUBSET Turns
          BY DEF InUse
        <5>2. ASSUME NEW u \in Turns \ InUse, u = mcp[KeyOf[t]] PROVE Idle(u)
          BY <3>1, <5>2 DEF Counted, KeysFit, Slots, Idle
        <5> QED
          BY <3>1, <3>3, <4>2, <5>1, <5>2, StopCounts
      <4> QED
        BY <2>6, <4>1, <4>2 DEF BeginOpen
    <3>5. KeysFit'
      BY <3>1, <3>2, <3>4 DEF Counted, KeysFit, Cached
    <3>6. OneAtATime' /\ OpensForNeed' /\ GivenAfterOpening'
      BY <3>1, <3>2 DEF Counted, OneAtATime, OpensForNeed, GivenAfterOpening, Cached, InFlight, Opening
    <3> QED
      BY <3>4, <3>5, <3>6 DEF Counted
  <2>7. ASSUME NEW t \in Turns, Attach(t) PROVE Counted'
    <3> DEFINE old == mcp[KeyOf[t]]
    <3>1. /\ turn[t] = "opening" /\ turn' = [turn EXCEPT ![t] = "attached"]
          /\ UNCHANGED <<record, dirty, session, pulled>>
      BY <2>7 DEF Attach, routerVars, mcpVars
    <3>2. turn'[t] = "attached" /\ \A u \in Turns : u # t => turn'[u] = turn[u]
      BY <3>1 DEF ReloadTypeOK
    <3>3. t \notin private /\ InFlight(t) /\ KeyOf[t] \notin Cached \ dirty
      BY <3>1 DEF Counted, GivenAfterOpening, OpensForNeed, InFlight, Opening
    <3>4. \A u \in Turns : u # t /\ Idle(u) => Idle(u)'
      BY <3>1, <3>2 DEF Idle, InUse, UsedBy, Cached
    <3>5. OneAtATime' /\ OpensForNeed' /\ GivenAfterOpening'
      BY <2>7, <3>1, <3>2
      DEF Attach, Counted, OneAtATime, OpensForNeed, GivenAfterOpening, Cached, InFlight, Opening,
          ReloadTypeOK
    <3>6. CASE UNCHANGED <<mcpVars, private>>
      <4>1. GoneAreIdle' /\ LiveAreRegistered'
        BY <3>3, <3>4, <3>6 DEF Counted, GoneAreIdle, LiveAreRegistered, mcpVars, ReloadTypeOK
      <4>2. KeysFit'
        BY <3>1, <3>2, <3>6 DEF Counted, KeysFit, Cached, Slots, mcpVars
      <4> QED
        BY <3>5, <4>1, <4>2 DEF Counted
    <3>7. CASE /\ mcp' = [mcp EXCEPT ![KeyOf[t]] = t]
               /\ live' = (live \ {old}) \cup {t} /\ private' = private \cup {t}
      <4>1. ASSUME old \in Turns, old # t PROVE Idle(old)
        <5>1. KeyOf[old] = KeyOf[t] /\ old \in Turns
          BY <4>1 DEF Counted, KeysFit, Slots
        <5>2. ~UsedBy(old, old)
          BY <3>3, <4>1, <5>1 DEF Counted, OneAtATime, KeysFit, InFlight, UsedBy
        <5>3. old \notin InUse
          BY <3>1, <3>3, <4>1, <5>1 DEF Counted, OneAtATime, KeysFit, InFlight, InUse, UsedBy
        <5>4. \A k \in Cached \ dirty : record[k] # old
          BY <3>3, <5>1 DEF Counted, KeysFit
        <5> QED
          BY <5>3, <5>4 DEF Idle
      <4>2. GoneAreIdle'
        <5> SUFFICES ASSUME NEW u \in private', u \notin live' \cup pulled' PROVE Idle(u)'
          BY DEF GoneAreIdle
        <5>1. u \in private /\ u # t /\ u \in Turns /\ u \notin pulled
          BY <3>1, <3>7 DEF ReloadTypeOK
        <5>2. Idle(u)
          BY <3>7, <4>1, <5>1 DEF Counted, GoneAreIdle
        <5> QED
          BY <3>4, <5>1, <5>2
      <4>3. LiveAreRegistered'
        BY <3>1, <3>7 DEF Counted, LiveAreRegistered, ReloadTypeOK
      <4>4. KeysFit'
        BY <3>1, <3>2, <3>7 DEF Counted, KeysFit, Cached, Slots, ReloadTypeOK
      <4> QED
        BY <3>5, <4>2, <4>3, <4>4 DEF Counted
    <3> QED
      BY <2>7, <3>6, <3>7 DEF Attach
  <2>8. ASSUME NEW t \in Turns, Opened(t) PROVE Counted'
    <3>1. /\ turn[t] = "attached" /\ turn' = [turn EXCEPT ![t] = "running"]
          /\ session' = [session EXCEPT ![t] = t] /\ dirty' = dirty \ {KeyOf[t]}
          /\ UNCHANGED <<mcp, live, pulled, private>>
      BY <2>8 DEF Opened, mcpVars, sessionVars
    <3>2. /\ turn'[t] = "running" /\ session'[t] = t
          /\ \A u \in Turns : u # t => turn'[u] = turn[u] /\ session'[u] = session[u]
      BY <3>1 DEF ReloadTypeOK
    <3>0. \/ record' = record /\ KeyOf[t] \notin Cached
          \/ record' = [record EXCEPT ![KeyOf[t]] = t]
      BY <2>8 DEF Opened
    <3>3. \A k \in Cached' : k = KeyOf[t] => record'[k] = t
      BY <3>0 DEF Cached, ReloadTypeOK
    <3>4. \A k \in Cached' : \/ record'[k] = t /\ k = KeyOf[t]
                             \/ record'[k] = record[k] /\ k \in Cached
      <4>1. \A k \in Keys : k # KeyOf[t] => record'[k] = record[k]
        BY <3>0 DEF ReloadTypeOK
      <4> QED
        BY <3>3, <4>1 DEF Cached
    <3>5. \A k \in Cached' \ dirty' : record'[k] = t \/ (record'[k] = record[k] /\ k \in Cached \ dirty)
      <4> TAKE k \in Cached' \ dirty'
      <4>1. CASE k = KeyOf[t]
        BY <3>3, <4>1
      <4>2. CASE k # KeyOf[t]
        BY <3>1, <3>4, <4>2
      <4> QED
        BY <4>1, <4>2
    <3>6. t \in InUse /\ InFlight(t)
      BY <3>1 DEF InUse, UsedBy, InFlight
    <3>7. \A u \in Turns : Idle(u) => Idle(u)'
      BY <3>1, <3>2, <3>5, <3>6 DEF Idle, InUse, UsedBy
    <3>8. GoneAreIdle' /\ LiveAreRegistered'
      BY <3>1, <3>7 DEF Counted, GoneAreIdle, LiveAreRegistered, ReloadTypeOK
    <3>9. KeysFit'
      BY <3>1, <3>2, <3>4 DEF Counted, KeysFit, Slots
    <3>10. OneAtATime' /\ GivenAfterOpening'
      BY <3>1, <3>2 DEF Counted, OneAtATime, GivenAfterOpening, InFlight
    <3>11. OpensForNeed'
      <4> SUFFICES ASSUME NEW u \in Turns, Opening(u)' PROVE KeyOf[u] \notin Cached' \ dirty'
        BY DEF OpensForNeed
      <4>1. u # t /\ Opening(u) /\ InFlight(u)
        BY <3>2 DEF Opening, InFlight
      <4>2. KeyOf[u] # KeyOf[t] /\ KeyOf[u] \notin Cached \ dirty
        BY <3>6, <4>1 DEF Counted, OneAtATime, OpensForNeed
      <4> QED
        BY <3>1, <3>4, <4>2
    <3> QED
      BY <3>8, <3>9, <3>10, <3>11 DEF Counted
  <2>9. ASSUME NEW t \in Turns, turn' = [turn EXCEPT ![t] = "over"],
               UNCHANGED <<routerVars, mcpVars, session, private>>
        PROVE  Counted'
    <3>1. turn'[t] = "over" /\ \A u \in Turns : u # t => turn'[u] = turn[u]
      BY <2>9 DEF ReloadTypeOK
    <3>2. \A u \in Turns : Idle(u) => Idle(u)'
      BY <2>9, <3>1 DEF Idle, InUse, UsedBy, Cached, routerVars
    <3>3. GoneAreIdle' /\ LiveAreRegistered'
      BY <2>9, <3>2 DEF Counted, GoneAreIdle, LiveAreRegistered, mcpVars, ReloadTypeOK
    <3>4. KeysFit' /\ OpensForNeed'
      BY <2>9, <3>1 DEF Counted, KeysFit, OpensForNeed, Cached, Slots, Opening, routerVars, mcpVars
    <3>5. OneAtATime' /\ GivenAfterOpening'
      BY <2>9, <3>1 DEF Counted, OneAtATime, GivenAfterOpening, InFlight
    <3> QED
      BY <3>3, <3>4, <3>5 DEF Counted
  <2>10. ASSUME NEW t \in Turns, Revives(t) PROVE Counted'
    <3>1. PICK u \in private \ live : UsedBy(t, u) /\ live' = live \cup {u}
      BY <2>10 DEF Revives
    <3>2. UNCHANGED <<record, dirty, mcp, pulled, turn, session, private>>
      BY <2>10 DEF Revives, routerVars, turnVars, sessionVars
    <3>3. u \in InUse /\ u \in Turns
      BY <3>1 DEF InUse, ReloadTypeOK
    <3>4. u \in pulled
      BY <3>1, <3>3 DEF Counted, GoneAreIdle, Idle
    <3>5. \A v \in Turns : Idle(v)' <=> Idle(v)
      BY <3>2 DEF Idle, InUse, UsedBy, Cached
    <3>6. GoneAreIdle' /\ LiveAreRegistered'
      BY <3>1, <3>2, <3>4, <3>5 DEF Counted, GoneAreIdle, LiveAreRegistered, ReloadTypeOK
    <3>7. KeysFit' /\ OneAtATime' /\ OpensForNeed' /\ GivenAfterOpening'
      BY <3>2 DEF Counted, KeysFit, OneAtATime, OpensForNeed, GivenAfterOpening,
         Slots, Cached, InFlight, Opening
    <3> QED
      BY <3>6, <3>7 DEF Counted
  <2>11. ASSUME NEW k \in Keys, Evict(k) PROVE Counted'
    <3>1. /\ record' = [record EXCEPT ![k] = NoTurn] /\ dirty' = dirty \ {k} /\ Stop({k}, InUse)
          /\ UNCHANGED <<turn, session, private>>
      BY <2>11 DEF Evict, turnVars, sessionVars
    <3>2. \A j \in Cached' : j # k /\ j \in Cached /\ record'[j] = record[j]
      BY <3>1 DEF Cached, ReloadTypeOK
    <3>3. Cached' \ dirty' \subseteq Cached \ dirty
      BY <3>1, <3>2
    <3>4. \A u \in Turns : Idle(u) => Idle(u)'
      BY <3>1, <3>2, <3>3 DEF Idle, InUse, UsedBy
    <3>5. ASSUME NEW u \in Turns \ InUse, u = mcp[k] PROVE Idle(u)'
      <4>1. k \in Slots /\ KeyOf[u] = k
        BY <3>5 DEF Counted, KeysFit, Slots
      <4>2. \A j \in Cached' : record'[j] # u
        BY <3>2, <4>1 DEF Counted, KeysFit
      <4> QED
        BY <3>1, <3>5, <4>2 DEF Idle, InUse, UsedBy
    <3>6. {k} \in SUBSET Keys /\ InUse \in SUBSET Turns
      BY DEF InUse
    <3>7. GoneAreIdle' /\ LiveAreRegistered' /\ (\A j \in Slots' : KeyOf[mcp'[j]] = j)
      BY <3>1, <3>4, <3>5, <3>6, StopCounts
    <3>8. KeysFit'
      BY <3>1, <3>2, <3>7 DEF Counted, KeysFit
    <3>9. OneAtATime' /\ OpensForNeed' /\ GivenAfterOpening'
      BY <3>1, <3>3 DEF Counted, OneAtATime, OpensForNeed, GivenAfterOpening, InFlight, Opening
    <3> QED
      BY <3>7, <3>8, <3>9 DEF Counted
  <2>12. CASE (\E ok \in BOOLEAN : Edit(ok)) \/ ListSessions \/ UNCHANGED reloadVars
    BY <2>1, <2>12 DEF Edit, ListSessions, reloadVars, turnVars, sessionVars
  <2>13. CASE \E t \in Turns : OpenFails(t) \/ EndTurn(t)
    BY <2>9, <2>13 DEF OpenFails, EndTurn, Over, sessionVars
  <2> QED
    BY <2>2, <2>3, <2>4, <2>5, <2>6, <2>7, <2>8, <2>10, <2>11, <2>12, <2>13 DEF ReloadNext, Step
<1> QED
  BY <1>1, <1>2, ReloadTypeCorrect, PTL DEF ReloadSpec

\* However turns, changes, closes and sweeps interleave, a private McpRuntime with processes
\* that was not stopped under its users is the one registered under its key, and no more than
\* maxPerSessionMcpInstances of them run at once.
THEOREM McpLimitHolds == ReloadSpec => []McpWithinLimit
<1>1. ReloadTypeOK /\ SlotsWithinLimit /\ Counted => McpWithinLimit
  <2> SUFFICES ASSUME ReloadTypeOK, SlotsWithinLimit, Counted PROVE McpWithinLimit
    OBVIOUS
  <2> DEFINE slotOf == [t \in live \ pulled |-> KeyOf[t]]
  <2>1. \A t \in live \ pulled : mcp[KeyOf[t]] = t
    BY DEF Counted, LiveAreRegistered
  <2>2. \A t \in live \ pulled : KeyOf[t] \in Slots
    BY <2>1, KeyOfAssumption, NoTurnAssumption DEF ReloadTypeOK, Slots
  <2>3. slotOf \in Injection(live \ pulled, Slots)
    BY <2>1, <2>2 DEF Injection, IsInjective
  <2>4. Cardinality(live \ pulled) <= Cardinality(Slots) /\ IsFiniteSet(live \ pulled)
    BY <2>3, SlotsFinite, FS_Injection
  <2>5. Cardinality(live \ pulled) \in Nat
    BY <2>4, FS_CardinalityType
  <2>6. Cardinality(live \ pulled) <= MaxMcp
    BY <2>4, <2>5, SlotsFinite, BoundsAssumption DEF SlotsWithinLimit
  <2> QED
    BY <2>1, <2>6 DEF McpWithinLimit
<1> QED
  BY <1>1, ReloadTypeCorrect, SlotsHold, CountedInvariant, PTL
=============================================================================
