------------------------- MODULE SessionTurnsProofs -------------------------
(***************************************************************************)
(* Proofs about SessionTurns for every set of keys, turns and aborts.      *)
(***************************************************************************)
EXTENDS SessionTurns, TLAPS

USE DEF MaybeTurn, Objects, HostStates, PumpStates, Prompts, CallStates

\* A pump that has a session to work with knows the object.
Opened ==
    \A t \in Turns :
        pump[t] \in {"recreating", "preparing", "starting", "running"} => object[t] \in Turns

\* The variables always have the values the code can give them, and a pump never
\* submits to a session it does not have.
LEMMA TypedAndOpened == Spec => [](TypeOK /\ Opened)
<1>1. Init => TypeOK /\ Opened
  BY KeyOfAssumption, MaxAsksAssumption DEF Init, TypeOK, Opened
<1>2. TypeOK /\ Opened /\ [Next]_vars => TypeOK' /\ Opened'
  <2> SUFFICES ASSUME TypeOK, Opened, [Next]_vars PROVE TypeOK' /\ Opened'
    OBVIOUS
  <2> USE KeyOfAssumption, NoTurnAssumption, MaxAsksAssumption
  <2>1. CASE DescribeServer
    BY <2>1 DEF DescribeServer, Swept, CleanAfter, Idle, TypeOK, Opened, gatewayVars, turnVars,
       agentVars, abortVars
  <2>2. ASSUME NEW k \in Keys, MarkDirty(k) PROVE TypeOK' /\ Opened'
    BY <2>2 DEF MarkDirty, TypeOK, Opened, gatewayVars, turnVars, agentVars, abortVars
  <2>3. ASSUME NEW k \in Keys, Close(k) PROVE TypeOK' /\ Opened'
    BY <2>3 DEF Close, TypeOK, Opened, gatewayVars, turnVars, agentVars, abortVars
  <2>4. ASSUME NEW t \in Turns, Submit(t) PROVE TypeOK' /\ Opened'
    BY <2>4 DEF Submit, TypeOK, Opened, routerVars, gatewayVars, agentVars, abortVars
  <2>5. ASSUME NEW t \in Turns, RefuseBusy(t) PROVE TypeOK' /\ Opened'
    BY <2>5 DEF RefuseBusy, Swept, CleanAfter, TypeOK, Opened, gatewayVars, agentVars, abortVars
  <2>6. ASSUME NEW t \in Turns, Begin(t) PROVE TypeOK' /\ Opened'
    BY <2>6 DEF Begin, Swept, CleanAfter, Idle, TypeOK, Opened, agentVars, abortVars
  <2>7. ASSUME NEW t \in Turns, StreamEnds(t) PROVE TypeOK' /\ Opened'
    BY <2>7 DEF StreamEnds, Unwind, Emptied, Rejected, TypeOK, Opened, agentVars, abortVars
  <2>8. ASSUME NEW t \in Turns, Leave(t) PROVE TypeOK' /\ Opened'
    BY <2>8 DEF Leave, Unwind, Emptied, Rejected, TypeOK, Opened, agentVars, abortVars
  <2>9. ASSUME NEW t \in Turns, Drained(t) PROVE TypeOK' /\ Opened'
    BY <2>9 DEF Drained, TypeOK, Opened, routerVars, agentVars, abortVars
  <2>10. ASSUME NEW t \in Turns, Created(t) PROVE TypeOK' /\ Opened'
    BY <2>10 DEF Created, TypeOK, Opened, gatewayVars, abortVars
  <2>11. ASSUME NEW t \in Turns, Recreated(t) PROVE TypeOK' /\ Opened'
    BY <2>11 DEF Recreated, TypeOK, Opened, gatewayVars, abortVars
  <2>12. ASSUME NEW t \in Turns, OpenFails(t) PROVE TypeOK' /\ Opened'
    BY <2>12 DEF OpenFails, TypeOK, Opened, routerVars, gatewayVars, agentVars, abortVars
  <2>13. ASSUME NEW t \in Turns, Start(t) PROVE TypeOK' /\ Opened'
    BY <2>13 DEF Start, TypeOK, Opened, routerVars, gatewayVars, abortVars
  <2>14. ASSUME NEW t \in Turns, Accept(t) PROVE TypeOK' /\ Opened'
    BY <2>14 DEF Accept, TypeOK, Opened, routerVars, gatewayVars, abortVars
  <2>15. ASSUME NEW t \in Turns, RunEnds(t) PROVE TypeOK' /\ Opened'
    <3>1. memory' \in [Objects -> SUBSET Turns]
      BY <2>15 DEF RunEnds, TypeOK
    <3>2. transcript' \in [Keys -> SUBSET Turns]
      <4>1. KeyOf[t] \in Keys /\ transcript[KeyOf[t]] \cup {t} \in SUBSET Turns
        BY DEF TypeOK
      <4>2. \/ transcript' = transcript
            \/ transcript' = [transcript EXCEPT ![KeyOf[t]] = transcript[KeyOf[t]] \cup {t}]
        BY <2>15 DEF RunEnds
      <4> QED
        BY <4>1, <4>2 DEF TypeOK
    <3>3. pump' = [pump EXCEPT ![t] = "finished"]
      BY <2>15 DEF RunEnds
    <3>4. UNCHANGED <<record, dirty, slot, completion, sink, permissionBus, elicitationBus, host,
                      object, prompt, asks, shownTo, controller, aborted, base,
                      call, target, awaited, found>>
      BY <2>15 DEF RunEnds, routerVars, gatewayVars, abortVars
    <3> QED
      BY <3>1, <3>2, <3>3, <3>4 DEF TypeOK, Opened
  <2>16. ASSUME NEW t \in Turns, AskPermission(t) PROVE TypeOK' /\ Opened'
    BY <2>16 DEF AskPermission, CanAsk, TypeOK, Opened, routerVars, agentVars, abortVars
  <2>17. ASSUME NEW t \in Turns, AskQuestion(t) PROVE TypeOK' /\ Opened'
    BY <2>17 DEF AskQuestion, CanAsk, TypeOK, Opened, routerVars, agentVars, abortVars
  <2>18. ASSUME NEW t \in Turns, PermissionDecide(t) PROVE TypeOK' /\ Opened'
    BY <2>18 DEF PermissionDecide, TypeOK, Opened, routerVars, agentVars, abortVars
  <2>19. ASSUME NEW t \in Turns, RespondElicitation(t) PROVE TypeOK' /\ Opened'
    BY <2>19 DEF RespondElicitation, TypeOK, Opened, routerVars, agentVars, abortVars
  <2>20. ASSUME NEW a \in Aborts, AbortSignal(a) PROVE TypeOK' /\ Opened'
    BY <2>20 DEF AbortSignal, Aborted, Woken, TypeOK, Opened, routerVars
  <2>21. ASSUME NEW a \in Aborts, AbortAwait(a) PROVE TypeOK' /\ Opened'
    BY <2>21 DEF AbortAwait, TypeOK, Opened, routerVars, gatewayVars, turnVars, agentVars
  <2>22. ASSUME NEW a \in Aborts, AbortReturn(a) PROVE TypeOK' /\ Opened'
    BY <2>22 DEF AbortReturn, TypeOK, Opened, routerVars, gatewayVars, turnVars, agentVars
  <2>23. CASE UNCHANGED vars
    BY <2>23 DEF TypeOK, Opened, vars, routerVars, gatewayVars, turnVars, agentVars, abortVars
  <2> QED
    BY <2>1, <2>2, <2>3, <2>4, <2>5, <2>6, <2>7, <2>8, <2>9, <2>10, <2>11, <2>12, <2>13, <2>14,
       <2>15, <2>16, <2>17, <2>18, <2>19, <2>20, <2>21, <2>22, <2>23 DEF Next
<1> QED
  BY <1>1, <1>2, PTL DEF Spec

\* Every variable of the gateway keeps its type.
THEOREM TypeCorrect == Spec => []TypeOK
  BY TypedAndOpened, PTL

-----------------------------------------------------------------------------
(* The slot and abortTurn, with hosts that leave or stay. *)

\* The turn in a slot is the one whose stream is open, and the two maps that are
\* filled with the slot agree with it.
SlotHeld ==
    /\ \A k \in Keys, t \in Turns :
          slot[k] = t =>
              /\ KeyOf[t] = k
              /\ host[t] = "streaming"
              /\ completion[k] = t
              /\ sink[k] = t
    /\ \A k \in Keys : slot[k] = NoTurn => sink[k] = NoTurn
    /\ \A t \in Turns : host[t] = "streaming" => slot[KeyOf[t]] = t
    /\ \A t \in Turns : host[t] \in {"new", "refreshing", "busy"} => pump[t] = "off"

\* What an abort found in the slot has begun for good, and while it is still there
\* the abort waits for it.
AbortTracks ==
    \A a \in Aborts :
        /\ call[a] = "idle" => found[a] = NoTurn
        /\ found[a] # NoTurn =>
              /\ KeyOf[found[a]] = target[a]
              /\ host[found[a]] \in {"streaming", "draining", "done"}
              /\ call[a] = "waiting" /\ slot[target[a]] = found[a] => awaited[a] = found[a]
              /\ call[a] = "returned" => slot[target[a]] # found[a]

\* SlotHeld is inductive on its own.
LEMMA SlotHeldHolds == Spec => []SlotHeld
<1>1. Init => SlotHeld
  BY NoTurnAssumption, KeyOfAssumption DEF Init, SlotHeld
<1>2. TypeOK /\ SlotHeld /\ [Next]_vars => SlotHeld'
  <2> SUFFICES ASSUME TypeOK, SlotHeld, [Next]_vars PROVE SlotHeld'
    OBVIOUS
  <2> USE KeyOfAssumption, NoTurnAssumption
  <2>1. CASE DescribeServer
    BY <2>1 DEF DescribeServer, Swept, CleanAfter, Idle, TypeOK, SlotHeld, gatewayVars, turnVars,
       agentVars, abortVars
  <2>2. ASSUME NEW k \in Keys, MarkDirty(k) PROVE SlotHeld'
    BY <2>2 DEF MarkDirty, TypeOK, SlotHeld, gatewayVars, turnVars, agentVars, abortVars
  <2>3. ASSUME NEW k \in Keys, Close(k) PROVE SlotHeld'
    BY <2>3 DEF Close, TypeOK, SlotHeld, gatewayVars, turnVars, agentVars, abortVars
  <2>4. ASSUME NEW t \in Turns, Submit(t) PROVE SlotHeld'
    BY <2>4 DEF Submit, TypeOK, SlotHeld, routerVars, gatewayVars, agentVars, abortVars
  <2>5. ASSUME NEW t \in Turns, RefuseBusy(t) PROVE SlotHeld'
    BY <2>5 DEF RefuseBusy, Swept, CleanAfter, TypeOK, SlotHeld, gatewayVars, agentVars, abortVars
  <2>6. ASSUME NEW t \in Turns, Begin(t) PROVE SlotHeld'
    BY <2>6 DEF Begin, Swept, CleanAfter, Idle, TypeOK, SlotHeld, agentVars, abortVars
  <2>7. ASSUME NEW t \in Turns, StreamEnds(t) PROVE SlotHeld'
    BY <2>7 DEF StreamEnds, Unwind, Emptied, Rejected, TypeOK, SlotHeld, agentVars, abortVars
  <2>8. ASSUME NEW t \in Turns, Leave(t) PROVE SlotHeld'
    BY <2>8 DEF Leave, Unwind, Emptied, Rejected, TypeOK, SlotHeld, agentVars, abortVars
  <2>9. ASSUME NEW t \in Turns, Drained(t) PROVE SlotHeld'
    BY <2>9 DEF Drained, TypeOK, SlotHeld, routerVars, agentVars, abortVars
  <2>10. ASSUME NEW t \in Turns, Created(t) PROVE SlotHeld'
    BY <2>10 DEF Created, TypeOK, SlotHeld, gatewayVars, abortVars
  <2>11. ASSUME NEW t \in Turns, Recreated(t) PROVE SlotHeld'
    BY <2>11 DEF Recreated, TypeOK, SlotHeld, gatewayVars, abortVars
  <2>12. ASSUME NEW t \in Turns, OpenFails(t) PROVE SlotHeld'
    BY <2>12 DEF OpenFails, TypeOK, SlotHeld, routerVars, gatewayVars, agentVars, abortVars
  <2>13. ASSUME NEW t \in Turns, Start(t) PROVE SlotHeld'
    BY <2>13 DEF Start, TypeOK, SlotHeld, routerVars, gatewayVars, abortVars
  <2>14. ASSUME NEW t \in Turns, Accept(t) PROVE SlotHeld'
    BY <2>14 DEF Accept, TypeOK, SlotHeld, routerVars, gatewayVars, abortVars
  <2>15. ASSUME NEW t \in Turns, RunEnds(t) PROVE SlotHeld'
    BY <2>15 DEF RunEnds, TypeOK, SlotHeld, routerVars, gatewayVars, abortVars
  <2>16. ASSUME NEW t \in Turns, AskPermission(t) PROVE SlotHeld'
    BY <2>16 DEF AskPermission, CanAsk, TypeOK, SlotHeld, routerVars, agentVars, abortVars
  <2>17. ASSUME NEW t \in Turns, AskQuestion(t) PROVE SlotHeld'
    BY <2>17 DEF AskQuestion, CanAsk, TypeOK, SlotHeld, routerVars, agentVars, abortVars
  <2>18. ASSUME NEW t \in Turns, PermissionDecide(t) PROVE SlotHeld'
    BY <2>18 DEF PermissionDecide, TypeOK, SlotHeld, routerVars, agentVars, abortVars
  <2>19. ASSUME NEW t \in Turns, RespondElicitation(t) PROVE SlotHeld'
    BY <2>19 DEF RespondElicitation, TypeOK, SlotHeld, routerVars, agentVars, abortVars
  <2>20. ASSUME NEW a \in Aborts, AbortSignal(a) PROVE SlotHeld'
    BY <2>20 DEF AbortSignal, Aborted, Woken, TypeOK, SlotHeld, routerVars
  <2>21. ASSUME NEW a \in Aborts, AbortAwait(a) PROVE SlotHeld'
    BY <2>21 DEF AbortAwait, TypeOK, SlotHeld, routerVars, gatewayVars, turnVars, agentVars
  <2>22. ASSUME NEW a \in Aborts, AbortReturn(a) PROVE SlotHeld'
    BY <2>22 DEF AbortReturn, TypeOK, SlotHeld, routerVars, gatewayVars, turnVars, agentVars
  <2>23. CASE UNCHANGED vars
    BY <2>23 DEF TypeOK, SlotHeld, vars, routerVars, gatewayVars, turnVars, agentVars, abortVars
  <2> QED
    BY <2>1, <2>2, <2>3, <2>4, <2>5, <2>6, <2>7, <2>8, <2>9, <2>10, <2>11, <2>12, <2>13, <2>14,
       <2>15, <2>16, <2>17, <2>18, <2>19, <2>20, <2>21, <2>22, <2>23 DEF Next
<1> QED
  BY <1>1, <1>2, TypeCorrect, PTL DEF Spec

\* AbortTracks holds because a slot, once released, never returns to the same turn.
LEMMA AbortTracksHolds == Spec => []AbortTracks
<1>1. Init => AbortTracks
  BY DEF Init, AbortTracks
<1>2. TypeOK /\ SlotHeld /\ AbortTracks /\ [Next]_vars => AbortTracks'
  <2> SUFFICES ASSUME TypeOK, SlotHeld, AbortTracks, [Next]_vars PROVE AbortTracks'
    OBVIOUS
  <2> USE KeyOfAssumption, NoTurnAssumption
  <2>1. CASE DescribeServer
    BY <2>1 DEF DescribeServer, Swept, CleanAfter, Idle, TypeOK, SlotHeld, AbortTracks,
       gatewayVars, turnVars, agentVars, abortVars
  <2>2. ASSUME NEW k \in Keys, MarkDirty(k) PROVE AbortTracks'
    BY <2>2 DEF MarkDirty, TypeOK, SlotHeld, AbortTracks, gatewayVars, turnVars, agentVars,
       abortVars
  <2>3. ASSUME NEW k \in Keys, Close(k) PROVE AbortTracks'
    BY <2>3 DEF Close, TypeOK, SlotHeld, AbortTracks, gatewayVars, turnVars, agentVars, abortVars
  <2>4. ASSUME NEW t \in Turns, Submit(t) PROVE AbortTracks'
    BY <2>4 DEF Submit, TypeOK, SlotHeld, AbortTracks, routerVars, gatewayVars, agentVars, abortVars
  <2>5. ASSUME NEW t \in Turns, RefuseBusy(t) PROVE AbortTracks'
    BY <2>5 DEF RefuseBusy, Swept, CleanAfter, TypeOK, SlotHeld, AbortTracks, gatewayVars,
       agentVars, abortVars
  <2>6. ASSUME NEW t \in Turns, Begin(t) PROVE AbortTracks'
    BY <2>6 DEF Begin, Swept, CleanAfter, Idle, TypeOK, SlotHeld, AbortTracks, agentVars, abortVars
  <2>7. ASSUME NEW t \in Turns, StreamEnds(t) PROVE AbortTracks'
    BY <2>7 DEF StreamEnds, Unwind, Emptied, Rejected, TypeOK, SlotHeld, AbortTracks, agentVars,
       abortVars
  <2>8. ASSUME NEW t \in Turns, Leave(t) PROVE AbortTracks'
    BY <2>8 DEF Leave, Unwind, Emptied, Rejected, TypeOK, SlotHeld, AbortTracks, agentVars,
       abortVars
  <2>9. ASSUME NEW t \in Turns, Drained(t) PROVE AbortTracks'
    BY <2>9 DEF Drained, TypeOK, SlotHeld, AbortTracks, routerVars, agentVars, abortVars
  <2>10. ASSUME NEW t \in Turns, Created(t) PROVE AbortTracks'
    BY <2>10 DEF Created, TypeOK, SlotHeld, AbortTracks, gatewayVars, abortVars
  <2>11. ASSUME NEW t \in Turns, Recreated(t) PROVE AbortTracks'
    BY <2>11 DEF Recreated, TypeOK, SlotHeld, AbortTracks, gatewayVars, abortVars
  <2>12. ASSUME NEW t \in Turns, OpenFails(t) PROVE AbortTracks'
    BY <2>12 DEF OpenFails, TypeOK, SlotHeld, AbortTracks, routerVars, gatewayVars, agentVars,
       abortVars
  <2>13. ASSUME NEW t \in Turns, Start(t) PROVE AbortTracks'
    BY <2>13 DEF Start, TypeOK, SlotHeld, AbortTracks, routerVars, gatewayVars, abortVars
  <2>14. ASSUME NEW t \in Turns, Accept(t) PROVE AbortTracks'
    BY <2>14 DEF Accept, TypeOK, SlotHeld, AbortTracks, routerVars, gatewayVars, abortVars
  <2>15. ASSUME NEW t \in Turns, RunEnds(t) PROVE AbortTracks'
    BY <2>15 DEF RunEnds, TypeOK, SlotHeld, AbortTracks, routerVars, gatewayVars, abortVars
  <2>16. ASSUME NEW t \in Turns, AskPermission(t) PROVE AbortTracks'
    BY <2>16 DEF AskPermission, CanAsk, TypeOK, SlotHeld, AbortTracks, routerVars, agentVars,
       abortVars
  <2>17. ASSUME NEW t \in Turns, AskQuestion(t) PROVE AbortTracks'
    BY <2>17 DEF AskQuestion, CanAsk, TypeOK, SlotHeld, AbortTracks, routerVars, agentVars,
       abortVars
  <2>18. ASSUME NEW t \in Turns, PermissionDecide(t) PROVE AbortTracks'
    BY <2>18 DEF PermissionDecide, TypeOK, SlotHeld, AbortTracks, routerVars, agentVars, abortVars
  <2>19. ASSUME NEW t \in Turns, RespondElicitation(t) PROVE AbortTracks'
    BY <2>19 DEF RespondElicitation, TypeOK, SlotHeld, AbortTracks, routerVars, agentVars, abortVars
  <2>20. ASSUME NEW a \in Aborts, AbortSignal(a) PROVE AbortTracks'
    BY <2>20 DEF AbortSignal, Aborted, Woken, TypeOK, SlotHeld, AbortTracks, routerVars
  <2>21. ASSUME NEW a \in Aborts, AbortAwait(a) PROVE AbortTracks'
    BY <2>21 DEF AbortAwait, TypeOK, SlotHeld, AbortTracks, routerVars, gatewayVars, turnVars,
       agentVars
  <2>22. ASSUME NEW a \in Aborts, AbortReturn(a) PROVE AbortTracks'
    BY <2>22 DEF AbortReturn, TypeOK, SlotHeld, AbortTracks, routerVars, gatewayVars, turnVars,
       agentVars
  <2>23. CASE UNCHANGED vars
    BY <2>23 DEF TypeOK, SlotHeld, AbortTracks, vars, routerVars, gatewayVars, turnVars,
       agentVars, abortVars
  <2> QED
    BY <2>1, <2>2, <2>3, <2>4, <2>5, <2>6, <2>7, <2>8, <2>9, <2>10, <2>11, <2>12, <2>13, <2>14,
       <2>15, <2>16, <2>17, <2>18, <2>19, <2>20, <2>21, <2>22, <2>23 DEF Next
<1> QED
  BY <1>1, <1>2, TypeCorrect, SlotHeldHolds, PTL DEF Spec

\* The contract of abortTurn, for any number of turns and aborts and whether or not
\* hosts leave their streams: the turn found in the slot is out of it on return.
THEOREM AbortContract == Spec => []AbortReleasesSlot
<1>1. AbortTracks => AbortReleasesSlot
  BY DEF AbortTracks, AbortReleasesSlot
<1> QED
  BY <1>1, AbortTracksHolds, PTL

-----------------------------------------------------------------------------
(* Sessions whose hosts read their streams to the end. *)

\* A pump at work belongs to an open stream, and only a run waits for answers.
WorkHeld ==
    \A t \in Turns :
        /\ pump[t] \notin {"off", "finished"} => host[t] = "streaming"
        /\ prompt[t] # "none" => pump[t] = "running"

\* The buses hold nothing but prompts of the turn in the slot, and a blocked run can
\* be answered.
PromptsHeld ==
    /\ \A k \in Keys, t \in Turns :
          t \in permissionBus[k] \/ t \in elicitationBus[k] => slot[k] = t
    /\ BlockedRunIsAnswerable

\* Cached objects are those of their own key and know all that is on record; a pump
\* at work has the cached object, or one whose record was closed meanwhile.
MemoryHeld ==
    /\ \A k \in Keys :
          record[k] # NoTurn => KeyOf[record[k]] = k /\ memory[record[k]] = transcript[k]
    /\ \A t \in Turns :
          /\ object[t] # NoTurn => KeyOf[object[t]] = KeyOf[t]
          /\ pump[t] = "creating" => record[KeyOf[t]] = NoTurn
          /\ pump[t] \in {"recreating", "preparing", "starting", "running"} =>
                /\ memory[object[t]] = transcript[KeyOf[t]]
                /\ record[KeyOf[t]] \in {object[t], NoTurn}
          /\ pump[t] = "running" => base[t] = transcript[KeyOf[t]]

\* When hosts stay, WorkHeld follows step by step from SlotHeld.
LEMMA WorkHeldHolds == ASSUME ~EarlyLeave PROVE Spec => []WorkHeld
<1>1. Init => WorkHeld
  BY DEF Init, WorkHeld
<1>2. TypeOK /\ SlotHeld /\ WorkHeld /\ [Next]_vars => WorkHeld'
  <2> SUFFICES ASSUME TypeOK, SlotHeld, WorkHeld, [Next]_vars PROVE WorkHeld'
    OBVIOUS
  <2> USE KeyOfAssumption, NoTurnAssumption
  <2>1. CASE DescribeServer
    BY <2>1 DEF DescribeServer, Swept, CleanAfter, Idle, TypeOK, SlotHeld, WorkHeld, gatewayVars,
       turnVars, agentVars, abortVars
  <2>2. ASSUME NEW k \in Keys, MarkDirty(k) PROVE WorkHeld'
    BY <2>2 DEF MarkDirty, TypeOK, SlotHeld, WorkHeld, gatewayVars, turnVars, agentVars, abortVars
  <2>3. ASSUME NEW k \in Keys, Close(k) PROVE WorkHeld'
    BY <2>3 DEF Close, TypeOK, SlotHeld, WorkHeld, gatewayVars, turnVars, agentVars, abortVars
  <2>4. ASSUME NEW t \in Turns, Submit(t) PROVE WorkHeld'
    BY <2>4 DEF Submit, TypeOK, SlotHeld, WorkHeld, routerVars, gatewayVars, agentVars, abortVars
  <2>5. ASSUME NEW t \in Turns, RefuseBusy(t) PROVE WorkHeld'
    BY <2>5 DEF RefuseBusy, Swept, CleanAfter, TypeOK, SlotHeld, WorkHeld, gatewayVars, agentVars,
       abortVars
  <2>6. ASSUME NEW t \in Turns, Begin(t) PROVE WorkHeld'
    BY <2>6 DEF Begin, Swept, CleanAfter, Idle, TypeOK, SlotHeld, WorkHeld, agentVars, abortVars
  <2>7. ASSUME NEW t \in Turns, StreamEnds(t) PROVE WorkHeld'
    BY <2>7 DEF StreamEnds, Unwind, Emptied, Rejected, TypeOK, SlotHeld, WorkHeld, agentVars,
       abortVars
  <2>8. ASSUME NEW t \in Turns, Leave(t) PROVE WorkHeld'
    BY <2>8 DEF Leave, Unwind, Emptied, Rejected, TypeOK, SlotHeld, WorkHeld, agentVars, abortVars
  <2>9. ASSUME NEW t \in Turns, Drained(t) PROVE WorkHeld'
    BY <2>9 DEF Drained, TypeOK, SlotHeld, WorkHeld, routerVars, agentVars, abortVars
  <2>10. ASSUME NEW t \in Turns, Created(t) PROVE WorkHeld'
    BY <2>10 DEF Created, TypeOK, SlotHeld, WorkHeld, gatewayVars, abortVars
  <2>11. ASSUME NEW t \in Turns, Recreated(t) PROVE WorkHeld'
    BY <2>11 DEF Recreated, TypeOK, SlotHeld, WorkHeld, gatewayVars, abortVars
  <2>12. ASSUME NEW t \in Turns, OpenFails(t) PROVE WorkHeld'
    BY <2>12 DEF OpenFails, TypeOK, SlotHeld, WorkHeld, routerVars, gatewayVars, agentVars,
       abortVars
  <2>13. ASSUME NEW t \in Turns, Start(t) PROVE WorkHeld'
    BY <2>13 DEF Start, TypeOK, SlotHeld, WorkHeld, routerVars, gatewayVars, abortVars
  <2>14. ASSUME NEW t \in Turns, Accept(t) PROVE WorkHeld'
    BY <2>14 DEF Accept, TypeOK, SlotHeld, WorkHeld, routerVars, gatewayVars, abortVars
  <2>15. ASSUME NEW t \in Turns, RunEnds(t) PROVE WorkHeld'
    BY <2>15 DEF RunEnds, TypeOK, SlotHeld, WorkHeld, routerVars, gatewayVars, abortVars
  <2>16. ASSUME NEW t \in Turns, AskPermission(t) PROVE WorkHeld'
    BY <2>16 DEF AskPermission, CanAsk, TypeOK, SlotHeld, WorkHeld, routerVars, agentVars, abortVars
  <2>17. ASSUME NEW t \in Turns, AskQuestion(t) PROVE WorkHeld'
    BY <2>17 DEF AskQuestion, CanAsk, TypeOK, SlotHeld, WorkHeld, routerVars, agentVars, abortVars
  <2>18. ASSUME NEW t \in Turns, PermissionDecide(t) PROVE WorkHeld'
    BY <2>18 DEF PermissionDecide, TypeOK, SlotHeld, WorkHeld, routerVars, agentVars, abortVars
  <2>19. ASSUME NEW t \in Turns, RespondElicitation(t) PROVE WorkHeld'
    BY <2>19 DEF RespondElicitation, TypeOK, SlotHeld, WorkHeld, routerVars, agentVars, abortVars
  <2>20. ASSUME NEW a \in Aborts, AbortSignal(a) PROVE WorkHeld'
    BY <2>20 DEF AbortSignal, Aborted, Woken, TypeOK, SlotHeld, WorkHeld, routerVars
  <2>21. ASSUME NEW a \in Aborts, AbortAwait(a) PROVE WorkHeld'
    BY <2>21 DEF AbortAwait, TypeOK, SlotHeld, WorkHeld, routerVars, gatewayVars, turnVars,
       agentVars
  <2>22. ASSUME NEW a \in Aborts, AbortReturn(a) PROVE WorkHeld'
    BY <2>22 DEF AbortReturn, TypeOK, SlotHeld, WorkHeld, routerVars, gatewayVars, turnVars,
       agentVars
  <2>23. CASE UNCHANGED vars
    BY <2>23 DEF TypeOK, SlotHeld, WorkHeld, vars, routerVars, gatewayVars, turnVars, agentVars,
       abortVars
  <2> QED
    BY <2>1, <2>2, <2>3, <2>4, <2>5, <2>6, <2>7, <2>8, <2>9, <2>10, <2>11, <2>12, <2>13, <2>14,
       <2>15, <2>16, <2>17, <2>18, <2>19, <2>20, <2>21, <2>22, <2>23 DEF Next
<1> QED
  BY <1>1, <1>2, TypeCorrect, SlotHeldHolds, PTL DEF Spec

\* One turn at a time in a session, however many submit to it.
THEOREM OneRun == ASSUME ~EarlyLeave PROVE Spec => []OneRunPerSession
<1>1. SlotHeld /\ WorkHeld => OneRunPerSession
  BY DEF SlotHeld, WorkHeld, OneRunPerSession, AtWork
<1> QED
  BY <1>1, SlotHeldHolds, WorkHeldHolds, PTL

\* PromptsHeld: a prompt is raised by a run that holds the slot.
LEMMA PromptsHeldHolds == ASSUME ~EarlyLeave PROVE Spec => []PromptsHeld
<1>1. Init => PromptsHeld
  BY DEF Init, PromptsHeld, BlockedRunIsAnswerable
<1>2. TypeOK /\ SlotHeld /\ WorkHeld /\ PromptsHeld /\ [Next]_vars => PromptsHeld'
  <2> SUFFICES ASSUME TypeOK, SlotHeld, WorkHeld, PromptsHeld, [Next]_vars PROVE PromptsHeld'
    OBVIOUS
  <2> USE KeyOfAssumption, NoTurnAssumption
  <2>1. CASE DescribeServer
    BY <2>1 DEF DescribeServer, Swept, CleanAfter, Idle, TypeOK, SlotHeld, WorkHeld, PromptsHeld,
       BlockedRunIsAnswerable, gatewayVars, turnVars, agentVars, abortVars
  <2>2. ASSUME NEW k \in Keys, MarkDirty(k) PROVE PromptsHeld'
    BY <2>2 DEF MarkDirty, TypeOK, SlotHeld, WorkHeld, PromptsHeld, BlockedRunIsAnswerable,
       gatewayVars, turnVars, agentVars, abortVars
  <2>3. ASSUME NEW k \in Keys, Close(k) PROVE PromptsHeld'
    BY <2>3 DEF Close, TypeOK, SlotHeld, WorkHeld, PromptsHeld, BlockedRunIsAnswerable,
       gatewayVars, turnVars, agentVars, abortVars
  <2>4. ASSUME NEW t \in Turns, Submit(t) PROVE PromptsHeld'
    BY <2>4 DEF Submit, TypeOK, SlotHeld, WorkHeld, PromptsHeld, BlockedRunIsAnswerable,
       routerVars, gatewayVars, agentVars, abortVars
  <2>5. ASSUME NEW t \in Turns, RefuseBusy(t) PROVE PromptsHeld'
    BY <2>5 DEF RefuseBusy, Swept, CleanAfter, TypeOK, SlotHeld, WorkHeld, PromptsHeld,
       BlockedRunIsAnswerable, gatewayVars, agentVars, abortVars
  <2>6. ASSUME NEW t \in Turns, Begin(t) PROVE PromptsHeld'
    BY <2>6 DEF Begin, Swept, CleanAfter, Idle, TypeOK, SlotHeld, WorkHeld, PromptsHeld,
       BlockedRunIsAnswerable, agentVars, abortVars
  <2>7. ASSUME NEW t \in Turns, StreamEnds(t) PROVE PromptsHeld'
    BY <2>7 DEF StreamEnds, Unwind, Emptied, Rejected, TypeOK, SlotHeld, WorkHeld, PromptsHeld,
       BlockedRunIsAnswerable, agentVars, abortVars
  <2>8. ASSUME NEW t \in Turns, Leave(t) PROVE PromptsHeld'
    BY <2>8 DEF Leave, Unwind, Emptied, Rejected, TypeOK, SlotHeld, WorkHeld, PromptsHeld,
       BlockedRunIsAnswerable, agentVars, abortVars
  <2>9. ASSUME NEW t \in Turns, Drained(t) PROVE PromptsHeld'
    BY <2>9 DEF Drained, TypeOK, SlotHeld, WorkHeld, PromptsHeld, BlockedRunIsAnswerable,
       routerVars, agentVars, abortVars
  <2>10. ASSUME NEW t \in Turns, Created(t) PROVE PromptsHeld'
    BY <2>10 DEF Created, TypeOK, SlotHeld, WorkHeld, PromptsHeld, BlockedRunIsAnswerable,
       gatewayVars, abortVars
  <2>11. ASSUME NEW t \in Turns, Recreated(t) PROVE PromptsHeld'
    BY <2>11 DEF Recreated, TypeOK, SlotHeld, WorkHeld, PromptsHeld, BlockedRunIsAnswerable,
       gatewayVars, abortVars
  <2>12. ASSUME NEW t \in Turns, OpenFails(t) PROVE PromptsHeld'
    BY <2>12 DEF OpenFails, TypeOK, SlotHeld, WorkHeld, PromptsHeld, BlockedRunIsAnswerable,
       routerVars, gatewayVars, agentVars, abortVars
  <2>13. ASSUME NEW t \in Turns, Start(t) PROVE PromptsHeld'
    BY <2>13 DEF Start, TypeOK, SlotHeld, WorkHeld, PromptsHeld, BlockedRunIsAnswerable,
       routerVars, gatewayVars, abortVars
  <2>14. ASSUME NEW t \in Turns, Accept(t) PROVE PromptsHeld'
    BY <2>14 DEF Accept, TypeOK, SlotHeld, WorkHeld, PromptsHeld, BlockedRunIsAnswerable,
       routerVars, gatewayVars, abortVars
  <2>15. ASSUME NEW t \in Turns, RunEnds(t) PROVE PromptsHeld'
    BY <2>15 DEF RunEnds, TypeOK, SlotHeld, WorkHeld, PromptsHeld, BlockedRunIsAnswerable,
       routerVars, gatewayVars, abortVars
  <2>16. ASSUME NEW t \in Turns, AskPermission(t) PROVE PromptsHeld'
    <3> DEFINE k == KeyOf[t]
    <3>1. pump[t] = "running" /\ prompt[t] = "none"
      BY <2>16 DEF AskPermission, CanAsk
    <3>2. k \in Keys /\ slot[k] = t /\ sink[k] = t
      <4>1. host[t] = "streaming"
        BY <3>1 DEF WorkHeld
      <4> QED
        BY <4>1 DEF SlotHeld
    <3>3. \A j \in Keys, u \in Turns :
             u \in permissionBus'[j] <=> u \in permissionBus[j] \/ (j = k /\ u = t)
      BY <3>2, <2>16 DEF AskPermission, TypeOK
    <3>4. UNCHANGED <<slot, sink, elicitationBus, pump>>
      BY <2>16 DEF AskPermission, routerVars
    <3>5. \A j \in Keys, u \in Turns :
             u \in permissionBus'[j] \/ u \in elicitationBus'[j] => slot'[j] = u
      BY <3>2, <3>3, <3>4 DEF PromptsHeld
    <3>6. \A u \in Turns : u # t => prompt'[u] = prompt[u] /\ shownTo'[u] = shownTo[u]
      BY <2>16 DEF AskPermission, TypeOK
    <3>7. shownTo'[t] = t /\ prompt'[t] \in {"none", "permission"}
      BY <3>2, <2>16 DEF AskPermission, TypeOK
    <3>8. BlockedRunIsAnswerable'
      BY <3>2, <3>3, <3>4, <3>6, <3>7 DEF PromptsHeld, BlockedRunIsAnswerable
    <3> QED
      BY <3>5, <3>8 DEF PromptsHeld
  <2>17. ASSUME NEW t \in Turns, AskQuestion(t) PROVE PromptsHeld'
    <3> DEFINE k == KeyOf[t]
    <3>1. pump[t] = "running" /\ prompt[t] = "none"
      BY <2>17 DEF AskQuestion, CanAsk
    <3>2. k \in Keys /\ slot[k] = t /\ sink[k] = t
      <4>1. host[t] = "streaming"
        BY <3>1 DEF WorkHeld
      <4> QED
        BY <4>1 DEF SlotHeld
    <3>3. \A j \in Keys, u \in Turns :
             u \in elicitationBus'[j] <=> u \in elicitationBus[j] \/ (j = k /\ u = t)
      BY <3>2, <2>17 DEF AskQuestion, TypeOK
    <3>4. UNCHANGED <<slot, sink, permissionBus, pump>>
      BY <2>17 DEF AskQuestion, routerVars
    <3>5. \A j \in Keys, u \in Turns :
             u \in permissionBus'[j] \/ u \in elicitationBus'[j] => slot'[j] = u
      BY <3>2, <3>3, <3>4 DEF PromptsHeld
    <3>6. \A u \in Turns : u # t => prompt'[u] = prompt[u] /\ shownTo'[u] = shownTo[u]
      BY <2>17 DEF AskQuestion, TypeOK
    <3>7. shownTo'[t] = t /\ prompt'[t] \in {"none", "question"}
      BY <3>2, <2>17 DEF AskQuestion, TypeOK
    <3>8. BlockedRunIsAnswerable'
      BY <3>2, <3>3, <3>4, <3>6, <3>7 DEF PromptsHeld, BlockedRunIsAnswerable
    <3> QED
      BY <3>5, <3>8 DEF PromptsHeld
  <2>18. ASSUME NEW t \in Turns, PermissionDecide(t) PROVE PromptsHeld'
    BY <2>18 DEF PermissionDecide, TypeOK, SlotHeld, WorkHeld, PromptsHeld,
       BlockedRunIsAnswerable, routerVars, agentVars, abortVars
  <2>19. ASSUME NEW t \in Turns, RespondElicitation(t) PROVE PromptsHeld'
    BY <2>19 DEF RespondElicitation, TypeOK, SlotHeld, WorkHeld, PromptsHeld,
       BlockedRunIsAnswerable, routerVars, agentVars, abortVars
  <2>20. ASSUME NEW a \in Aborts, AbortSignal(a) PROVE PromptsHeld'
    BY <2>20 DEF AbortSignal, Aborted, Woken, TypeOK, SlotHeld, WorkHeld, PromptsHeld,
       BlockedRunIsAnswerable, routerVars
  <2>21. ASSUME NEW a \in Aborts, AbortAwait(a) PROVE PromptsHeld'
    BY <2>21 DEF AbortAwait, TypeOK, SlotHeld, WorkHeld, PromptsHeld, BlockedRunIsAnswerable,
       routerVars, gatewayVars, turnVars, agentVars
  <2>22. ASSUME NEW a \in Aborts, AbortReturn(a) PROVE PromptsHeld'
    BY <2>22 DEF AbortReturn, TypeOK, SlotHeld, WorkHeld, PromptsHeld, BlockedRunIsAnswerable,
       routerVars, gatewayVars, turnVars, agentVars
  <2>23. CASE UNCHANGED vars
    BY <2>23 DEF TypeOK, SlotHeld, WorkHeld, PromptsHeld, BlockedRunIsAnswerable, vars,
       routerVars, gatewayVars, turnVars, agentVars, abortVars
  <2> QED
    BY <2>1, <2>2, <2>3, <2>4, <2>5, <2>6, <2>7, <2>8, <2>9, <2>10, <2>11, <2>12, <2>13, <2>14,
       <2>15, <2>16, <2>17, <2>18, <2>19, <2>20, <2>21, <2>22, <2>23 DEF Next
<1> QED
  BY <1>1, <1>2, TypeCorrect, SlotHeldHolds, WorkHeldHolds, PTL DEF Spec

\* A blocked run can always be unblocked by an answer, and a free session has no
\* prompt left over from an earlier turn.
THEOREM PromptsAreLive ==
    ASSUME ~EarlyLeave PROVE Spec => []PromptsFollowTheirTurn
<1>1. TypeOK /\ PromptsHeld => PromptsFollowTheirTurn
  BY NoTurnAssumption DEF TypeOK, PromptsHeld, NoStalePrompts, PromptsFollowTheirTurn
<1> QED
  BY <1>1, TypeCorrect, PromptsHeldHolds, PTL

\* MemoryHeld: the cached conversation and the one on disk move together.
LEMMA MemoryHeldHolds == ASSUME ~EarlyLeave PROVE Spec => []MemoryHeld
<1>1. Init => MemoryHeld
  BY NoTurnAssumption DEF Init, MemoryHeld
<1>2. TypeOK /\ Opened /\ SlotHeld /\ WorkHeld /\ MemoryHeld /\ [Next]_vars => MemoryHeld'
  <2> SUFFICES ASSUME TypeOK, Opened, SlotHeld, WorkHeld, MemoryHeld, [Next]_vars
               PROVE MemoryHeld'
    OBVIOUS
  <2> USE KeyOfAssumption, NoTurnAssumption
  <2>1. CASE DescribeServer
    BY <2>1 DEF DescribeServer, Swept, CleanAfter, Idle, TypeOK, Opened, SlotHeld, WorkHeld,
       MemoryHeld, gatewayVars, turnVars, agentVars, abortVars
  <2>2. ASSUME NEW k \in Keys, MarkDirty(k) PROVE MemoryHeld'
    BY <2>2 DEF MarkDirty, TypeOK, Opened, SlotHeld, WorkHeld, MemoryHeld, gatewayVars, turnVars,
       agentVars, abortVars
  <2>3. ASSUME NEW k \in Keys, Close(k) PROVE MemoryHeld'
    BY <2>3 DEF Close, TypeOK, Opened, SlotHeld, WorkHeld, MemoryHeld, gatewayVars, turnVars,
       agentVars, abortVars
  <2>4. ASSUME NEW t \in Turns, Submit(t) PROVE MemoryHeld'
    BY <2>4 DEF Submit, TypeOK, Opened, SlotHeld, WorkHeld, MemoryHeld, routerVars, gatewayVars,
       agentVars, abortVars
  <2>5. ASSUME NEW t \in Turns, RefuseBusy(t) PROVE MemoryHeld'
    BY <2>5 DEF RefuseBusy, Swept, CleanAfter, TypeOK, Opened, SlotHeld, WorkHeld, MemoryHeld,
       gatewayVars, agentVars, abortVars
  <2>6. ASSUME NEW t \in Turns, Begin(t) PROVE MemoryHeld'
    BY <2>6 DEF Begin, Swept, CleanAfter, Idle, TypeOK, Opened, SlotHeld, WorkHeld, MemoryHeld,
       agentVars, abortVars
  <2>7. ASSUME NEW t \in Turns, StreamEnds(t) PROVE MemoryHeld'
    BY <2>7 DEF StreamEnds, Unwind, Emptied, Rejected, TypeOK, Opened, SlotHeld, WorkHeld,
       MemoryHeld, agentVars, abortVars
  <2>8. ASSUME NEW t \in Turns, Leave(t) PROVE MemoryHeld'
    BY <2>8 DEF Leave, Unwind, Emptied, Rejected, TypeOK, Opened, SlotHeld, WorkHeld, MemoryHeld,
       agentVars, abortVars
  <2>9. ASSUME NEW t \in Turns, Drained(t) PROVE MemoryHeld'
    BY <2>9 DEF Drained, TypeOK, Opened, SlotHeld, WorkHeld, MemoryHeld, routerVars, agentVars,
       abortVars
  <2>10. ASSUME NEW t \in Turns, Created(t) PROVE MemoryHeld'
    <3> DEFINE k == KeyOf[t]
    <3>1. pump[t] = "creating" /\ k \in Keys /\ slot[k] = t
      BY <2>10 DEF Created, WorkHeld, SlotHeld
    <3>2. \A u \in Turns : u # t /\ KeyOf[u] = k => pump[u] \in {"off", "finished"}
      BY <3>1 DEF WorkHeld, SlotHeld, TypeOK
    <3>3. /\ record' = [record EXCEPT ![k] = t]
          /\ object' = [object EXCEPT ![t] = t]
          /\ memory' = [memory EXCEPT ![t] = transcript[k]]
          /\ pump' = [pump EXCEPT ![t] = "preparing"]
          /\ UNCHANGED <<base, transcript>>
      BY <2>10 DEF Created
    <3>4. \A j \in Keys :
             record'[j] # NoTurn =>
                KeyOf[record'[j]] = j /\ memory'[record'[j]] = transcript'[j]
      BY <3>1, <3>3 DEF MemoryHeld, TypeOK
    <3>5. \A u \in Turns : object'[u] # NoTurn => KeyOf[object'[u]] = KeyOf[u]
      BY <3>3 DEF MemoryHeld, TypeOK
    <3>6. \A u \in Turns : pump'[u] = "creating" => record'[KeyOf[u]] = NoTurn
      BY <3>1, <3>2, <3>3 DEF MemoryHeld, TypeOK
    <3>7. ASSUME NEW u \in Turns,
                 pump'[u] \in {"recreating", "preparing", "starting", "running"}
          PROVE /\ memory'[object'[u]] = transcript'[KeyOf[u]]
                /\ record'[KeyOf[u]] \in {object'[u], NoTurn}
      <4>1. CASE u = t
        BY <4>1, <3>1, <3>3 DEF TypeOK
      <4>2. CASE u # t
        <5>1. pump[u] = pump'[u] /\ object'[u] = object[u] /\ KeyOf[u] # k
          BY <4>2, <3>2, <3>3, <3>7 DEF TypeOK
        <5>2. object[u] \in Turns /\ KeyOf[object[u]] = KeyOf[u]
          BY <5>1, <3>7, NoTurnAssumption DEF MemoryHeld, Opened
        <5> QED
          BY <5>1, <5>2, <3>1, <3>3, <3>7 DEF MemoryHeld, TypeOK
      <4> QED
        BY <4>1, <4>2
    <3>8. \A u \in Turns : pump'[u] = "running" => base'[u] = transcript'[KeyOf[u]]
      BY <3>1, <3>3 DEF MemoryHeld, TypeOK
    <3> QED
      BY <3>4, <3>5, <3>6, <3>7, <3>8 DEF MemoryHeld
  <2>11. ASSUME NEW t \in Turns, Recreated(t) PROVE MemoryHeld'
    <3> DEFINE k == KeyOf[t]
    <3>1. pump[t] = "recreating" /\ k \in Keys /\ slot[k] = t
      BY <2>11 DEF Recreated, WorkHeld, SlotHeld
    <3>2. \A u \in Turns : u # t /\ KeyOf[u] = k => pump[u] \in {"off", "finished"}
      BY <3>1 DEF WorkHeld, SlotHeld, TypeOK
    <3>3. /\ record' = [record EXCEPT ![k] = IF @ = NoTurn THEN NoTurn ELSE t]
          /\ object' = [object EXCEPT ![t] = t]
          /\ memory' = [memory EXCEPT ![t] = memory[object[t]]]
          /\ pump' = [pump EXCEPT ![t] = "preparing"]
          /\ UNCHANGED <<base, transcript>>
      BY <2>11 DEF Recreated
    <3>0. memory[object[t]] = transcript[k]
      BY <3>1 DEF MemoryHeld
    <3>4. \A j \in Keys :
             record'[j] # NoTurn =>
                KeyOf[record'[j]] = j /\ memory'[record'[j]] = transcript'[j]
      BY <3>0, <3>1, <3>3 DEF MemoryHeld, TypeOK
    <3>5. \A u \in Turns : object'[u] # NoTurn => KeyOf[object'[u]] = KeyOf[u]
      BY <3>3 DEF MemoryHeld, TypeOK
    <3>6. \A u \in Turns : pump'[u] = "creating" => record'[KeyOf[u]] = NoTurn
      BY <3>1, <3>2, <3>3 DEF MemoryHeld, TypeOK
    <3>7. ASSUME NEW u \in Turns,
                 pump'[u] \in {"recreating", "preparing", "starting", "running"}
          PROVE /\ memory'[object'[u]] = transcript'[KeyOf[u]]
                /\ record'[KeyOf[u]] \in {object'[u], NoTurn}
      <4>1. CASE u = t
        BY <4>1, <3>0, <3>1, <3>3 DEF TypeOK
      <4>2. CASE u # t
        <5>1. pump[u] = pump'[u] /\ object'[u] = object[u] /\ KeyOf[u] # k
          BY <4>2, <3>2, <3>3, <3>7 DEF TypeOK
        <5>2. object[u] \in Turns /\ KeyOf[object[u]] = KeyOf[u]
          BY <5>1, <3>7, NoTurnAssumption DEF MemoryHeld, Opened
        <5> QED
          BY <5>1, <5>2, <3>1, <3>3, <3>7 DEF MemoryHeld, TypeOK
      <4> QED
        BY <4>1, <4>2
    <3>8. \A u \in Turns : pump'[u] = "running" => base'[u] = transcript'[KeyOf[u]]
      BY <3>1, <3>3 DEF MemoryHeld, TypeOK
    <3> QED
      BY <3>4, <3>5, <3>6, <3>7, <3>8 DEF MemoryHeld
  <2>12. ASSUME NEW t \in Turns, OpenFails(t) PROVE MemoryHeld'
    BY <2>12 DEF OpenFails, TypeOK, Opened, SlotHeld, WorkHeld, MemoryHeld, routerVars,
       gatewayVars, agentVars, abortVars
  <2>13. ASSUME NEW t \in Turns, Start(t) PROVE MemoryHeld'
    BY <2>13 DEF Start, TypeOK, Opened, SlotHeld, WorkHeld, MemoryHeld, routerVars, gatewayVars,
       abortVars
  <2>14. ASSUME NEW t \in Turns, Accept(t) PROVE MemoryHeld'
    BY <2>14 DEF Accept, TypeOK, Opened, SlotHeld, WorkHeld, MemoryHeld, routerVars, gatewayVars,
       abortVars
  <2>15. ASSUME NEW t \in Turns, RunEnds(t) PROVE MemoryHeld'
    <3> DEFINE k == KeyOf[t]
               o == object[t]
    <3>1. /\ pump[t] = "running" /\ k \in Keys /\ slot[k] = t
          /\ o \in Turns /\ KeyOf[o] = k
          /\ memory[o] = transcript[k] /\ base[t] = transcript[k]
          /\ record[k] \in {o, NoTurn}
      BY <2>15 DEF RunEnds, WorkHeld, SlotHeld, MemoryHeld, Opened
    <3>2. \A u \in Turns : u # t /\ KeyOf[u] = k => pump[u] \in {"off", "finished"}
      BY <3>1 DEF WorkHeld, SlotHeld, TypeOK
    <3>3. /\ pump' = [pump EXCEPT ![t] = "finished"]
          /\ UNCHANGED <<record, object, base>>
      BY <2>15 DEF RunEnds, routerVars
    <3>4. /\ memory'[o] = transcript'[k]
          /\ \A q \in Turns : q # o => memory'[q] = memory[q]
          /\ \A j \in Keys : j # k => transcript'[j] = transcript[j]
      <4>1. CASE /\ memory' = [memory EXCEPT ![o] = base[t] \cup {t}]
                 /\ transcript' = [transcript EXCEPT ![k] = transcript[k] \cup {t}]
        BY <4>1, <3>1 DEF TypeOK
      <4>2. CASE memory' = [memory EXCEPT ![o] = base[t]] /\ transcript' = transcript
        BY <4>2, <3>1 DEF TypeOK
      <4> QED
        BY <4>1, <4>2, <2>15 DEF RunEnds
    <3>5. ASSUME NEW j \in Keys, record'[j] # NoTurn
          PROVE KeyOf[record'[j]] = j /\ memory'[record'[j]] = transcript'[j]
      <4>1. CASE j = k
        BY <4>1, <3>1, <3>3, <3>4, <3>5
      <4>2. CASE j # k
        <5>1. record[j] \in Turns /\ KeyOf[record[j]] = j /\ memory[record[j]] = transcript[j]
          BY <3>3, <3>5 DEF MemoryHeld, TypeOK
        <5> QED
          BY <5>1, <4>2, <3>1, <3>3, <3>4
      <4> QED
        BY <4>1, <4>2
    <3>6. \A u \in Turns : pump'[u] \notin {"off", "finished"} =>
             u # t /\ KeyOf[u] # k /\ pump[u] = pump'[u]
      BY <3>2, <3>3 DEF TypeOK
    <3>7. ASSUME NEW u \in Turns,
                 pump'[u] \in {"recreating", "preparing", "starting", "running"}
          PROVE /\ memory'[object'[u]] = transcript'[KeyOf[u]]
                /\ record'[KeyOf[u]] \in {object'[u], NoTurn}
      <4>1. KeyOf[u] # k /\ pump[u] = pump'[u]
        BY <3>6, <3>7
      <4>2. object[u] \in Turns /\ KeyOf[object[u]] = KeyOf[u]
        BY <4>1, <3>7, NoTurnAssumption DEF MemoryHeld, Opened
      <4> QED
        BY <4>1, <4>2, <3>1, <3>3, <3>4, <3>7 DEF MemoryHeld
    <3>8. \A u \in Turns : pump'[u] = "running" => base'[u] = transcript'[KeyOf[u]]
      BY <3>3, <3>4, <3>6 DEF MemoryHeld, TypeOK
    <3>9. \A u \in Turns :
             /\ object'[u] # NoTurn => KeyOf[object'[u]] = KeyOf[u]
             /\ pump'[u] = "creating" => record'[KeyOf[u]] = NoTurn
      BY <3>3, <3>6 DEF MemoryHeld
    <3> QED
      BY <3>5, <3>7, <3>8, <3>9 DEF MemoryHeld
  <2>16. ASSUME NEW t \in Turns, AskPermission(t) PROVE MemoryHeld'
    BY <2>16 DEF AskPermission, CanAsk, TypeOK, Opened, SlotHeld, WorkHeld, MemoryHeld,
       routerVars, agentVars, abortVars
  <2>17. ASSUME NEW t \in Turns, AskQuestion(t) PROVE MemoryHeld'
    BY <2>17 DEF AskQuestion, CanAsk, TypeOK, Opened, SlotHeld, WorkHeld, MemoryHeld, routerVars,
       agentVars, abortVars
  <2>18. ASSUME NEW t \in Turns, PermissionDecide(t) PROVE MemoryHeld'
    BY <2>18 DEF PermissionDecide, TypeOK, Opened, SlotHeld, WorkHeld, MemoryHeld, routerVars,
       agentVars, abortVars
  <2>19. ASSUME NEW t \in Turns, RespondElicitation(t) PROVE MemoryHeld'
    BY <2>19 DEF RespondElicitation, TypeOK, Opened, SlotHeld, WorkHeld, MemoryHeld, routerVars,
       agentVars, abortVars
  <2>20. ASSUME NEW a \in Aborts, AbortSignal(a) PROVE MemoryHeld'
    BY <2>20 DEF AbortSignal, Aborted, Woken, TypeOK, Opened, SlotHeld, WorkHeld, MemoryHeld,
       routerVars
  <2>21. ASSUME NEW a \in Aborts, AbortAwait(a) PROVE MemoryHeld'
    BY <2>21 DEF AbortAwait, TypeOK, Opened, SlotHeld, WorkHeld, MemoryHeld, routerVars,
       gatewayVars, turnVars, agentVars
  <2>22. ASSUME NEW a \in Aborts, AbortReturn(a) PROVE MemoryHeld'
    BY <2>22 DEF AbortReturn, TypeOK, Opened, SlotHeld, WorkHeld, MemoryHeld, routerVars,
       gatewayVars, turnVars, agentVars
  <2>23. CASE UNCHANGED vars
    BY <2>23 DEF TypeOK, Opened, SlotHeld, WorkHeld, MemoryHeld, vars, routerVars, gatewayVars,
       turnVars, agentVars, abortVars
  <2> QED
    BY <2>1, <2>2, <2>3, <2>4, <2>5, <2>6, <2>7, <2>8, <2>9, <2>10, <2>11, <2>12, <2>13, <2>14,
       <2>15, <2>16, <2>17, <2>18, <2>19, <2>20, <2>21, <2>22, <2>23 DEF Next
<1> QED
  BY <1>1, <1>2, TypedAndOpened, SlotHeldHolds, WorkHeldHolds, PTL DEF Spec

\* SessionTurns implements Conversation: the router may sweep, close and rebuild the
\* session object at any moment, the talk stays serial and complete.
THEOREM TalkIsImplemented == ASSUME ~EarlyLeave PROVE Spec => ImplementsConversation
<1> USE KeyOfAssumption, NoTurnAssumption
<1>1. Init => Talk!Init
  BY DEF Init, Talk!Init, Statuses
<1>2. TypeOK /\ SlotHeld /\ WorkHeld /\ MemoryHeld /\ [Next]_vars => [Talk!Next]_(Talk!vars)
  <2> SUFFICES ASSUME TypeOK, SlotHeld, WorkHeld, MemoryHeld, [Next]_vars
               PROVE [Talk!Next]_(Talk!vars)
    OBVIOUS
  <2>1. CASE DescribeServer
    BY <2>1 DEF DescribeServer, Swept, CleanAfter, Idle, TypeOK, SlotHeld, WorkHeld, MemoryHeld,
       Statuses, Talk!vars, Talk!Next, Talk!Run, Talk!Finish, Talk!GiveUp, gatewayVars, turnVars,
       agentVars, abortVars
  <2>2. ASSUME NEW k \in Keys, MarkDirty(k) PROVE [Talk!Next]_(Talk!vars)
    BY <2>2 DEF MarkDirty, TypeOK, SlotHeld, WorkHeld, MemoryHeld, Statuses, Talk!vars, Talk!Next,
       Talk!Run, Talk!Finish, Talk!GiveUp, gatewayVars, turnVars, agentVars, abortVars
  <2>3. ASSUME NEW k \in Keys, Close(k) PROVE [Talk!Next]_(Talk!vars)
    BY <2>3 DEF Close, TypeOK, SlotHeld, WorkHeld, MemoryHeld, Statuses, Talk!vars, Talk!Next,
       Talk!Run, Talk!Finish, Talk!GiveUp, gatewayVars, turnVars, agentVars, abortVars
  <2>4. ASSUME NEW t \in Turns, Submit(t) PROVE [Talk!Next]_(Talk!vars)
    BY <2>4 DEF Submit, TypeOK, SlotHeld, WorkHeld, MemoryHeld, Statuses, Talk!vars, Talk!Next,
       Talk!Run, Talk!Finish, Talk!GiveUp, routerVars, gatewayVars, agentVars, abortVars
  <2>5. ASSUME NEW t \in Turns, RefuseBusy(t) PROVE [Talk!Next]_(Talk!vars)
    <3>1. pump[t] = "off" /\ host[t] = "refreshing" /\ pump'[t] = "off" /\ host'[t] = "busy"
      BY <2>5 DEF RefuseBusy, SlotHeld, TypeOK
    <3>2. Statuses[t] = "waiting" /\ Statuses'[t] = "over"
      BY <3>1 DEF Statuses
    <3>3. \A u \in Turns : u # t => Statuses'[u] = Statuses[u]
      BY <2>5 DEF RefuseBusy, Statuses, TypeOK
    <3>4. Statuses' = [Statuses EXCEPT ![t] = "over"]
      BY <3>2, <3>3 DEF Statuses
    <3>5. UNCHANGED <<base, transcript>>
      BY <2>5 DEF RefuseBusy, agentVars
    <3> QED
      BY <3>2, <3>4, <3>5 DEF Talk!Next, Talk!GiveUp
  <2>6. ASSUME NEW t \in Turns, Begin(t) PROVE [Talk!Next]_(Talk!vars)
    BY <2>6 DEF Begin, Swept, CleanAfter, Idle, TypeOK, SlotHeld, WorkHeld, MemoryHeld, Statuses,
       Talk!vars, Talk!Next, Talk!Run, Talk!Finish, Talk!GiveUp, agentVars, abortVars
  <2>7. ASSUME NEW t \in Turns, StreamEnds(t) PROVE [Talk!Next]_(Talk!vars)
    BY <2>7 DEF StreamEnds, Unwind, Emptied, Rejected, TypeOK, SlotHeld, WorkHeld, MemoryHeld,
       Statuses, Talk!vars, Talk!Next, Talk!Run, Talk!Finish, Talk!GiveUp, agentVars, abortVars
  <2>8. ASSUME NEW t \in Turns, Leave(t) PROVE [Talk!Next]_(Talk!vars)
    BY <2>8 DEF Leave, Unwind, Emptied, Rejected, TypeOK, SlotHeld, WorkHeld, MemoryHeld,
       Statuses, Talk!vars, Talk!Next, Talk!Run, Talk!Finish, Talk!GiveUp, agentVars, abortVars
  <2>9. ASSUME NEW t \in Turns, Drained(t) PROVE [Talk!Next]_(Talk!vars)
    BY <2>9 DEF Drained, TypeOK, SlotHeld, WorkHeld, MemoryHeld, Statuses, Talk!vars, Talk!Next,
       Talk!Run, Talk!Finish, Talk!GiveUp, routerVars, agentVars, abortVars
  <2>10. ASSUME NEW t \in Turns, Created(t) PROVE [Talk!Next]_(Talk!vars)
    BY <2>10 DEF Created, TypeOK, SlotHeld, WorkHeld, MemoryHeld, Statuses, Talk!vars, Talk!Next,
       Talk!Run, Talk!Finish, Talk!GiveUp, gatewayVars, abortVars
  <2>11. ASSUME NEW t \in Turns, Recreated(t) PROVE [Talk!Next]_(Talk!vars)
    BY <2>11 DEF Recreated, TypeOK, SlotHeld, WorkHeld, MemoryHeld, Statuses, Talk!vars,
       Talk!Next, Talk!Run, Talk!Finish, Talk!GiveUp, gatewayVars, abortVars
  <2>12. ASSUME NEW t \in Turns, OpenFails(t) PROVE [Talk!Next]_(Talk!vars)
    <3>1. pump[t] \notin {"running", "finished"} /\ pump'[t] = "finished" /\ host[t] = "streaming"
      BY <2>12 DEF OpenFails, WorkHeld, TypeOK
    <3>2. Statuses[t] = "waiting" /\ Statuses'[t] = "over"
      BY <3>1 DEF Statuses
    <3>3. \A u \in Turns : u # t => Statuses'[u] = Statuses[u]
      BY <2>12 DEF OpenFails, Statuses, TypeOK
    <3>4. Statuses' = [Statuses EXCEPT ![t] = "over"]
      BY <3>2, <3>3 DEF Statuses
    <3>5. UNCHANGED <<base, transcript>>
      BY <2>12 DEF OpenFails, agentVars
    <3> QED
      BY <3>2, <3>4, <3>5 DEF Talk!Next, Talk!GiveUp
  <2>13. ASSUME NEW t \in Turns, Start(t) PROVE [Talk!Next]_(Talk!vars)
    BY <2>13 DEF Start, TypeOK, SlotHeld, WorkHeld, MemoryHeld, Statuses, Talk!vars, Talk!Next,
       Talk!Run, Talk!Finish, Talk!GiveUp, routerVars, gatewayVars, abortVars
  <2>14. ASSUME NEW t \in Turns, Accept(t) PROVE [Talk!Next]_(Talk!vars)
    <3>1. /\ pump[t] = "starting" /\ slot[KeyOf[t]] = t /\ host[t] = "streaming"
          /\ base' = [base EXCEPT ![t] = transcript[KeyOf[t]]]
      BY <2>14 DEF Accept, WorkHeld, SlotHeld, MemoryHeld
    <3>2. \A u \in Turns : KeyOf[u] = KeyOf[t] => pump[u] # "running"
      BY <3>1 DEF WorkHeld, SlotHeld
    <3>3. /\ Statuses[t] = "waiting"
          /\ Statuses' = [Statuses EXCEPT ![t] = "running"]
          /\ \A u \in Turns : KeyOf[u] = KeyOf[t] => Statuses[u] # "running"
      BY <3>1, <3>2, <2>14 DEF Accept, Statuses, TypeOK
    <3>4. UNCHANGED transcript
      BY <2>14 DEF Accept
    <3> QED
      BY <3>1, <3>3, <3>4 DEF Talk!Next, Talk!Run
  <2>15. ASSUME NEW t \in Turns, RunEnds(t) PROVE [Talk!Next]_(Talk!vars)
    <3>1. Statuses[t] = "running" /\ Statuses' = [Statuses EXCEPT ![t] = "over"]
      BY <2>15 DEF RunEnds, Statuses, TypeOK
    <3>2. /\ \/ transcript' = [transcript EXCEPT ![KeyOf[t]] = @ \cup {t}]
             \/ UNCHANGED transcript
          /\ UNCHANGED base
      BY <2>15 DEF RunEnds
    <3> QED
      BY <3>1, <3>2 DEF Talk!Next, Talk!Finish
  <2>16. ASSUME NEW t \in Turns, AskPermission(t) PROVE [Talk!Next]_(Talk!vars)
    BY <2>16 DEF AskPermission, CanAsk, TypeOK, SlotHeld, WorkHeld, MemoryHeld, Statuses,
       Talk!vars, Talk!Next, Talk!Run, Talk!Finish, Talk!GiveUp, routerVars, agentVars, abortVars
  <2>17. ASSUME NEW t \in Turns, AskQuestion(t) PROVE [Talk!Next]_(Talk!vars)
    BY <2>17 DEF AskQuestion, CanAsk, TypeOK, SlotHeld, WorkHeld, MemoryHeld, Statuses, Talk!vars,
       Talk!Next, Talk!Run, Talk!Finish, Talk!GiveUp, routerVars, agentVars, abortVars
  <2>18. ASSUME NEW t \in Turns, PermissionDecide(t) PROVE [Talk!Next]_(Talk!vars)
    BY <2>18 DEF PermissionDecide, TypeOK, SlotHeld, WorkHeld, MemoryHeld, Statuses, Talk!vars,
       Talk!Next, Talk!Run, Talk!Finish, Talk!GiveUp, routerVars, agentVars, abortVars
  <2>19. ASSUME NEW t \in Turns, RespondElicitation(t) PROVE [Talk!Next]_(Talk!vars)
    BY <2>19 DEF RespondElicitation, TypeOK, SlotHeld, WorkHeld, MemoryHeld, Statuses, Talk!vars,
       Talk!Next, Talk!Run, Talk!Finish, Talk!GiveUp, routerVars, agentVars, abortVars
  <2>20. ASSUME NEW a \in Aborts, AbortSignal(a) PROVE [Talk!Next]_(Talk!vars)
    BY <2>20 DEF AbortSignal, Aborted, Woken, TypeOK, SlotHeld, WorkHeld, MemoryHeld, Statuses,
       Talk!vars, Talk!Next, Talk!Run, Talk!Finish, Talk!GiveUp, routerVars
  <2>21. ASSUME NEW a \in Aborts, AbortAwait(a) PROVE [Talk!Next]_(Talk!vars)
    BY <2>21 DEF AbortAwait, TypeOK, SlotHeld, WorkHeld, MemoryHeld, Statuses, Talk!vars,
       Talk!Next, Talk!Run, Talk!Finish, Talk!GiveUp, routerVars, gatewayVars, turnVars, agentVars
  <2>22. ASSUME NEW a \in Aborts, AbortReturn(a) PROVE [Talk!Next]_(Talk!vars)
    BY <2>22 DEF AbortReturn, TypeOK, SlotHeld, WorkHeld, MemoryHeld, Statuses, Talk!vars,
       Talk!Next, Talk!Run, Talk!Finish, Talk!GiveUp, routerVars, gatewayVars, turnVars, agentVars
  <2>23. CASE UNCHANGED vars
    BY <2>23 DEF TypeOK, SlotHeld, WorkHeld, MemoryHeld, Statuses, Talk!vars, Talk!Next, Talk!Run,
       Talk!Finish, Talk!GiveUp, vars, routerVars, gatewayVars, turnVars, agentVars, abortVars
  <2> QED
    BY <2>1, <2>2, <2>3, <2>4, <2>5, <2>6, <2>7, <2>8, <2>9, <2>10, <2>11, <2>12, <2>13, <2>14,
       <2>15, <2>16, <2>17, <2>18, <2>19, <2>20, <2>21, <2>22, <2>23 DEF Next
<1> QED
  BY <1>1, <1>2, TypeCorrect, SlotHeldHolds, WorkHeldHolds, MemoryHeldHolds, PTL
     DEF Spec, ImplementsConversation, Talk!Spec
=============================================================================
