--------------------------- MODULE ModelRequestProofs --------------------------
(***************************************************************************)
(* Theorems about ModelRequest, for any number of providers, any limits of *)
(* the retries and answers of any length.                                  *)
(*                                                                         *)
(* Quiet is inductive: a stream begins only while the caller has read      *)
(* nothing, so each step is a step of ModelCall.  An abort is seen only in *)
(* phases that await (StoppedOrAwaiting).  Books and Budget are inductive: *)
(* every stream is paid for by its provider's share of zero-usage attempts *)
(* or by a transient retry, every request by its stream.                   *)
(***************************************************************************)
EXTENDS ModelRequest, Integers, TLAPS

USE DEF vars, routerVars, observed, streamVars, counters

-----------------------------------------------------------------------------
(* Types *)

Flags ==
    /\ aborted \in BOOLEAN /\ accounted \in BOOLEAN
    /\ seen \in BOOLEAN /\ told \in BOOLEAN /\ finished \in BOOLEAN /\ billed \in BOOLEAN
    /\ over \in BOOLEAN

Numbers ==
    /\ phase \in Awaiting \cup Settled \cup {"decided", "noticed"}
    /\ attempt \in 1..Attempts /\ zero \in Nat /\ transient \in 0..TransientMax
    /\ surfaced \in Seq(0..AnswerPieces)
    /\ error \in Errors \cup {"none"}
    /\ tries \in 0..MaxStreamRetries
    /\ at \in 0..AnswerPieces /\ given \in 0..AnswerPieces /\ partial \in Nat
    /\ requests \in Nat /\ streams \in Nat

LEMMA Parts == TypeOK <=> Flags /\ Numbers
  BY Zenon DEF TypeOK, Flags, Numbers

LEMMA FlagsStep == ASSUME Flags, [Next]_vars PROVE Flags' 
<1>1. CASE Abort
  BY <1>1, Zenon DEF Abort, Flags
<1>2. CASE Stop
  BY <1>2, Zenon DEF Stop, Flags
<1>3. CASE Responds
  BY <1>3, Zenon DEF Responds, Flags
<1>4. CASE Unreachable
  BY <1>4, Zenon DEF Unreachable, Flags
<1>5. CASE Refuses
  BY <1>5, Zenon DEF Refuses, Tell, Flags
<1>6. CASE ErrorEvent
  BY <1>6, Zenon DEF ErrorEvent, Tell, Flags
<1>7. CASE Piece
  BY <1>7, Zenon DEF Piece, Flags
<1>8. CASE MessageEnd
  BY <1>8, Zenon DEF MessageEnd, Flags
<1>9. CASE StreamEnds
  BY <1>9, Zenon DEF StreamEnds, Flags
<1>10. CASE StreamBreaks
  BY <1>10, Zenon DEF StreamBreaks, Substantial, Carried, Flags
<1>11. CASE StreamFails
  BY <1>11, Zenon DEF StreamFails, Flags
<1>12. CASE Resend
  BY <1>12, Zenon DEF Resend, Flags
<1>13. CASE Begin
  BY <1>13, Zenon DEF Begin, Stream, Flags
<1>14. CASE OverBudget
  BY <1>14, Zenon DEF OverBudget, Flags
<1>15. CASE EndNotice
  BY <1>15, Zenon DEF EndNotice, Flags
<1>16. CASE FallBack
  BY <1>16, Zenon DEF FallBack, Stream, Eligible, Flags
<1>17. CASE BackOff
  BY <1>17, Zenon DEF BackOff, Eligible, Flags
<1>18. CASE RetryEmpty
  BY <1>18, Zenon DEF RetryEmpty, EmptyAnswer, Flags
<1>19. CASE Again
  BY <1>19, Zenon DEF Again, Stream, Flags
<1>20. CASE Surrender
  BY <1>20, Zenon DEF Surrender, Eligible, Flags
<1>21. CASE Deliver
  BY <1>21, Zenon DEF Deliver, EmptyAnswer, Flags
<1>22. CASE UNCHANGED vars
  BY <1>22, Zenon DEF Flags
<1> QED
  BY <1>1, <1>2, <1>3, <1>4, <1>5, <1>6, <1>7, <1>8, <1>9, <1>10, <1>11, <1>12,
     <1>13, <1>14, <1>15, <1>16, <1>17, <1>18, <1>19, <1>20, <1>21, <1>22 DEF Next,
     Provider, Router

LEMMA NumbersStep == ASSUME Numbers, [Next]_vars PROVE Numbers'
<1> USE CallAssumption DEF Numbers, Awaiting, Settled, Errors, MaxStreamRetries
<1>1. CASE Abort
  BY <1>1 DEF Abort
<1>2. CASE Stop
  BY <1>2 DEF Stop
<1>3. CASE Responds
  BY <1>3 DEF Responds
<1>4. CASE Unreachable
  BY <1>4 DEF Unreachable
<1>5. CASE Refuses
  BY <1>5 DEF Refuses, Tell
<1>6. CASE ErrorEvent
  BY <1>6 DEF ErrorEvent, Tell
<1>7. CASE Piece
  BY <1>7 DEF Piece
<1>8. CASE MessageEnd
  BY <1>8 DEF MessageEnd
<1>9. CASE StreamEnds
  BY <1>9 DEF StreamEnds
<1>10. CASE StreamBreaks
  BY <1>10 DEF StreamBreaks, Substantial, Carried
<1>11. CASE StreamFails
  BY <1>11 DEF StreamFails
<1>12. CASE Resend
  BY <1>12 DEF Resend
<1>13. CASE Begin
  BY <1>13 DEF Begin, Stream
<1>14. CASE OverBudget
  BY <1>14 DEF OverBudget
<1>15. CASE EndNotice
  BY <1>15 DEF EndNotice
<1>16. CASE FallBack
  BY <1>16 DEF FallBack, Stream, Eligible
<1>17. CASE BackOff
  BY <1>17 DEF BackOff, Eligible
<1>18. CASE RetryEmpty
  BY <1>18 DEF RetryEmpty, EmptyAnswer
<1>19. CASE Again
  BY <1>19 DEF Again, Stream
<1>20. CASE Surrender
  BY <1>20 DEF Surrender, Eligible
<1>21. CASE Deliver
  BY <1>21 DEF Deliver, EmptyAnswer
<1>22. CASE UNCHANGED vars
  BY <1>22
<1> QED
  BY <1>1, <1>2, <1>3, <1>4, <1>5, <1>6, <1>7, <1>8, <1>9, <1>10, <1>11, <1>12,
     <1>13, <1>14, <1>15, <1>16, <1>17, <1>18, <1>19, <1>20, <1>21, <1>22 DEF Next,
     Provider, Router

\* The state of a call keeps its type.
THEOREM TypeCorrect == Spec => []TypeOK
<1>1. Init => Flags
  BY Zenon DEF Init, Flags
<1>2. Init => Numbers
  BY CallAssumption DEF Init, Numbers, Awaiting, Settled, Errors, MaxStreamRetries
<1>3. Flags /\ [Next]_vars => Flags'
  BY FlagsStep
<1>4. Numbers /\ [Next]_vars => Numbers'
  BY NumbersStep
<1> QED
  BY <1>1, <1>2, <1>3, <1>4, Parts, PTL DEF Spec

-----------------------------------------------------------------------------
(* One answer of one provider *)

\* Between two streams the caller has read nothing, and only a refused sub-agent reads the
\* router's own words.
Quiet ==
    /\ phase \in {"routing", "backoff"} => ~seen
    /\ phase = "routing" => surfaced = <<>>
    /\ phase = "noticed" => surfaced = <<0>>
    /\ surfaced = <<0>> => phase \in {"noticed", "answered"}

\* The notice of the router is no piece of an answer.
LEMMA PieceIsNoNotice ==
    ASSUME NEW s \in Seq(0..AnswerPieces), NEW n \in Nat, n # 0
    PROVE  Append(s, n) # <<0>>
<1>1. Len(Append(s, n)) = Len(s) + 1
  OBVIOUS
<1>2. Append(s, n)[Len(s) + 1] = n
  OBVIOUS
<1>3. Len(<<0>>) = 1 /\ <<0>>[1] = 0
  OBVIOUS
<1> QED
  BY <1>1, <1>2, <1>3

LEMMA QuietStep == ASSUME Flags, Numbers, Quiet, [Next]_vars PROVE Quiet'
<1>a. at \in Nat /\ surfaced \in Seq(0..AnswerPieces)
  BY DEF Numbers
<1>1. CASE Abort
  BY <1>1 DEF Abort, Quiet, Awaiting
<1>2. CASE Stop
  BY <1>2 DEF Stop, Quiet, Awaiting
<1>3. CASE Responds
  BY <1>3 DEF Responds, Quiet, Awaiting
<1>4. CASE Unreachable
  BY <1>4 DEF Unreachable, Quiet, Awaiting
<1>5. CASE Refuses
  BY <1>5 DEF Refuses, Tell, Quiet, Awaiting
<1>6. CASE ErrorEvent
  BY <1>6 DEF ErrorEvent, Tell, Quiet, Awaiting
<1>7. CASE Piece
  BY <1>7, <1>a, PieceIsNoNotice DEF Piece, Quiet, Awaiting
<1>8. CASE MessageEnd
  BY <1>8 DEF MessageEnd, Quiet, Awaiting
<1>9. CASE StreamEnds
  BY <1>9 DEF StreamEnds, Quiet, Awaiting
<1>10. CASE StreamBreaks
  BY <1>10 DEF StreamBreaks, Substantial, Carried, Quiet, Awaiting
<1>11. CASE StreamFails
  BY <1>11 DEF StreamFails, Quiet, Awaiting
<1>12. CASE Resend
  BY <1>12 DEF Resend, Quiet, Awaiting
<1>13. CASE Begin
  BY <1>13 DEF Begin, Stream, Quiet, Awaiting
<1>14. CASE OverBudget
  BY <1>14 DEF OverBudget, Quiet, Awaiting
<1>15. CASE EndNotice
  BY <1>15 DEF EndNotice, Quiet, Awaiting
<1>16. CASE FallBack
  BY <1>16 DEF FallBack, Stream, Eligible, Quiet, Awaiting
<1>17. CASE BackOff
  BY <1>17 DEF BackOff, Eligible, Quiet, Awaiting
<1>18. CASE RetryEmpty
  BY <1>18 DEF RetryEmpty, EmptyAnswer, Quiet, Awaiting
<1>19. CASE Again
  BY <1>19 DEF Again, Stream, Quiet, Awaiting
<1>20. CASE Surrender
  BY <1>20 DEF Surrender, Eligible, Quiet, Awaiting
<1>21. CASE Deliver
  BY <1>21 DEF Deliver, EmptyAnswer, Quiet, Awaiting
<1>22. CASE UNCHANGED vars
  BY <1>22 DEF Quiet, Awaiting
<1> QED
  BY <1>1, <1>2, <1>3, <1>4, <1>5, <1>6, <1>7, <1>8, <1>9, <1>10, <1>11, <1>12,
     <1>13, <1>14, <1>15, <1>16, <1>17, <1>18, <1>19, <1>20, <1>21, <1>22 DEF Next,
     Provider, Router

LEMMA QuietHolds == Spec => []Quiet
<1>1. Init => Quiet
  BY DEF Init, Quiet
<1> QED
  BY <1>1, QuietStep, TypeCorrect, Parts, PTL DEF Spec


\* What the caller reads of a call is an answer of one provider, which only grows until
\* the call settles.
THEOREM OneAnswer == Spec => ImplementsModelCall
<1> DEFINE Outcome == IF phase \in Settled THEN phase ELSE "open"
<1>1. Init => Call!Init
  BY DEF Init, Call!Init, Speaker, Settled
<1>2. ASSUME Flags, Numbers, Quiet, [Next]_vars
      PROVE  [Call!Next]_(Call!vars)
  <2> USE DEF Speaker, Settled, Awaiting, Quiet, Call!vars
  <2> SUFFICES ASSUME Next PROVE Call!Next \/ UNCHANGED <<Speaker, surfaced, Outcome>>
    BY <1>2
  <2>a. /\ at \in 0..AnswerPieces /\ surfaced \in Seq(0..AnswerPieces)
        /\ attempt \in 1..Attempts /\ AnswerPieces \in Nat /\ Attempts \in Nat
    BY <1>2, CallAssumption DEF Numbers
  <2>b. ASSUME UNCHANGED <<surfaced, attempt, seen>>, phase \notin Settled, phase' \in Settled
        PROVE  Call!Next
    <3>1. Call!Settle(phase')
      BY <2>b DEF Call!Settle
    <3> QED
      BY <2>b, <3>1 DEF Call!Next, Call!Outcomes
  <2>1. CASE Abort
    BY <1>2, <2>1 DEF Abort
  <2>2. CASE Stop
    BY <1>2, <2>2, <2>b DEF Stop
  <2>3. CASE Responds
    BY <1>2, <2>3 DEF Responds
  <2>4. CASE Unreachable
    BY <1>2, <2>4 DEF Unreachable
  <2>5. CASE Refuses
    <3>1. CASE seen
      BY <2>5, <2>b, <3>1 DEF Refuses, Tell
    <3>2. CASE ~seen
      BY <2>5, <3>2 DEF Refuses, Tell
    <3> QED
      BY <3>1, <3>2
  <2>6. CASE ErrorEvent
    <3>1. CASE seen
      BY <2>6, <2>b, <3>1 DEF ErrorEvent, Tell
    <3>2. CASE ~seen
      BY <2>6, <3>2 DEF ErrorEvent, Tell
    <3> QED
      BY <3>1, <3>2
  <2>7. CASE Piece
    <3>1. CASE told
      BY <2>7, <2>b, <3>1 DEF Piece
    <3>2. CASE ~told
      <4>1. surfaced' = Append(surfaced, at + 1) /\ seen' /\ phase' = phase /\ attempt' = attempt
        BY <2>7, <3>2 DEF Piece
      <4>2. surfaced # <<0>> /\ surfaced' # <<0>>
        BY <1>2, <2>a, <2>7, <4>1, PieceIsNoNotice DEF Piece
      <4>3. Speaker \in {0, attempt} /\ Speaker' = attempt
        BY <4>1, <4>2
      <4>4. Call!Say(attempt, at + 1)
        BY <2>7, <4>1, <4>3 DEF Call!Say, Piece
      <4>5. attempt \in 1 .. Attempts + 1 /\ at + 1 \in 0..AnswerPieces
        BY <2>a, <2>7 DEF Piece
      <4> QED
        BY <4>4, <4>5 DEF Call!Next
    <3> QED
      BY <3>1, <3>2
  <2>8. CASE MessageEnd
    BY <1>2, <2>8 DEF MessageEnd
  <2>9. CASE StreamEnds
    BY <1>2, <2>9 DEF StreamEnds
  <2>10. CASE StreamBreaks
    BY <1>2, <2>10 DEF StreamBreaks, Substantial, Carried
  <2>11. CASE StreamFails
    BY <1>2, <2>11 DEF StreamFails
  <2>12. CASE Resend
    BY <1>2, <2>12 DEF Resend
  <2>13. CASE Begin
    BY <1>2, <2>13 DEF Begin, Stream
  <2>14. CASE OverBudget
    <3>1. surfaced = <<>> /\ ~seen /\ surfaced' = <<0>>
      BY <1>2, <2>14 DEF OverBudget
    <3>2. Call!Say(Attempts + 1, 0)
      BY <2>a, <2>14, <3>1 DEF Call!Say, OverBudget
    <3>3. Attempts + 1 \in 1 .. Attempts + 1 /\ 0 \in 0..AnswerPieces
      BY <2>a
    <3> QED
      BY <3>2, <3>3 DEF Call!Next
  <2>15. CASE EndNotice
    BY <1>2, <2>15, <2>b DEF EndNotice
  <2>16. CASE FallBack
    BY <1>2, <2>16 DEF FallBack, Stream, Eligible
  <2>17. CASE BackOff
    BY <1>2, <2>17 DEF BackOff, Eligible
  <2>18. CASE RetryEmpty
    BY <1>2, <2>18 DEF RetryEmpty, EmptyAnswer
  <2>19. CASE Again
    BY <1>2, <2>19 DEF Again, Stream
  <2>20. CASE Surrender
    BY <1>2, <2>20, <2>b DEF Surrender, Eligible
  <2>21. CASE Deliver
    BY <1>2, <2>21, <2>b DEF Deliver, EmptyAnswer
  <2> QED
    BY <2>1, <2>2, <2>3, <2>4, <2>5, <2>6, <2>7, <2>8, <2>9, <2>10, <2>11, <2>12,
       <2>13, <2>14, <2>15, <2>16, <2>17, <2>18, <2>19, <2>20, <2>21 DEF Next,
       Provider, Router
<1> QED
  BY <1>1, <1>2, TypeCorrect, Parts, QuietHolds, PTL DEF Spec, ImplementsModelCall, Call!Spec

-----------------------------------------------------------------------------
(* A stop is final *)

StoppedOrAwaiting == aborted => phase \in Awaiting \cup {"stopped"}

\* Once the signal has fired no request leaves and nothing of an answer arrives.
THEOREM StopsAreFinal == Spec => AbortIsFinal
<1> USE DEF StoppedOrAwaiting, Awaiting
<1>1. Init => StoppedOrAwaiting
  BY DEF Init
<1>2. ASSUME StoppedOrAwaiting, [Next]_vars
      PROVE  StoppedOrAwaiting' /\ (aborted => requests' = requests /\ surfaced' = surfaced)
  <2>1. CASE Abort
    BY <1>2, <2>1 DEF Abort
  <2>2. CASE Stop
    BY <1>2, <2>2 DEF Stop
  <2>3. CASE Responds
    BY <1>2, <2>3 DEF Responds
  <2>4. CASE Unreachable
    BY <1>2, <2>4 DEF Unreachable
  <2>5. CASE Refuses
    BY <1>2, <2>5 DEF Refuses, Tell
  <2>6. CASE ErrorEvent
    BY <1>2, <2>6 DEF ErrorEvent, Tell
  <2>7. CASE Piece
    BY <1>2, <2>7 DEF Piece
  <2>8. CASE MessageEnd
    BY <1>2, <2>8 DEF MessageEnd
  <2>9. CASE StreamEnds
    BY <1>2, <2>9 DEF StreamEnds
  <2>10. CASE StreamBreaks
    BY <1>2, <2>10 DEF StreamBreaks, Substantial, Carried
  <2>11. CASE StreamFails
    BY <1>2, <2>11 DEF StreamFails
  <2>12. CASE Resend
    BY <1>2, <2>12 DEF Resend
  <2>13. CASE Begin
    BY <1>2, <2>13 DEF Begin, Stream
  <2>14. CASE OverBudget
    BY <1>2, <2>14 DEF OverBudget
  <2>15. CASE EndNotice
    BY <1>2, <2>15 DEF EndNotice
  <2>16. CASE FallBack
    BY <1>2, <2>16 DEF FallBack, Stream, Eligible
  <2>17. CASE BackOff
    BY <1>2, <2>17 DEF BackOff, Eligible
  <2>18. CASE RetryEmpty
    BY <1>2, <2>18 DEF RetryEmpty, EmptyAnswer
  <2>19. CASE Again
    BY <1>2, <2>19 DEF Again, Stream
  <2>20. CASE Surrender
    BY <1>2, <2>20 DEF Surrender, Eligible
  <2>21. CASE Deliver
    BY <1>2, <2>21 DEF Deliver, EmptyAnswer
  <2>22. CASE UNCHANGED vars
    BY <1>2, <2>22
  <2> QED
    BY <1>2, <2>1, <2>2, <2>3, <2>4, <2>5, <2>6, <2>7, <2>8, <2>9, <2>10, <2>11, <2>12,
       <2>13, <2>14, <2>15, <2>16, <2>17, <2>18, <2>19, <2>20, <2>21, <2>22 DEF Next,
       Provider, Router
<1> QED
  BY <1>1, <1>2, PTL DEF Spec, AbortIsFinal

-----------------------------------------------------------------------------
(* What is accounted *)

Books ==
    /\ phase \notin Settled => ~accounted
    /\ told => error # "none"
    /\ phase = "failed" => (accounted <=> ~told)
    /\ phase = "answered" => (accounted <=> surfaced # <<0>>)
    /\ phase = "answered" => ~told
    /\ phase \in {"routing", "noticed"} => ~told

LEMMA BooksStep == ASSUME Flags, Numbers, Quiet, Books, [Next]_vars PROVE Books'
<1> USE DEF Flags, Settled, Quiet, Errors
<1>1. CASE Abort
  BY <1>1 DEF Abort, Books
<1>2. CASE Stop
  BY <1>2 DEF Stop, Books
<1>3. CASE Responds
  BY <1>3 DEF Responds, Books
<1>4. CASE Unreachable
  BY <1>4 DEF Unreachable, Books
<1>5. CASE Refuses
  BY <1>5 DEF Refuses, Tell, Books
<1>6. CASE ErrorEvent
  BY <1>6 DEF ErrorEvent, Tell, Books
<1>7. CASE Piece
  BY <1>7 DEF Piece, Books
<1>8. CASE MessageEnd
  BY <1>8 DEF MessageEnd, Books
<1>9. CASE StreamEnds
  BY <1>9 DEF StreamEnds, Books
<1>10. CASE StreamBreaks
  BY <1>10 DEF StreamBreaks, Substantial, Carried, Books
<1>11. CASE StreamFails
  BY <1>11 DEF StreamFails, Books
<1>12. CASE Resend
  BY <1>12 DEF Resend, Books
<1>13. CASE Begin
  BY <1>13 DEF Begin, Stream, Books
<1>14. CASE OverBudget
  BY <1>14 DEF OverBudget, Books
<1>15. CASE EndNotice
  BY <1>15 DEF EndNotice, Books
<1>16. CASE FallBack
  BY <1>16 DEF FallBack, Stream, Eligible, Books
<1>17. CASE BackOff
  BY <1>17 DEF BackOff, Eligible, Books
<1>18. CASE RetryEmpty
  BY <1>18 DEF RetryEmpty, EmptyAnswer, Books
<1>19. CASE Again
  BY <1>19 DEF Again, Stream, Books
<1>20. CASE Surrender
  BY <1>20 DEF Surrender, Eligible, Books
<1>21. CASE Deliver
  BY <1>21 DEF Deliver, EmptyAnswer, Books
<1>22. CASE UNCHANGED vars
  BY <1>22 DEF Books
<1> QED
  BY <1>1, <1>2, <1>3, <1>4, <1>5, <1>6, <1>7, <1>8, <1>9, <1>10, <1>11, <1>12,
     <1>13, <1>14, <1>15, <1>16, <1>17, <1>18, <1>19, <1>20, <1>21, <1>22 DEF Next,
     Provider, Router

\* A settled call is in the token statistics unless the caller left at an error event.
THEOREM CallsAreAccounted == Spec => []AccountedUnlessTold
<1>1. Init => Books
  BY DEF Init, Books, Settled
<1>2. Quiet /\ Books => AccountedUnlessTold
  BY DEF Quiet, Books, AccountedUnlessTold
<1> QED
  BY <1>1, <1>2, BooksStep, QuietHolds, TypeCorrect, Parts, PTL DEF Spec

-----------------------------------------------------------------------------
(* The budget of requests *)

\* The pass of the loop that a backoff leads to.
Ahead == IF phase = "backoff" THEN 1 ELSE 0

\* The requests the present stream may still send.
Left == IF phase \in {"asking", "reading"} THEN MaxStreamRetries - tries
        ELSE IF phase = "pausing" THEN MaxStreamRetries + 1 - tries ELSE 0

Budget ==
    /\ phase = "routing" => zero = 0
    /\ zero + Ahead <= ZeroUsageMax + transient
    /\ attempt < Attempts => zero + Ahead <= ZeroUsageMax
    /\ streams <= (attempt - 1) * ZeroUsageMax + zero
    /\ requests + Left <= (MaxStreamRetries + 1) * streams

LEMMA OneMore ==
    ASSUME NEW a \in Nat, NEW z \in Nat
    PROVE  (a - 1) * z + z = a * z /\ (a - 1) * z \in Int /\ a * z \in Int
  OBVIOUS

LEMMA NoMore ==
    ASSUME NEW a \in Nat \ {0}, NEW b \in Nat, a <= b, NEW z \in Nat
    PROVE  (a - 1) * z <= (b - 1) * z
  OBVIOUS

LEMMA BudgetStep == ASSUME Numbers, Budget, [Next]_vars PROVE Budget'
<1> DEFINE P == (attempt - 1) * ZeroUsageMax
<1>a. P \in Int /\ P + ZeroUsageMax = attempt * ZeroUsageMax
  BY CallAssumption, OneMore DEF Numbers
<1>b. /\ phase = "routing" => zero = 0
      /\ zero + Ahead <= ZeroUsageMax + transient
      /\ attempt < Attempts => zero + Ahead <= ZeroUsageMax
      /\ streams <= P + zero
      /\ requests + Left <= 3 * streams
  BY DEF Budget, MaxStreamRetries
<1>c. /\ attempt \in 1..Attempts /\ zero \in Nat /\ transient \in Nat /\ tries \in 0..2
      /\ requests \in Nat /\ streams \in Nat /\ ZeroUsageMax \in Nat \ {0}
  BY CallAssumption DEF Numbers, MaxStreamRetries
<1>d. SUFFICES /\ phase' = "routing" => zero' = 0
               /\ zero' + Ahead' <= ZeroUsageMax + transient'
               /\ attempt' < Attempts => zero' + Ahead' <= ZeroUsageMax
               /\ streams' <= (attempt' - 1) * ZeroUsageMax + zero'
               /\ requests' + Left' <= 3 * streams'
  BY DEF Budget, MaxStreamRetries
<1> HIDE DEF P
<1> USE DEF Ahead, Left, MaxStreamRetries

<1>1. CASE Abort
  BY <1>1, <1>b, <1>c DEF Abort, P
<1>2. CASE Stop
  BY <1>2, <1>b, <1>c DEF Stop, P
<1>3. CASE Responds
  BY <1>3, <1>b, <1>c DEF Responds, P
<1>4. CASE Unreachable
  BY <1>4, <1>b, <1>c DEF Unreachable, P
<1>5. CASE Refuses
  BY <1>5, <1>b, <1>c DEF Refuses, Tell, P
<1>6. CASE ErrorEvent
  BY <1>6, <1>b, <1>c DEF ErrorEvent, Tell, P
<1>7. CASE Piece
  BY <1>7, <1>b, <1>c DEF Piece, P
<1>8. CASE MessageEnd
  BY <1>8, <1>b, <1>c DEF MessageEnd, P
<1>9. CASE StreamEnds
  BY <1>9, <1>b, <1>c DEF StreamEnds, P
<1>10. CASE StreamBreaks
  BY <1>10, <1>b, <1>c DEF StreamBreaks, P
<1>11. CASE StreamFails
  BY <1>11, <1>b, <1>c DEF StreamFails, P
<1>12. CASE Resend
  BY <1>12, <1>b, <1>c DEF Resend, P
<1>13. CASE Begin
  BY <1>13, <1>b, <1>c DEF Begin, Stream, P
<1>14. CASE OverBudget
  BY <1>14, <1>b, <1>c DEF OverBudget, P
<1>15. CASE EndNotice
  BY <1>15, <1>b, <1>c DEF EndNotice, P
<1>16. CASE FallBack
  BY <1>16, <1>a, <1>b, <1>c DEF FallBack, Stream, Eligible
<1>17. CASE BackOff
  BY <1>17, <1>b, <1>c DEF BackOff, Eligible, P
<1>18. CASE RetryEmpty
  BY <1>18, <1>b, <1>c DEF RetryEmpty, P
<1>19. CASE Again
  BY <1>19, <1>b, <1>c DEF Again, Stream, P
<1>20. CASE Surrender
  BY <1>20, <1>b, <1>c DEF Surrender, Eligible, P
<1>21. CASE Deliver
  BY <1>21, <1>b, <1>c DEF Deliver, P
<1>22. CASE UNCHANGED vars
  BY <1>22, <1>b, <1>c DEF P
<1> QED
  BY <1>1, <1>2, <1>3, <1>4, <1>5, <1>6, <1>7, <1>8, <1>9, <1>10, <1>11, <1>12,
     <1>13, <1>14, <1>15, <1>16, <1>17, <1>18, <1>19, <1>20, <1>21, <1>22 DEF Next,
     Provider, Router

\* However the retries are combined, a call ends within its budget of requests.
THEOREM CallsAreBounded == Spec => []RequestsAreBounded
<1>1. Init => Budget
  BY CallAssumption DEF Init, Budget, Ahead, Left, MaxStreamRetries
<1>2. Numbers /\ Budget => RequestsAreBounded
  <2> SUFFICES ASSUME Numbers, Budget PROVE RequestsAreBounded
    OBVIOUS
  <2> DEFINE p == (attempt - 1) * ZeroUsageMax
             q == (Attempts - 1) * ZeroUsageMax
             r == Attempts * ZeroUsageMax
  <2>1. p \in Int /\ q \in Int /\ r \in Int /\ p <= q /\ q + ZeroUsageMax = r
    BY CallAssumption, NoMore, OneMore DEF Numbers
  <2>2. /\ zero \in Nat /\ transient \in 0..TransientMax /\ streams \in Nat /\ requests \in Nat
        /\ tries \in 0..2 /\ ZeroUsageMax \in Nat /\ TransientMax \in Nat
    BY CallAssumption DEF Numbers, MaxStreamRetries
  <2>3. zero <= ZeroUsageMax + transient
    BY <2>2 DEF Budget, Ahead
  <2>4. streams <= p + zero
    BY DEF Budget
  <2>5. requests <= 3 * streams
    BY <2>2 DEF Budget, Left, MaxStreamRetries
  <2>6. SUFFICES requests <= 3 * (r + TransientMax)
    BY DEF RequestsAreBounded, MaxStreamRetries
  <2> HIDE DEF p, q, r
  <2> QED
    BY <2>1, <2>2, <2>3, <2>4, <2>5
<1> QED
  BY <1>1, <1>2, BudgetStep, TypeCorrect, Parts, PTL DEF Spec
=============================================================================
