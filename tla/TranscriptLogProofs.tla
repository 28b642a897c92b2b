------------------------- MODULE TranscriptLogProofs ------------------------
(***************************************************************************)
(* Theorems about TranscriptLog, for any bounds.                           *)
(*                                                                         *)
(* Counted is inductive on its own: the entry being appended is the newest *)
(* of all, in its turn and in the writer's count, so the entries on file   *)
(* are ordered by sequence.  With it Whole is inductive: a writer at work  *)
(* has rejected nothing, so all messages of the current turn are on file   *)
(* before its result is.  With both, so is MemoryIsOnFile.                 *)
(***************************************************************************)
EXTENDS TranscriptLog, WellFoundedInduction, TLAPS

USE DEF fileVars, writerVars, turnVars, Appending

-----------------------------------------------------------------------------
(* The largest sequence on file *)

\* A bounded, not empty set of natural numbers has a largest element.
LEMMA LargestExists ==
    ASSUME NEW S \in SUBSET Nat, S # {}, NEW b \in Nat, \A s \in S : s <= b
    PROVE  \E n \in S : \A s \in S : s <= n
<1> DEFINE Bounds == {n \in Nat : \A s \in S : s <= n}
<1>1. Bounds # {} /\ Bounds \subseteq Nat
    OBVIOUS
<1>2. PICK n \in Bounds : \A k \in Bounds : ~(<<k, n>> \in OpToRel(<, Nat))
    BY <1>1, NatLessThanWellFounded, WFMin
<1>3. \A k \in Bounds : ~(k < n)
    BY <1>1, <1>2 DEF OpToRel
<1>4. n \in S
    <2>1. SUFFICES ASSUME n \notin S PROVE FALSE
        OBVIOUS
    <2>2. PICK s \in S : TRUE
        OBVIOUS
    <2>3. \A r \in S : r < n
        BY <2>1
    <2>4. n > 0 /\ n - 1 \in Nat
        BY <2>2, <2>3
    <2>5. n - 1 \in Bounds
        BY <2>3, <2>4
    <2> QED
        BY <1>3, <2>4, <2>5
<1> QED
    BY <1>4

Bounded == \E b \in Nat : \A e \in log : e.seq <= b

\* A resumed writer counts from the largest sequence that could be read.
LEMMA RestoredIsLargest ==
    ASSUME TypeOK, Bounded
    PROVE  Restored \in Nat /\ (\A e \in Readable : e.seq <= Restored)
<1>1. CASE Readable = {}
    BY <1>1 DEF Restored
<1>2. CASE Readable # {}
    <2> DEFINE S == {e.seq : e \in Readable}
    <2>1. Readable \subseteq log /\ \A e \in log : e.seq \in Nat
        BY DEF Readable, TypeOK, Entry
    <2>2. S \in SUBSET Nat /\ S # {}
        BY <1>2, <2>1
    <2>3. PICK b \in Nat : \A s \in S : s <= b
        BY <2>1 DEF Bounded
    <2>4. \E n \in S : \A s \in S : s <= n
        BY <2>2, <2>3, LargestExists
    <2>5. \E n \in S : \A e \in Readable : e.seq <= n
        BY <2>4
    <2>6. Restored \in S /\ \A e \in Readable : e.seq <= Restored
        BY <1>2, <2>5 DEF Restored
    <2> QED
        BY <2>2, <2>6
<1> QED
    BY <1>1, <1>2

-----------------------------------------------------------------------------
(* The file under an append *)

FileStep == WriteNothing \/ Land \/ Tear

\* What reaches the file is the entry being appended, what leaves it was the tail.
LEMMA FileSteps ==
    ASSUME TypeOK, FileStep
    PROVE  /\ log' \subseteq log \cup pending
           /\ log \ log' \subseteq tail
           /\ \A e \in log \ log' : e.turn \in spoilt'
           /\ spoilt \subseteq spoilt'
           /\ tail' \subseteq log' /\ tail' \subseteq tail \cup pending
           /\ size' \in Nat /\ size <= size'
           /\ torn' \in BOOLEAN
           /\ log' \subseteq Entry /\ spoilt' \subseteq Nat
<1>t. /\ log \subseteq Entry /\ pending \subseteq Entry /\ tail \subseteq log
      /\ spoilt \subseteq Nat /\ size \in Nat /\ torn \in BOOLEAN
    BY DEF TypeOK
<1>n. \A e \in Entry : e.turn \in Nat
    BY DEF Entry
<1>1. CASE WriteNothing
    BY <1>1, <1>t DEF WriteNothing
<1>2. CASE torn /\ (Land \/ Tear)
    <2>1. /\ log' = log \ tail /\ tail' = {} /\ size' = size /\ torn' \in BOOLEAN
          /\ spoilt' = spoilt \cup {e.turn : e \in pending \cup tail}
        BY <1>2 DEF Land, Tear, Spoil
    <2>2. \A e \in log \ log' : e.turn \in spoilt'
        BY <2>1
    <2>3. spoilt' \subseteq Nat
        BY <1>t, <1>n, <2>1
    <2>4. size' \in Nat /\ size <= size'
        BY <1>t, <2>1
    <2> QED
        BY <1>t, <2>1, <2>2, <2>3, <2>4
<1>3. CASE ~torn /\ (Land \/ Tear)
    <2>1. /\ spoilt' = spoilt /\ size' = size + 1 /\ torn' \in BOOLEAN
          /\ \/ log' = log /\ tail' = {}
             \/ log' = log \cup pending /\ tail' \in {{}, pending}
        BY <1>3 DEF Land, Tear
    <2>2. log \subseteq log' /\ log' \subseteq log \cup pending /\ log' \subseteq Entry
        BY <1>t, <2>1
    <2>3. tail' \subseteq log' /\ tail' \subseteq tail \cup pending
        BY <2>1
    <2>4. size' \in Nat /\ size <= size'
        BY <1>t, <2>1
    <2> QED
        BY <1>t, <2>1, <2>2, <2>3, <2>4
<1> QED
    BY <1>t, <1>1, <1>2, <1>3 DEF FileStep

\* Every step of the file is one of these.
LEMMA FileStepOf ==
    /\ Written => FileStep
    /\ Rejected => FileStep
    /\ Crash => FileStep
    /\ UNCHANGED fileVars => FileStep
BY DEF Written, Rejected, Crash, FileStep, WriteNothing

LEMMA AppendTypes == TypeOK /\ (Written \/ Rejected) => broken' \in BOOLEAN /\ faults' \in Nat
<1> SUFFICES ASSUME TypeOK, Written \/ Rejected PROVE broken' \in BOOLEAN /\ faults' \in Nat
    OBVIOUS
<1>1. broken \in BOOLEAN /\ faults \in Nat
    BY DEF TypeOK
<1>2. CASE UNCHANGED <<broken, faults>>
    BY <1>1, <1>2
<1>3. CASE broken' = TRUE /\ faults' = faults + 1
    BY <1>1, <1>3
<1> QED
    BY <1>2, <1>3 DEF Written, Rejected

-----------------------------------------------------------------------------
(* Types, names and sequences *)

Earlier(t, n, limit) == t < turn \/ (t = turn /\ n < limit)

\* The entry being appended is the newest one.
PendingIsNewest ==
    /\ phase \notin Appending => pending = {}
    /\ phase \in Appending =>
          /\ step > 0
          /\ \A e \in pending : e.turn = turn /\ e.step = step - 1 /\ e.seq = sequence
          /\ \A e \in log : Earlier(e.turn, e.step, step - 1)
    /\ phase = "working" => step > 0
    /\ \A e \in log : Earlier(e.turn, e.step, step)

\* The writer has counted every entry that is on file, unless it could not be read.
SequenceIsLargest ==
    ~TooLarge /\ phase # "closed" =>
        /\ \A e \in log : e.seq <= sequence
        /\ phase \in Appending => \A e \in log : e.seq < sequence

Counted ==
    /\ TypeOK
    /\ Bounded
    /\ PendingIsNewest
    /\ SequenceIsLargest
    /\ SequenceIsOrder

LEMMA CountedInit == Init => Counted
<1> SUFFICES ASSUME Init PROVE Counted
    OBVIOUS
<1>1. TypeOK
    BY DEF Init, TypeOK
<1>2. Bounded
    BY DEF Init, Bounded
<1> QED
    BY <1>1, <1>2 DEF Init, Counted, PendingIsNewest, SequenceIsLargest, SequenceIsOrder

LEMMA TypeStep == TypeOK /\ Bounded /\ [Next]_vars => TypeOK'
<1> SUFFICES ASSUME TypeOK, Bounded, [Next]_vars PROVE TypeOK'
    OBVIOUS
<1> USE DEF TypeOK
<1>0. CASE UNCHANGED vars
    BY <1>0 DEF vars
<1>1. CASE Open
    <2>1. memory' \subseteq Name
        BY <1>1 DEF Open, Names, NameOf, Replayed, Readable, Entry, Name
    <2> QED
        BY <1>1, <2>1, RestoredIsLargest DEF Open
<1>2. CASE Rebuild
    BY <1>2 DEF Rebuild
<1>3. CASE Evict
    BY <1>3 DEF Evict
<1>4. CASE Submit
    <2>1. pending' \subseteq Entry
        BY <1>4 DEF Submit, Record, NewEntry, Entry, Types
    <2> QED
        BY <1>4, <2>1 DEF Submit, Record
<1>5. CASE Accepted
    BY <1>5, FileSteps, FileStepOf DEF Accepted, Written, Base, Name
<1>6. CASE NotAccepted
    <2>1. broken' \in BOOLEAN /\ faults' \in Nat
        BY <1>6, AppendTypes DEF NotAccepted
    <2> QED
        BY <1>6, <2>1, FileSteps, FileStepOf DEF NotAccepted
<1>7. CASE Blocked
    BY <1>7 DEF Blocked, Base, Name
<1>8. CASE Message
    <2>1. pending' \subseteq Entry
        BY <1>8 DEF Message, Record, NewEntry, Entry, Types
    <2> QED
        BY <1>8, <2>1 DEF Message, Record, Name
<1>9. CASE Saved
    BY <1>9, FileSteps, FileStepOf DEF Saved, Written
<1>10. CASE Forget
    BY <1>10 DEF Forget
<1>11. CASE Finish
    <2>1. pending' \subseteq Entry
        BY <1>11 DEF Finish, Record, NewEntry, Entry, Types
    <2> QED
        BY <1>11, <2>1 DEF Finish, Record
<1>12. CASE Finished
    BY <1>12, FileSteps, FileStepOf DEF Finished, Written
<1>13. CASE Fails
    <2>1. pending' \subseteq Entry
        BY <1>13 DEF Fails, Record, NewEntry, Entry, Types
    <2>2. broken' \in BOOLEAN /\ faults' \in Nat
        BY <1>13, AppendTypes DEF Fails
    <2>3. FileStep
        BY <1>13, FileStepOf DEF Fails
    <2> QED
        BY <1>13, <2>1, <2>2, <2>3, FileSteps DEF Fails, Record
<1>14. CASE Failed
    <2>1. broken' \in BOOLEAN /\ faults' \in Nat
        BY <1>14, AppendTypes DEF Failed
    <2>2. FileStep
        BY <1>14, FileStepOf DEF Failed
    <2> QED
        BY <1>14, <2>1, <2>2, FileSteps DEF Failed, Base, Name
<1>15. CASE Crash
    BY <1>15, FileSteps, FileStepOf DEF Crash
<1> QED
    BY <1>0, <1>1, <1>2, <1>3, <1>4, <1>5, <1>6, <1>7, <1>8, <1>9, <1>10, <1>11, <1>12,
       <1>13, <1>14, <1>15 DEF Next

\* Every step does to the file what an append can do.
LEMMA EveryStepOfFile == [Next]_vars => FileStep
<1> SUFFICES ASSUME [Next]_vars PROVE FileStep
    OBVIOUS
<1>1. CASE UNCHANGED fileVars
    BY <1>1, FileStepOf
<1>2. CASE Written \/ Rejected \/ Crash
    BY <1>2, FileStepOf
<1> QED
    BY <1>1, <1>2 DEF vars, Next, Open, Rebuild, Evict, Submit, Accepted, NotAccepted,
       Blocked, Message, Saved, Forget, Finish, Finished, Fails, Failed

\* What an append does to the order of the entries, before the counters move on.
LEMMA FileOrder ==
    ASSUME Counted, FileStep
    PROVE  /\ Bounded'
           /\ \A e \in log' : Earlier(e.turn, e.step, step)
           /\ ~TooLarge' => ~TooLarge
           /\ ~TooLarge' /\ phase # "closed" => \A e \in log' : e.seq <= sequence
           /\ SequenceIsOrder'
<1> USE DEF Counted
<1>1. /\ log' \subseteq log \cup pending
      /\ size <= size' /\ size' \in Nat
    BY FileSteps
<1>2. \A e \in pending : /\ e.turn = turn /\ e.step = step - 1 /\ e.seq = sequence
                         /\ phase \in Appending /\ step > 0
    BY DEF PendingIsNewest
<1>t. /\ turn \in Nat /\ step \in Nat /\ sequence \in Nat /\ size \in Nat
      /\ \A e \in log \cup pending : e.turn \in Nat /\ e.step \in Nat /\ e.seq \in Nat
    BY DEF TypeOK, Entry
<1>3. Bounded'
    <2>1. PICK b \in Nat : \A e \in log : e.seq <= b
        BY DEF Bounded
    <2>2. \A e \in log' : e.seq <= b + sequence
        BY <1>1, <1>2, <1>t, <2>1
    <2> QED
        BY <1>t, <2>1, <2>2 DEF Bounded
<1>4. \A e \in log' : Earlier(e.turn, e.step, step)
    BY <1>1, <1>2, <1>t DEF PendingIsNewest, Earlier
<1>5. ~TooLarge' => ~TooLarge
    <2> MaxLines \in Nat
        BY BoundsAssumption
    <2> QED
        BY <1>1, <1>t DEF TooLarge
<1>6. ~TooLarge' /\ phase # "closed" => \A e \in log' : e.seq <= sequence
    BY <1>1, <1>2, <1>5, <1>t DEF SequenceIsLargest
<1>7. SequenceIsOrder'
    <2> SUFFICES ASSUME ~TooLarge', NEW d \in log', NEW e \in log',
                        d.turn < e.turn \/ (d.turn = e.turn /\ d.step < e.step)
                 PROVE  d.seq < e.seq
        BY DEF SequenceIsOrder, Before
    <2>1. CASE d \in log /\ e \in log
        BY <1>5, <2>1 DEF SequenceIsOrder, Before
    <2>2. CASE d \in log /\ e \in pending
        <3>1. phase \in Appending /\ phase # "closed" /\ e.seq = sequence
            BY <1>2, <2>2
        <3> QED
            BY <1>5, <2>2, <3>1 DEF SequenceIsLargest
    <2>3. CASE d \in pending /\ e \in log
        <3>1. /\ d.turn = turn /\ d.step = step - 1
              /\ e.turn < turn \/ (e.turn = turn /\ e.step < step - 1)
            BY <1>2, <2>3 DEF PendingIsNewest, Earlier
        <3> QED
            BY <1>t, <2>3, <3>1
    <2>4. CASE d \in pending /\ e \in pending
        BY <1>2, <1>t, <2>4
    <2> QED
        BY <1>1, <2>1, <2>2, <2>3, <2>4
<1> QED
    BY <1>3, <1>4, <1>5, <1>6, <1>7

LEMMA NewestStep == Counted /\ TypeOK' /\ [Next]_vars => PendingIsNewest'
<1> SUFFICES ASSUME Counted, TypeOK', [Next]_vars PROVE PendingIsNewest'
    OBVIOUS
<1>f. \A e \in log' : Earlier(e.turn, e.step, step)
    BY EveryStepOfFile, FileOrder
<1>n. PendingIsNewest
    BY DEF Counted
<1>t. turn \in Nat /\ step \in Nat /\ \A e \in log' : e.turn \in Nat /\ e.step \in Nat
    BY DEF Counted, TypeOK, Entry
<1> USE DEF PendingIsNewest, Earlier
<1>0. CASE UNCHANGED vars
    BY <1>0, <1>n DEF vars
\* Steps that leave turn and step alone and append nothing.
<1>1. ASSUME UNCHANGED <<turn, step>>, phase' \notin Appending, pending' = {},
             phase' = "working" => step > 0
      PROVE  PendingIsNewest'
    BY <1>1, <1>f
<1>2. CASE Open \/ Rebuild \/ Evict \/ Blocked \/ Forget
    <2>1. pending = {} /\ phase = "working" => step > 0
        BY <1>2, <1>n DEF Open, Rebuild, Evict, Blocked, Forget
    <2> QED
        BY <1>1, <1>2, <1>n, <2>1 DEF Open, Rebuild, Evict, Blocked, Forget
<1>3. CASE Accepted \/ NotAccepted \/ Saved \/ Finished \/ Failed \/ Crash
    <2>1. phase' = "working" => step > 0
        BY <1>3, <1>n DEF Accepted, NotAccepted, Saved, Finished, Failed, Crash
    <2> QED
        BY <1>1, <1>3, <2>1 DEF Accepted, NotAccepted, Saved, Finished, Failed, Crash
\* Steps that record an entry.
<1>4. ASSUME NEW t \in Nat, NEW n \in Nat, NEW type, Record(t, n, type),
             phase' \in Appending, t > turn \/ (t = turn /\ n = step)
      PROVE  PendingIsNewest'
    <2>1. /\ pending' = {[turn |-> t, step |-> n, seq |-> sequence + 1, type |-> type]}
          /\ sequence' = sequence + 1 /\ turn' = t /\ step' = n + 1
        BY <1>4 DEF Record, NewEntry
    <2>2. \A e \in log' : e.turn < t \/ (e.turn = t /\ e.step < n)
        BY <1>f, <1>t, <1>4
    <2>3. step' > 0 /\ step' - 1 = n
        BY <1>4, <2>1
    <2>4. \A e \in log' : e.turn < t \/ (e.turn = t /\ e.step < n + 1)
        BY <1>t, <2>2
    <2> QED
        BY <1>4, <2>1, <2>2, <2>3, <2>4
<1>5. CASE Submit
    BY <1>4, <1>5, <1>t DEF Submit
<1>6. CASE Message \/ Finish \/ Fails
    BY <1>4, <1>6, <1>t DEF Message, Finish, Fails
<1> QED
    BY <1>0, <1>2, <1>3, <1>5, <1>6 DEF Next

LEMMA LargestStep == Counted /\ TypeOK' /\ [Next]_vars => SequenceIsLargest'
<1> SUFFICES ASSUME Counted, TypeOK', [Next]_vars, ~TooLarge', phase' # "closed"
             PROVE  /\ \A e \in log' : e.seq <= sequence'
                    /\ phase' \in Appending => \A e \in log' : e.seq < sequence'
    BY DEF SequenceIsLargest
<1>f. ~TooLarge /\ (phase # "closed" => \A e \in log' : e.seq <= sequence)
    BY EveryStepOfFile, FileOrder
<1>t. sequence \in Nat /\ \A e \in log' : e.seq \in Nat
    BY DEF Counted, TypeOK, Entry
<1>0. CASE UNCHANGED vars
    BY <1>0, <1>f DEF vars, Counted, SequenceIsLargest
<1>1. CASE Open
    <2>1. \A e \in log : e.seq <= Restored
        BY <1>f, RestoredIsLargest DEF Counted, Readable
    <2> QED
        BY <1>1, <2>1 DEF Open
<1>2. CASE Rebuild \/ Blocked \/ Forget \/ Accepted \/ NotAccepted \/ Saved \/ Finished
           \/ Failed
    BY <1>2, <1>f DEF Rebuild, Blocked, Forget, Accepted, NotAccepted, Saved, Finished, Failed
<1>3. CASE Evict \/ Crash
    BY <1>3 DEF Evict, Crash
<1>4. CASE Submit \/ Message \/ Finish \/ Fails
    <2>1. phase # "closed" /\ sequence' = sequence + 1
        BY <1>4 DEF Submit, Message, Finish, Fails, Record
    <2> QED
        BY <1>f, <1>t, <2>1
<1> QED
    BY <1>0, <1>1, <1>2, <1>3, <1>4 DEF Next

LEMMA CountedStep == Counted /\ [Next]_vars => Counted'
<1> SUFFICES ASSUME Counted, [Next]_vars PROVE Counted'
    OBVIOUS
<1>1. TypeOK'
    BY TypeStep DEF Counted
<1>2. Bounded' /\ SequenceIsOrder'
    BY EveryStepOfFile, FileOrder
<1> QED
    BY <1>1, <1>2, NewestStep, LargestStep DEF Counted

LEMMA AlwaysCounted == Spec => []Counted
BY CountedInit, CountedStep, PTL DEF Spec

\* The session, its writer and the file keep their types (JsonlTranscriptWriter,
\* TurnRunner, resumeAgentSession).
THEOREM TypeCorrect == Spec => []TypeOK
<1>1. Counted => TypeOK
    BY DEF Counted
<1> QED
    BY <1>1, AlwaysCounted, PTL

\* Across rebuilds, crashes and failed appends, sorting a readable file by sequence
\* gives the order in which its entries were made (restoreState).
THEOREM SequencesAscend == Spec => []SequenceIsOrder
<1>1. Counted => SequenceIsOrder
    BY DEF Counted
<1> QED
    BY <1>1, AlwaysCounted, PTL

-----------------------------------------------------------------------------
(* What is on file for a turn *)

MessageOnFile(m) == \E e \in log : NameOf(e) = m /\ e.type = "durable_message"
PromptOnFile(t) == \E e \in log : NameOf(e) = <<t, 0>> /\ e.type = "accepted_input"

\* The type of the entry being appended.
PendingType ==
    /\ phase \in Appending => pending # {}
    /\ phase = "accepting" => \E e \in pending : e.type = "accepted_input" /\ e.step = 0
    /\ phase = "saving" => \E e \in pending : e.type = "durable_message"
    /\ phase \in {"finishing", "failing"} => \A e \in pending : e.type = "turn_result"
    /\ phase = "accepting" => \A e \in pending : e.type = "accepted_input"
    /\ phase = "saving" => \A e \in pending : e.type = "durable_message"

\* A writer at work has written all it was asked to write.
WriterIsWhole ==
    /\ phase \in {"working", "saving", "finishing"} => ~broken /\ ~torn
    /\ phase = "failing" => broken \/ ~torn
    /\ torn \/ tail = {}

\* The messages of the current turn are on file, all but the one being saved, and its
\* result is not.
TurnIsOnFile ==
    /\ \A m \in produced : m[1] <= turn
    /\ phase = "accepting" => \A m \in produced : m[1] < turn
    /\ phase \in {"working", "finishing"} \/ (phase = "failing" /\ ~broken) =>
          \A m \in produced : m[1] = turn => MessageOnFile(m)
    /\ phase = "saving" =>
          \A m \in produced : m[1] = turn => MessageOnFile(m) \/ m = <<turn, step - 1>>
    /\ phase \in {"working", "saving", "finishing", "failing"} =>
          turn \in spoilt \/ PromptOnFile(turn)
    /\ phase \in {"accepting", "working", "saving", "finishing"} \/ (phase = "failing" /\ ~broken)
          => turn \notin Completed(log)

\* A turn with a result is whole, and a line that may still be lost is none of its
\* messages.
CompletedAreWhole ==
    /\ \A t \in Completed(log) :
          /\ \A m \in produced : m[1] = t => MessageOnFile(m)
          /\ t \in spoilt \/ PromptOnFile(t)
    /\ \A e \in tail : e.type = "durable_message" => e.turn \notin Completed(log)

Whole == PendingType /\ WriterIsWhole /\ TurnIsOnFile /\ CompletedAreWhole

LEMMA WholeInit == Init => Whole
BY DEF Init, Whole, PendingType, WriterIsWhole, TurnIsOnFile, CompletedAreWhole, Completed

\* What an append does to the file.
Loses ==
    /\ torn /\ log' = log \ tail /\ tail' = {}
    /\ spoilt' = spoilt \cup {e.turn : e \in pending \cup tail}
Adds ==
    /\ ~torn /\ spoilt' = spoilt
    /\ \/ log' = log /\ tail' = {}
       \/ log' = log \cup pending /\ tail' \in {{}, pending}

LEMMA FileKinds ==
    ASSUME [Next]_vars
    PROVE  UNCHANGED fileVars \/ (phase \in Appending /\ ~broken /\ (Loses \/ Adds))
<1>1. ASSUME Land \/ Tear PROVE Loses \/ Adds
    BY <1>1 DEF Land, Tear, Spoil, Loses, Adds
<1>2. CASE Crash
    BY <1>1, <1>2 DEF Crash, WriteNothing
<1>3. ASSUME Written \/ Rejected PROVE UNCHANGED fileVars \/ (~broken /\ (Loses \/ Adds))
    BY <1>1, <1>3 DEF Written, Rejected, WriteNothing
<1>4. CASE Accepted \/ NotAccepted \/ Saved \/ Finished \/ Fails \/ Failed
    BY <1>3, <1>4 DEF Accepted, NotAccepted, Saved, Finished, Fails, Failed
<1>5. CASE UNCHANGED fileVars
    BY <1>5
<1> QED
    BY <1>2, <1>4, <1>5 DEF vars, Next, Open, Rebuild, Evict, Submit, Blocked, Message,
       Forget, Finish

LEMMA PendingTypeStep == Counted /\ PendingType /\ [Next]_vars => PendingType'
<1> SUFFICES ASSUME Counted, PendingType, [Next]_vars PROVE PendingType'
    OBVIOUS
<1> USE DEF PendingType
<1>0. CASE UNCHANGED vars
    BY <1>0 DEF vars
<1>1. ASSUME NEW t, NEW n, NEW type, Record(t, n, type)
      PROVE  pending' # {} /\ \A e \in pending' : e.type = type /\ e.step = n
    <2>1. pending' = {[turn |-> t, step |-> n, seq |-> sequence + 1, type |-> type]}
        BY <1>1 DEF Record, NewEntry
    <2> QED
        BY <2>1
<1>2. CASE Submit
    BY <1>1, <1>2 DEF Submit
<1>3. CASE Message \/ Finish \/ Fails
    BY <1>1, <1>3 DEF Message, Finish, Fails
<1>4. CASE Open \/ Rebuild \/ Evict \/ Accepted \/ NotAccepted \/ Blocked \/ Saved \/ Forget
           \/ Finished \/ Failed \/ Crash
    <2>1. phase' \notin Appending
        BY <1>4 DEF Open, Rebuild, Evict, Accepted, NotAccepted, Blocked, Saved, Forget,
           Finished, Failed, Crash
    <2> QED
        BY <2>1
<1> QED
    BY <1>0, <1>1, <1>2, <1>3, <1>4 DEF Next

LEMMA WriterStep == TypeOK /\ WriterIsWhole /\ [Next]_vars => WriterIsWhole'
<1> SUFFICES ASSUME TypeOK, WriterIsWhole, [Next]_vars PROVE WriterIsWhole'
    OBVIOUS
<1>1. ASSUME Land \/ Tear PROVE torn' \/ tail' = {}
    BY <1>1 DEF Land, Tear
<1>2. torn' \/ tail' = {}
    <2>1. CASE UNCHANGED fileVars
        BY <2>1 DEF WriterIsWhole
    <2>2. CASE Loses \/ Adds
        <3>1. CASE Crash
            BY <1>1, <2>1, <3>1 DEF Crash, WriteNothing
        <3>2. CASE Written \/ Rejected
            BY <1>1, <2>1, <3>2 DEF Written, Rejected, WriteNothing
        <3> QED
            BY <2>1, <3>1, <3>2 DEF vars, Next, Open, Rebuild, Evict, Submit, Accepted,
               NotAccepted, Blocked, Message, Saved, Forget, Finish, Finished, Fails, Failed
    <2> QED
        BY <2>1, <2>2, FileKinds
<1>3. CASE UNCHANGED vars
    BY <1>3 DEF vars, WriterIsWhole
<1>4. CASE Open \/ Rebuild \/ Evict \/ Submit \/ NotAccepted \/ Blocked \/ Finished \/ Failed
           \/ Crash
    BY <1>2, <1>4 DEF WriterIsWhole, Open, Rebuild, Evict, Submit, NotAccepted, Blocked,
       Finished, Failed, Crash
<1>5. CASE Accepted \/ Saved
    BY <1>2, <1>5 DEF WriterIsWhole, Accepted, Saved, Written, Land
<1>6. CASE Message \/ Forget \/ Finish
    BY <1>2, <1>6 DEF WriterIsWhole, Message, Forget, Finish
<1>7. CASE Fails
    BY <1>2, <1>7 DEF WriterIsWhole, Fails, Rejected
<1> QED
    BY <1>3, <1>4, <1>5, <1>6, <1>7 DEF Next

\* What is on file stays there, unless its turn is spoilt.
LEMMA OnFileStays ==
    ASSUME Counted, [Next]_vars
    PROVE  /\ \A t : t \in spoilt \/ PromptOnFile(t) => t \in spoilt' \/ PromptOnFile(t)'
           /\ ~torn => \A m : MessageOnFile(m) => MessageOnFile(m)'
           /\ log' \subseteq log \cup pending
           /\ log' \subseteq log \/ ~torn
<1>1. CASE UNCHANGED fileVars
    BY <1>1 DEF PromptOnFile, MessageOnFile
<1>2. CASE Loses
    <2>1. \A t : PromptOnFile(t) => t \in spoilt' \/ PromptOnFile(t)'
        BY <1>2 DEF Loses, PromptOnFile, NameOf
    <2> QED
        BY <1>2, <2>1 DEF Loses
<1>3. CASE Adds
    BY <1>3 DEF Adds, PromptOnFile, MessageOnFile
<1> QED
    BY <1>1, <1>2, <1>3, FileKinds

\* Only the result of the current turn completes a turn.
LEMMA CompletedStep ==
    ASSUME Counted, Whole, [Next]_vars
    PROVE  /\ \A t \in Completed(log') : t \in Completed(log) \/
                 (t = turn /\ phase \in {"finishing", "failing"} /\ ~broken /\ ~torn)
<1> SUFFICES ASSUME NEW r \in log', r.type = "turn_result", r.turn \notin Completed(log)
             PROVE  r.turn = turn /\ phase \in {"finishing", "failing"} /\ ~broken /\ ~torn
    BY DEF Completed
<1>1. r \in pending /\ ~torn /\ r \notin log
    BY OnFileStays DEF Completed
<1>2. phase \in Appending /\ ~broken
    BY <1>1, FileKinds, OnFileStays
<1>3. r.turn = turn
    BY <1>1, <1>2 DEF Counted, PendingIsNewest
<1>4. phase \in {"finishing", "failing"}
    BY <1>1, <1>2 DEF Whole, PendingType
<1> QED
    BY <1>1, <1>2, <1>3, <1>4

LEMMA CompletedWholeStep == Counted /\ Whole /\ [Next]_vars => CompletedAreWhole'
<1> SUFFICES ASSUME Counted, Whole, [Next]_vars PROVE CompletedAreWhole'
    OBVIOUS
<1>1. ASSUME NEW t \in Completed(log'), NEW m \in produced', m[1] = t
      PROVE  MessageOnFile(m)'
    <2>1. m \in produced
        <3>1. CASE Message
            <4>1. log' = log /\ turn \notin Completed(log)
                BY <3>1 DEF Message, Whole, TurnIsOnFile
            <4> QED
                BY <1>1, <3>1, <4>1 DEF Message
        <3>2. CASE ~Message
            BY <1>1, <3>2 DEF vars, Next, Open, Rebuild, Evict, Submit, Accepted, NotAccepted,
               Blocked, Saved, Forget, Finish, Finished, Fails, Failed, Crash, Record
        <3> QED
            BY <3>1, <3>2
    <2>2. CASE t \in Completed(log)
        <3>1. PICK e \in log : NameOf(e) = m /\ e.type = "durable_message"
            BY <1>1, <2>1, <2>2 DEF Whole, CompletedAreWhole, MessageOnFile
        <3>2. e.turn = t
            BY <1>1, <3>1 DEF NameOf
        <3>3. e \notin tail
            BY <2>2, <3>1, <3>2 DEF Whole, CompletedAreWhole
        <3>4. e \in log'
            BY <3>1, <3>3, FileKinds DEF Loses, Adds
        <3> QED
            BY <3>1, <3>4 DEF MessageOnFile, NameOf
    <2>3. CASE t \notin Completed(log)
        <3>1. t = turn /\ phase \in {"finishing", "failing"} /\ ~broken /\ ~torn
            BY <2>3, CompletedStep
        <3>2. MessageOnFile(m)
            BY <1>1, <2>1, <3>1 DEF Whole, TurnIsOnFile
        <3> QED
            BY <3>1, <3>2, OnFileStays
    <2> QED
        BY <2>2, <2>3
<1>2. ASSUME NEW t \in Completed(log')
      PROVE  t \in spoilt' \/ PromptOnFile(t)'
    <2>1. t \in spoilt \/ PromptOnFile(t)
        BY CompletedStep DEF Whole, CompletedAreWhole, TurnIsOnFile
    <2> QED
        BY <2>1, OnFileStays
<1>3. ASSUME NEW e \in tail', e.type = "durable_message"
      PROVE  e.turn \notin Completed(log')
    <2>1. CASE UNCHANGED fileVars
        BY <1>3, <2>1 DEF Whole, CompletedAreWhole
    <2>2. CASE Loses
        BY <1>3, <2>2 DEF Loses
    <2>3. CASE phase \in Appending /\ Adds
        <3>1. e \in pending /\ log' = log \cup pending
            BY <1>3, <2>3 DEF Adds
        <3>2. phase \in {"accepting", "saving"} /\ e.turn = turn
            BY <1>3, <2>3, <3>1 DEF Whole, PendingType, Counted, PendingIsNewest
        <3>3. turn \notin Completed(log)
            BY <3>2 DEF Whole, TurnIsOnFile
        <3> QED
            BY <3>2, <3>3, CompletedStep
    <2> QED
        BY <2>1, <2>2, <2>3, FileKinds
<1> QED
    BY <1>1, <1>2, <1>3 DEF CompletedAreWhole

LEMMA TurnStep == Counted /\ Whole /\ [Next]_vars => TurnIsOnFile'
<1> SUFFICES ASSUME Counted, Whole, [Next]_vars PROVE TurnIsOnFile'
    OBVIOUS
<1>w. WriterIsWhole /\ TurnIsOnFile
    BY DEF Whole
<1>t. /\ turn \in Nat /\ step \in Nat
      /\ \A m \in produced : m = <<m[1], m[2]>> /\ m[1] \in Nat
      /\ \A e \in log : e.turn \in Nat
    BY DEF Counted, TypeOK, Entry, Name
<1>p. turn' = turn /\ (turn \in spoilt \/ PromptOnFile(turn)) =>
          turn \in spoilt' \/ PromptOnFile(turn)'
    BY OnFileStays DEF PromptOnFile, NameOf
<1> USE DEF TurnIsOnFile
<1>0. CASE UNCHANGED vars
    BY <1>0, <1>w DEF vars, MessageOnFile, PromptOnFile, Completed
<1>1. CASE Open \/ Rebuild \/ Evict \/ Blocked \/ NotAccepted \/ Finished \/ Failed \/ Crash
    BY <1>1, <1>w DEF Open, Rebuild, Evict, Blocked, NotAccepted, Finished, Failed, Crash
<1>2. CASE Submit
    <2>1. /\ turn' = turn + 1 /\ phase' = "accepting" /\ produced' = produced /\ log' = log
        BY <1>2 DEF Submit, Record
    <2>2. \A e \in log : e.turn <= turn
        BY <1>t DEF Counted, PendingIsNewest, Earlier
    <2>3. turn' \notin Completed(log')
        BY <1>t, <2>1, <2>2 DEF Completed
    <2> QED
        BY <1>t, <1>w, <2>1, <2>3
<1>3. CASE Accepted
    <2>1. /\ phase = "accepting" /\ phase' = "working"
          /\ turn' = turn /\ produced' = produced /\ Land
        BY <1>3 DEF Accepted, Written
    <2>2. PICK e \in pending : e.type = "accepted_input" /\ e.step = 0
        BY <2>1 DEF Whole, PendingType
    <2>3. e.turn = turn
        BY <2>1 DEF Counted, PendingIsNewest
    <2>4. turn \in spoilt' \/ PromptOnFile(turn)'
        BY <2>1, <2>2, <2>3 DEF Land, Spoil, PromptOnFile, NameOf
    <2>5. turn \notin Completed(log')
        BY <1>w, <2>1, CompletedStep
    <2> QED
        BY <1>t, <1>w, <2>1, <2>4, <2>5
<1>4. CASE Message
    <2>1. /\ phase = "working" /\ phase' = "saving" /\ turn' = turn /\ step' = step + 1
          /\ produced' = produced \cup {<<turn, step>>} /\ UNCHANGED fileVars
        BY <1>4 DEF Message, Record
    <2>2. \A m \in produced' : m[1] = turn => MessageOnFile(m)' \/ m = <<turn, step' - 1>>
        BY <1>t, <1>w, <2>1 DEF MessageOnFile
    <2>3. \A m \in produced' : m[1] <= turn
        BY <1>t, <1>w, <2>1
    <2> QED
        BY <1>p, <1>w, <2>1, <2>2, <2>3 DEF Completed
<1>5. CASE Saved
    <2>1. /\ phase = "saving" /\ phase' = "working" /\ ~torn
          /\ turn' = turn /\ produced' = produced /\ Land
        BY <1>5, <1>w DEF Saved, Written, WriterIsWhole
    <2>2. PICK e \in pending : e.type = "durable_message"
        BY <2>1 DEF Whole, PendingType
    <2>3. NameOf(e) = <<turn, step - 1>> /\ e \in log'
        BY <2>1, <2>2 DEF Counted, PendingIsNewest, NameOf, Land
    <2>4. \A m \in produced : m[1] = turn => MessageOnFile(m)'
        BY <1>w, <2>1, <2>2, <2>3, OnFileStays DEF MessageOnFile, NameOf
    <2>5. turn \notin Completed(log')
        BY <1>w, <2>1, CompletedStep
    <2> QED
        BY <1>p, <1>w, <2>1, <2>4, <2>5
<1>6. CASE Forget \/ Finish
    <2>1. /\ phase = "working" /\ phase' \in {"working", "finishing"}
          /\ turn' = turn /\ produced' = produced /\ UNCHANGED fileVars
        BY <1>6 DEF Forget, Finish, Record
    <2> QED
        BY <1>p, <1>w, <2>1 DEF MessageOnFile, Completed
<1>7. CASE Fails
    <2>1. /\ phase' = "failing" /\ turn' = turn /\ produced' = produced
          /\ phase \in {"working", "saving", "finishing"}
        BY <1>7 DEF Fails, Record
    <2>2. ~broken' => phase = "working" /\ UNCHANGED fileVars
        BY <1>7, <1>w DEF Fails, WriterIsWhole, Rejected
    <2> QED
        BY <1>p, <1>w, <2>1, <2>2 DEF MessageOnFile, Completed
<1> QED
    BY <1>0, <1>1, <1>2, <1>3, <1>4, <1>5, <1>6, <1>7 DEF Next

LEMMA WholeStep == Counted /\ Whole /\ [Next]_vars => Whole'
<1> SUFFICES ASSUME Counted, Whole, [Next]_vars PROVE Whole'
    OBVIOUS
<1>1. PendingType' /\ WriterIsWhole'
    BY PendingTypeStep, WriterStep DEF Whole, Counted
<1> QED
    BY <1>1, TurnStep, CompletedWholeStep DEF Whole

LEMMA AlwaysWhole == Spec => []Whole
BY WholeInit, WholeStep, AlwaysCounted, PTL DEF Spec

\* A turn that has a result on file has all its messages on file, and its prompt unless
\* that was lost on a torn line (recordEntry's writeChain).
THEOREM TurnsAreWhole == Spec => []TurnsReplayWhole
<1>1. Whole => TurnsReplayWhole
    BY DEF Whole, CompletedAreWhole, TurnsReplayWhole, MessageOnFile, PromptOnFile, Names
<1> QED
    BY <1>1, AlwaysWhole, PTL

-----------------------------------------------------------------------------
(* What the session remembers *)

Remembered(m) == m \in Names(Replayed(log)) \/ m[1] \in spoilt

\* A session remembers what a replay would show; the loop also has the messages of the
\* turn under way.
MemoryIsOnFile ==
    /\ \A m \in memory : Remembered(m)
    /\ phase \in {"working", "saving", "finishing"} =>
          \A m \in messages : Remembered(m) \/ (m[1] = turn /\ m \in produced)

LEMMA RememberedStays ==
    ASSUME [Next]_vars, NEW m, Remembered(m)
    PROVE  Remembered(m)'
<1>1. CASE UNCHANGED fileVars
    BY <1>1 DEF Remembered, Names, Replayed, Completed
<1>2. CASE Loses
    <2>1. CASE m[1] \in spoilt
        BY <1>2, <2>1 DEF Loses, Remembered
    <2>2. CASE m[1] \notin spoilt
        <3>1. PICK e \in Replayed(log) : NameOf(e) = m
            BY <2>2 DEF Remembered, Names
        <3>2. e \in log /\ e.turn = m[1]
            BY <3>1 DEF Replayed, NameOf
        <3>3. CASE e \in tail
            BY <1>2, <3>2, <3>3 DEF Loses, Remembered
        <3>4. CASE e \notin tail /\ e.type = "accepted_input"
            BY <1>2, <3>1, <3>2, <3>4 DEF Loses, Remembered, Names, Replayed, NameOf
        <3>5. CASE e \notin tail /\ e.type # "accepted_input"
            <4>1. PICK r \in log : r.type = "turn_result" /\ r.turn = m[1]
                BY <3>1, <3>2, <3>5 DEF Replayed, Completed
            <4>2. CASE r \in tail
                BY <1>2, <4>1, <4>2 DEF Loses, Remembered
            <4>3. CASE r \notin tail
                <5>1. m[1] \in Completed(log')
                    BY <1>2, <4>1, <4>3 DEF Loses, Completed
                <5>2. e \in Replayed(log')
                    BY <1>2, <3>1, <3>2, <3>5, <5>1 DEF Loses, Replayed
                <5> QED
                    BY <3>1, <5>2 DEF Remembered, Names, NameOf
            <4> QED
                BY <4>2, <4>3
        <3> QED
            BY <3>3, <3>4, <3>5
    <2> QED
        BY <2>1, <2>2
<1>3. CASE Adds
    <2>1. log \subseteq log' /\ spoilt' = spoilt
        BY <1>3 DEF Adds
    <2>2. Replayed(log) \subseteq Replayed(log')
        BY <2>1 DEF Replayed, Completed
    <2> QED
        BY <2>1, <2>2 DEF Remembered, Names, NameOf
<1> QED
    BY <1>1, <1>2, <1>3, FileKinds

LEMMA MemoryStep == Counted /\ Whole /\ Whole' /\ MemoryIsOnFile /\ [Next]_vars => MemoryIsOnFile'
<1> SUFFICES ASSUME Counted, Whole, Whole', MemoryIsOnFile, [Next]_vars PROVE MemoryIsOnFile'
    OBVIOUS
<1>m. \A m \in memory : Remembered(m)'
    BY RememberedStays DEF MemoryIsOnFile
<1>s. phase \in {"working", "saving", "finishing"} =>
          \A m \in messages : Remembered(m)' \/ (m[1] = turn /\ m \in produced)
    BY RememberedStays DEF MemoryIsOnFile
<1>b. turn' = turn /\ (turn \in spoilt' \/ PromptOnFile(turn)') => \A m \in Base : Remembered(m)'
    <2>1. ASSUME turn' = turn, turn \in spoilt' \/ PromptOnFile(turn)'
          PROVE  Remembered(<<turn, 0>>)'
        BY <2>1 DEF PromptOnFile, Remembered, Names, Replayed, NameOf
    <2> QED
        BY <1>m, <2>1 DEF Base
<1> USE DEF MemoryIsOnFile
<1>0. CASE UNCHANGED vars
    BY <1>0, <1>m, <1>s DEF vars
<1>1. CASE Open
    <2>1. memory' \subseteq Names(Replayed(log))
        BY <1>1 DEF Open, Readable, Names, Replayed
    <2>2. log' = log /\ phase' = "idle"
        BY <1>1 DEF Open
    <2>3. \A m \in memory' : m \in Names(Replayed(log'))
        BY <2>1, <2>2
    <2> QED
        BY <2>2, <2>3 DEF Remembered
<1>2. CASE Rebuild \/ Submit \/ NotAccepted
    BY <1>2, <1>m DEF Rebuild, Submit, NotAccepted
<1>3. CASE Evict \/ Crash
    BY <1>3 DEF Evict, Crash
<1>4. CASE Accepted
    <2>1. phase' = "working" /\ turn' = turn /\ memory' = memory /\ messages' = Base
        BY <1>4 DEF Accepted
    <2>2. turn \in spoilt' \/ PromptOnFile(turn)'
        BY <2>1 DEF Whole, TurnIsOnFile, PromptOnFile
    <2> QED
        BY <1>b, <1>m, <2>1, <2>2
<1>5. CASE Blocked
    <2>1. phase' = "idle" /\ turn' = turn /\ memory' = Base /\ phase = "working"
        BY <1>5 DEF Blocked
    <2>2. turn \in spoilt' \/ PromptOnFile(turn)'
        BY <2>1, OnFileStays DEF Whole, TurnIsOnFile
    <2> QED
        BY <1>b, <2>1, <2>2
<1>6. CASE Failed
    <2>1. phase' = "idle" /\ turn' = turn /\ memory' = Base /\ phase = "failing"
        BY <1>6 DEF Failed
    <2>2. turn \in spoilt' \/ PromptOnFile(turn)'
        BY <2>1, OnFileStays DEF Whole, TurnIsOnFile
    <2> QED
        BY <1>b, <2>1, <2>2
<1>7. CASE Message
    BY <1>7, <1>m, <1>s DEF Message, Record
<1>8. CASE Saved \/ Forget \/ Finish
    BY <1>8, <1>m, <1>s DEF Saved, Forget, Finish, Record
<1>9. CASE Finished
    <2>1. /\ phase = "finishing" /\ phase' = "idle" /\ memory' = messages /\ ~torn /\ Land
        BY <1>9 DEF Finished, Written, Whole, WriterIsWhole
    <2>2. turn \in Completed(log')
        <3>1. \A e \in pending : e.type = "turn_result" /\ e.turn = turn
            BY <2>1 DEF Whole, PendingType, Counted, PendingIsNewest
        <3>2. pending # {} /\ pending \subseteq log'
            BY <2>1 DEF Land, Whole, PendingType
        <3> QED
            BY <3>1, <3>2 DEF Completed
    <2>3. \A m \in produced : m[1] = turn => Remembered(m)'
        <3> SUFFICES ASSUME NEW m \in produced, m[1] = turn PROVE Remembered(m)'
            OBVIOUS
        <3>1. MessageOnFile(m)'
            BY <2>1, OnFileStays DEF Whole, TurnIsOnFile
        <3>2. PICK e \in log' : NameOf(e) = m /\ e.type = "durable_message"
            BY <3>1 DEF MessageOnFile, NameOf
        <3>3. e.turn = turn
            BY <3>2 DEF NameOf
        <3> QED
            BY <2>2, <3>2, <3>3 DEF Remembered, Names, Replayed, NameOf
    <2> QED
        BY <1>s, <2>1, <2>3
<1>10. CASE Fails
    BY <1>10, <1>m DEF Fails
<1> QED
    BY <1>0, <1>1, <1>2, <1>3, <1>4, <1>5, <1>6, <1>7, <1>8, <1>9, <1>10 DEF Next

\* Whatever appends fail and whenever the process dies, a replay shows everything the
\* session remembers, except of turns that lost an entry on a torn line (TurnRunner.run,
\* replayTranscriptEntries).
THEOREM MemorySurvives == Spec => []MemorySurvivesRestart
<1>1. Init => MemoryIsOnFile
    BY DEF Init, MemoryIsOnFile
<1>2. MemoryIsOnFile => MemorySurvivesRestart
    BY DEF MemoryIsOnFile, Remembered, MemorySurvivesRestart
<1> QED
    BY <1>1, <1>2, MemoryStep, AlwaysCounted, AlwaysWhole, PTL DEF Spec
=============================================================================
