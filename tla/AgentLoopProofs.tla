--------------------------- MODULE AgentLoopProofs --------------------------
(***************************************************************************)
(* For any limits, any number of turns, requests and compactions, and      *)
(* whatever the model, the tools, the hooks and the user do: every         *)
(* variable of AgentLoop has its type, what the model is sent and what a   *)
(* turn leaves is a conversation that a provider accepts, a summary stands *)
(* for all that it replaces, and a turn can not go on asking the model.    *)
(*                                                                         *)
(* The first half is about the operators of ContextWindow alone: a history *)
(* (calls answered at once, no call answered twice) stays one through      *)
(* every cut, and a projection is paired whatever it is given.  The second *)
(* half carries this through the actions: LoopInv says of each phase of a  *)
(* turn how far the last answer of the history is from being answered.     *)
(***************************************************************************)
EXTENDS AgentLoop, FiniteSetTheorems, SequenceTheorems, TLAPS

-----------------------------------------------------------------------------
(* Sequences *)

\* What is known of every sequence.
LEMMA Indexed ==
    ASSUME NEW S, NEW s \in Seq(S)
    PROVE  /\ Len(s) \in Nat /\ DOMAIN s = 1..Len(s)
           /\ \A i \in 1..Len(s) : s[i] \in S
           /\ s # <<>> <=> Len(s) > 0
  BY LenProperties, EmptySeq, ElementOfSeq

\* Append, taken apart again.
LEMMA FrontAndLast ==
    ASSUME NEW S, NEW s \in Seq(S), NEW x \in S
    PROVE  /\ Append(s, x) \in Seq(S) /\ Append(s, x) # <<>>
           /\ Last(Append(s, x)) = x /\ Front(Append(s, x)) = s
  <1> DEFINE t == Append(s, x)
  <1>1. t \in Seq(S) /\ Len(t) = Len(s) + 1 /\ t[Len(t)] = x /\ t # <<>> /\ Len(s) \in Nat
        /\ \A i \in 1..Len(s) : t[i] = s[i]
    OBVIOUS
  <1>2. Last(t) = x
    BY <1>1 DEF Last
  <1>3. \A i \in 1..Len(s) : s[i] \in S /\ t[i] \in S
    BY <1>1
  <1>4. /\ SubSeq(t, 1, Len(s)) \in Seq(S) /\ Len(SubSeq(t, 1, Len(s))) = Len(s)
        /\ \A i \in 1..Len(s) : SubSeq(t, 1, Len(s))[i] = t[i]
    <2> HIDE DEF t
    <2> QED BY <1>1, <1>3, SubSeqProperties
  <1>5. SubSeq(t, 1, Len(s)) = s
    BY <1>1, <1>4, SeqEqual
  <1> QED BY <1>1, <1>2, <1>5 DEF Front

\* A slice has the elements of the sequence, shifted.
LEMMA SlicedSeq ==
    ASSUME NEW S, NEW s \in Seq(S), NEW a \in 1 .. Len(s) + 1, NEW b \in 0 .. Len(s)
    PROVE  /\ SubSeq(s, a, b) \in Seq(S)
           /\ Len(SubSeq(s, a, b)) = IF a <= b THEN b - a + 1 ELSE 0
           /\ \A i \in 1 .. b - a + 1 : SubSeq(s, a, b)[i] = s[a + i - 1]
  <1>1. Len(s) \in Nat /\ \A i \in a..b : s[i] \in S
    OBVIOUS
  <1> QED BY <1>1, SubSeqProperties

\* truncateHead keeps an end of the messages that is not empty.
LEMMA KeptIsSuffix ==
    ASSUME NEW S, NEW s \in Seq(S), NEW p \in 0..100, s # <<>>
    PROVE  \E k \in 1..Len(s) : Kept(s, p) = SubSeq(s, k, Len(s))
  <1> DEFINE n == (Len(s) * p) \div 100
  <1>1. Len(s) \in Nat /\ p \in Nat /\ p <= 100 /\ Len(s) > 0
    OBVIOUS
  <1>2. Len(s) * p <= Len(s) * 100 /\ Len(s) * p \in Nat
    BY <1>1
  <1>3. n \in 0..Len(s)
    BY <1>1, <1>2
  <1>4. Len(s) - (IF n = 0 THEN 1 ELSE n) + 1 \in 1..Len(s)
    BY <1>1, <1>3
  <1> QED
    BY <1>4 DEF Kept

-----------------------------------------------------------------------------
(* Choosing by rank: Nth and NonEmpty *)

\* The indices of a set up to i: their number is the rank of i.
UpTo(S, i) == {j \in S : j <= i}

\* Ranks grow with the index, by one at each element of the set.
LEMMA UpToSizes ==
    ASSUME NEW L \in Nat, NEW S, \A j \in S : j \in 1..L
    PROVE  /\ IsFiniteSet(S) /\ Cardinality(S) \in Nat
           /\ \A i \in 0..L : Cardinality(UpTo(S, i)) \in Nat
           /\ Cardinality(UpTo(S, 0)) = 0 /\ UpTo(S, L) = S
           /\ \A i \in 1..L : Cardinality(UpTo(S, i))
                  = Cardinality(UpTo(S, i - 1)) + (IF i \in S THEN 1 ELSE 0)
           /\ \A i, k \in 0..L : i <= k => Cardinality(UpTo(S, i)) <= Cardinality(UpTo(S, k))
  <1>1. IsFiniteSet(1..L)
    BY FS_Interval
  <1>2. IsFiniteSet(S)
    <2>1. S \subseteq 1..L
      OBVIOUS
    <2> QED
      BY <1>1, <2>1, FS_Subset
  <1>3. \A i \in 0..L : IsFiniteSet(UpTo(S, i))
    <2>1. \A i \in 0..L : UpTo(S, i) \subseteq S
      BY DEF UpTo
    <2> QED
      BY <1>2, <2>1, FS_Subset
  <1>4. Cardinality(S) \in Nat
    BY <1>2, FS_CardinalityType
  <1>5. \A i \in 0..L : Cardinality(UpTo(S, i)) \in Nat
    BY <1>3, FS_CardinalityType
  <1>6. UpTo(S, 0) = {} /\ UpTo(S, L) = S
    BY DEF UpTo
  <1>7. Cardinality(UpTo(S, 0)) = 0
    BY <1>6, FS_EmptySet
  <1>8. ASSUME NEW i \in 1..L
        PROVE  Cardinality(UpTo(S, i))
                   = Cardinality(UpTo(S, i - 1)) + (IF i \in S THEN 1 ELSE 0)
    <2>1. i - 1 \in 0..L
      OBVIOUS
    <2>2. i \notin UpTo(S, i - 1)
      BY DEF UpTo
    <2>3. UpTo(S, i) = IF i \in S THEN UpTo(S, i - 1) \cup {i} ELSE UpTo(S, i - 1)
      BY DEF UpTo
    <2>4. /\ Cardinality(UpTo(S, i - 1) \cup {i}) = Cardinality(UpTo(S, i - 1)) + 1
      BY <1>3, <2>1, <2>2, FS_AddElement
    <2>5. Cardinality(UpTo(S, i - 1)) \in Nat
      BY <1>5, <2>1
    <2> QED
      BY <2>3, <2>4, <2>5
  <1>9. ASSUME NEW i \in 0..L, NEW k \in 0..L, i <= k
        PROVE  Cardinality(UpTo(S, i)) <= Cardinality(UpTo(S, k))
    <2>1. UpTo(S, i) \subseteq UpTo(S, k)
      BY <1>9 DEF UpTo
    <2> QED
      BY <1>3, <2>1, FS_Subset
  <1> QED
    BY <1>2, <1>4, <1>5, <1>6, <1>7, <1>8, <1>9

\* The n-th of n or more indices is there, and has n up to it.
LEMMA NthOf ==
    ASSUME NEW L \in Nat, NEW S, \A j \in S : j \in 1..L, NEW n \in 1 .. Cardinality(S)
    PROVE  Nth(S, n) \in S /\ Cardinality(UpTo(S, Nth(S, n))) = n
  <1> DEFINE N == {i \in Nat : i \in 0..L /\ Cardinality(UpTo(S, i)) >= n}
  <1>1. Cardinality(S) \in Nat /\ UpTo(S, L) = S
    BY UpToSizes
  <1>2. L \in N /\ N \subseteq Nat
    BY <1>1
  <1>3. PICK i \in N : \A k \in N : ~(<<k, i>> \in OpToRel(<, Nat))
    BY <1>2, NatLessThanWellFounded, WFMin
  <1>4. \A k \in N : ~(k < i)
    BY <1>2, <1>3 DEF OpToRel
  <1>5. i \in 0..L /\ Cardinality(UpTo(S, i)) >= n
    OBVIOUS
  <1>6. Cardinality(UpTo(S, 0)) = 0
    BY UpToSizes
  <1>7. i \in 1..L
    BY <1>1, <1>5, <1>6
  <1>8. i - 1 \in 0..L /\ Cardinality(UpTo(S, i - 1)) \in Nat
    BY <1>7, UpToSizes
  <1>9. Cardinality(UpTo(S, i - 1)) < n
    BY <1>1, <1>4, <1>8, <1>7
  <1>10. Cardinality(UpTo(S, i)) = Cardinality(UpTo(S, i - 1)) + (IF i \in S THEN 1 ELSE 0)
    BY <1>7, UpToSizes
  <1>11. i \in S /\ Cardinality(UpTo(S, i)) = n
    BY <1>1, <1>5, <1>8, <1>9, <1>10
  <1>12. i \in S /\ Cardinality({j \in S : j <= i}) = n
    BY <1>11 DEF UpTo
  <1> QED
    BY <1>12 DEF Nth, UpTo

\* ... and is the only one of them that has.
LEMMA NthIs ==
    ASSUME NEW L \in Nat, NEW S, \A j \in S : j \in 1..L, NEW i \in S
    PROVE  /\ Cardinality(UpTo(S, i)) \in 1 .. Cardinality(S)
           /\ Nth(S, Cardinality(UpTo(S, i))) = i
  <1> DEFINE n == Cardinality(UpTo(S, i))
  <1>1. i \in 1..L /\ i \in 0..L /\ i - 1 \in 0..L
    OBVIOUS
  <1>s. /\ Cardinality(S) \in Nat /\ UpTo(S, L) = S
        /\ \A j \in 0..L : Cardinality(UpTo(S, j)) \in Nat
        /\ \A j \in 1..L : j \in S => Cardinality(UpTo(S, j)) = Cardinality(UpTo(S, j - 1)) + 1
    BY UpToSizes
  <1>m. \A j, k \in 0..L : j <= k => Cardinality(UpTo(S, j)) <= Cardinality(UpTo(S, k))
    BY UpToSizes
  <1>2. n \in Nat /\ n = Cardinality(UpTo(S, i - 1)) + 1 /\ Cardinality(UpTo(S, i - 1)) \in Nat
    BY <1>1, <1>s, <1>m
  <1>3. n <= Cardinality(S) /\ Cardinality(S) \in Nat
    BY <1>1, <1>s, <1>m
  <1>4. n \in 1 .. Cardinality(S)
    BY <1>2, <1>3
  <1>5. PICK k \in S : k = Nth(S, n) /\ Cardinality(UpTo(S, k)) = n
    BY <1>4, NthOf
  <1>6. ASSUME k < i PROVE FALSE
    <2>1. k \in 0..L /\ k <= i - 1
      BY <1>1, <1>6
    <2>2. Cardinality(UpTo(S, k)) <= Cardinality(UpTo(S, i - 1))
      BY <1>1, <2>1, <1>m
    <2> QED
      BY <1>2, <1>5, <2>2
  <1>7. ASSUME i < k PROVE FALSE
    <2>1. k \in 1..L /\ k - 1 \in 0..L /\ i <= k - 1
      BY <1>1, <1>7
    <2>2. Cardinality(UpTo(S, i)) <= Cardinality(UpTo(S, k - 1))
      BY <1>1, <2>1, <1>m
    <2>3. /\ Cardinality(UpTo(S, k)) = Cardinality(UpTo(S, k - 1)) + 1
          /\ Cardinality(UpTo(S, k - 1)) \in Nat
      BY <2>1, <1>s
    <2> QED
      BY <1>2, <1>5, <2>2, <2>3
  <1> QED
    BY <1>1, <1>4, <1>5, <1>6, <1>7

\* A later one of them is a larger one.
LEMMA NthGrows ==
    ASSUME NEW L \in Nat, NEW S, \A j \in S : j \in 1..L,
           NEW n \in 1 .. Cardinality(S), NEW m \in 1 .. Cardinality(S), n < m
    PROVE  Nth(S, n) < Nth(S, m)
  <1>1. /\ Nth(S, n) \in S /\ Cardinality(UpTo(S, Nth(S, n))) = n
        /\ Nth(S, m) \in S /\ Cardinality(UpTo(S, Nth(S, m))) = m
    BY NthOf
  <1>2. Nth(S, n) \in 0..L /\ Nth(S, m) \in 0..L
    BY <1>1
  <1>3. Nth(S, m) <= Nth(S, n) => m <= n
    BY <1>1, <1>2, UpToSizes
  <1> QED
    BY <1>2, <1>3

-----------------------------------------------------------------------------
(* NonEmpty *)

\* ns is ms without its empty messages, p says where each comes from.
Keeps(ms, ns, p) ==
    /\ p \in [1 .. Len(ns) -> 1 .. Len(ms)]
    /\ \A n \in 1 .. Len(ns) : ns[n] = ms[p[n]]
    /\ \A n, m \in 1 .. Len(ns) : n < m => p[n] < p[m]
    /\ \A i \in 1 .. Len(ms) : ~Empty(ms[i]) => \E n \in 1 .. Len(ns) : p[n] = i

\* Filtering keeps the messages that are not empty, in their order.
LEMMA NonEmptyKeeps ==
    ASSUME NEW S, NEW ms \in Seq(S)
    PROVE  NonEmpty(ms) \in Seq(S) /\ \E p : Keeps(ms, NonEmpty(ms), p)
  <1> DEFINE K == {i \in DOMAIN ms : ~Empty(ms[i])}
             c == Cardinality(K)
             p == [n \in 1..c |-> Nth(K, n)]
             ns == NonEmpty(ms)
  <1>1. Len(ms) \in Nat /\ DOMAIN ms = 1..Len(ms) /\ \A i \in 1..Len(ms) : ms[i] \in S
    BY Indexed
  <1>2. \A i \in K : i \in 1..Len(ms)
    BY <1>1
  <1> HIDE DEF K
  <1>3. c \in Nat
    BY <1>1, <1>2, UpToSizes
  <1>4. \A n \in 1..c : Nth(K, n) \in K
    BY <1>1, <1>2, NthOf
  <1>5. \A i \in K : \E n \in 1..c : Nth(K, n) = i
    BY <1>1, <1>2, NthIs
  <1>6. \A n, m \in 1..c : n < m => Nth(K, n) < Nth(K, m)
    BY <1>1, <1>2, NthGrows
  <1>7. ns = [n \in 1..c |-> ms[Nth(K, n)]]
    BY DEF NonEmpty, K
  <1>8. \A n \in 1..c : ms[Nth(K, n)] \in S
    BY <1>1, <1>2, <1>4
  <1> HIDE DEF c, ns
  <1>9. ns \in Seq(S) /\ Len(ns) = c
    BY <1>3, <1>7, <1>8
  <1>10. p \in [1..Len(ns) -> 1..Len(ms)]
    BY <1>2, <1>4, <1>9
  <1>11. \A n \in 1..Len(ns) : ns[n] = ms[p[n]]
    BY <1>7, <1>9
  <1>12. \A n, m \in 1..Len(ns) : n < m => p[n] < p[m]
    BY <1>6, <1>9
  <1>13. \A i \in 1..Len(ms) : ~Empty(ms[i]) => \E n \in 1..Len(ns) : p[n] = i
    BY <1>1, <1>5, <1>9 DEF K
  <1>14. Keeps(ms, ns, p)
    BY <1>10, <1>11, <1>12, <1>13 DEF Keeps
  <1> QED
    BY <1>9, <1>14 DEF ns

\* Messages that stood next to each other still do.
LEMMA NeighboursStay ==
    ASSUME NEW S, NEW ms \in Seq(S), NEW ns \in Seq(S), NEW p, Keeps(ms, ns, p),
           NEW n \in 1 .. Len(ns), p[n] < Len(ms), ~Empty(ms[p[n] + 1])
    PROVE  n < Len(ns) /\ p[n + 1] = p[n] + 1
  <1>1. /\ Len(ns) \in Nat /\ Len(ms) \in Nat
        /\ \A k \in 1..Len(ns) : p[k] \in 1..Len(ms)
        /\ \A k, m \in 1 .. Len(ns) : k < m => p[k] < p[m]
    BY DEF Keeps
  <1>2. p[n] + 1 \in 1..Len(ms)
    BY <1>1
  <1>3. PICK m \in 1..Len(ns) : p[m] = p[n] + 1
    BY <1>2 DEF Keeps
  <1>4. n < m
    <2>1. m < n => p[m] < p[n]
      BY <1>1
    <2>2. p[n] \in Nat /\ p[m] # p[n] /\ ~(p[m] < p[n])
      BY <1>1, <1>3
    <2> QED
      BY <1>1, <2>1, <2>2
  <1>5. n + 1 \in 1..Len(ns)
    BY <1>1, <1>4
  <1>6. p[n] < p[n + 1] /\ p[n] \in Nat /\ p[n + 1] \in Nat
    BY <1>1, <1>5
  <1>7. ~(n + 1 < m)
    BY <1>1, <1>3, <1>5, <1>6
  <1>8. m = n + 1
    BY <1>1, <1>4, <1>7
  <1> QED
    BY <1>1, <1>3, <1>5, <1>8

-----------------------------------------------------------------------------
(* Messages *)

\* Only a user answers calls, only an assistant makes them, and what tells is text.
Shape(I, P) ==
    {m \in [role : {"user", "assistant"}, calls : SUBSET I, results : SUBSET I,
            text : BOOLEAN, tells : SUBSET P, spilled : BOOLEAN] :
        /\ m.role = "assistant" => m.results = {}
        /\ m.role = "user" => m.calls = {}
        /\ m.tells # {} => m.text}

\* The messages that the code makes have this shape.
LEMMA Shapes ==
    ASSUME NEW I, NEW P
    PROVE  /\ Note \in Shape(I, P) /\ Note.calls = {} /\ Note.results = {} /\ Note.text
           /\ Note.tells = {}
           /\ \A n \in P : Prompt(n) \in Shape(I, P) /\ Prompt(n).results = {}
           /\ \A ids \in SUBSET I, b \in BOOLEAN :
                /\ Results(ids, b) \in Shape(I, P)
                /\ Results(ids, b).results = ids
                /\ Results(ids, b).role = "user"
           /\ \A ids \in SUBSET I, tells \in SUBSET P, b \in BOOLEAN :
                (tells # {} => b) => /\ Assistant(ids, b, tells) \in Shape(I, P)
  BY DEF Note, Prompt, Results, User, Assistant, Shape

\* Results answer calls and say nothing else.
LEMMA ResultsShape ==
    ASSUME NEW I, NEW P, NEW ids \in SUBSET I
    PROVE  Results(ids, FALSE) \in Shape(I, P)
  BY Shapes

\* More calls and more prompts make room for more messages.
LEMMA ShapesGrow ==
    ASSUME NEW I, NEW P, NEW J, NEW Q, I \subseteq J, P \subseteq Q
    PROVE  /\ Shape(I, P) \subseteq Shape(J, Q)
           /\ \A ms \in Seq(Shape(I, P)) : ms \in Seq(Shape(J, Q))
  <1>1. Shape(I, P) \subseteq Shape(J, Q)
    BY DEF Shape
  <1> QED
    BY <1>1, SeqMonotonic

-----------------------------------------------------------------------------
(* What a history is about *)

\* Calls, answers and prompts are those of the messages of a sequence.
LEMMA Contents ==
    ASSUME NEW ms
    PROVE  /\ \A r : r \in ResultsOf(ms) <=> \E m \in Range(ms) : r \in m.results
           /\ \A c : c \in CallsOf(ms) <=> \E m \in Range(ms) : c \in m.calls
           /\ \A t : t \in Told(ms) <=> \E m \in Range(ms) : t \in m.tells
  BY DEF ResultsOf, CallsOf, Told, Range

\* They depend on which messages there are, not on their order.
LEMMA SameContents ==
    ASSUME NEW s, NEW t, NEW u, Range(u) = Range(s) \cup Range(t)
    PROVE  /\ ResultsOf(u) = ResultsOf(s) \cup ResultsOf(t)
           /\ CallsOf(u) = CallsOf(s) \cup CallsOf(t)
           /\ Told(u) = Told(s) \cup Told(t)
  <1>1. \A r : r \in ResultsOf(u) <=> r \in ResultsOf(s) \cup ResultsOf(t)
    BY Contents
  <1>2. \A r : r \in CallsOf(u) <=> r \in CallsOf(s) \cup CallsOf(t)
    BY Contents
  <1>3. \A r : r \in Told(u) <=> r \in Told(s) \cup Told(t)
    BY Contents
  <1> QED
    BY <1>1, <1>2, <1>3

\* A concatenation has the messages of both parts.
LEMMA RangeOfConcat ==
    ASSUME NEW S, NEW s \in Seq(S), NEW t \in Seq(S)
    PROVE  Range(s \o t) = Range(s) \cup Range(t)
  <1> DEFINE u == s \o t
  <1>1. /\ u \in Seq(S) /\ Len(u) = Len(s) + Len(t) /\ Len(s) \in Nat /\ Len(t) \in Nat
        /\ \A i \in 1..Len(s) : u[i] = s[i] /\ i \in 1..Len(u)
        /\ \A i \in 1..Len(t) : u[Len(s) + i] = t[i] /\ Len(s) + i \in 1..Len(u)
        /\ \A i \in 1..Len(u) : \/ i \in 1..Len(s) /\ u[i] = s[i]
                                \/ i - Len(s) \in 1..Len(t) /\ u[i] = t[i - Len(s)]
    OBVIOUS
  <1>2. DOMAIN u = 1..Len(u) /\ DOMAIN s = 1..Len(s) /\ DOMAIN t = 1..Len(t)
    OBVIOUS
  <1> HIDE DEF u
  <1>r. /\ Range(u) = {u[i] : i \in 1..Len(u)}
        /\ Range(s) = {s[i] : i \in 1..Len(s)} /\ Range(t) = {t[i] : i \in 1..Len(t)}
    BY <1>2 DEF Range
  <1>3. ASSUME NEW i \in 1..Len(u) PROVE u[i] \in Range(s) \/ u[i] \in Range(t)
    <2>1. CASE i \in 1..Len(s) /\ u[i] = s[i]
      BY <1>r, <2>1
    <2>2. CASE i - Len(s) \in 1..Len(t) /\ u[i] = t[i - Len(s)]
      BY <1>r, <2>2
    <2> QED
      BY <1>1, <2>1, <2>2
  <1>4. \A i \in 1..Len(s) : s[i] \in Range(u)
    BY <1>1, <1>r
  <1>5. ASSUME NEW i \in 1..Len(t) PROVE t[i] \in Range(u)
    <2>1. Len(s) + i \in 1..Len(u) /\ u[Len(s) + i] = t[i]
      BY <1>1
    <2> QED
      BY <1>r, <2>1
  <1> QED
    BY <1>r, <1>3, <1>4, <1>5 DEF u

\* A concatenation is about what its parts are about.
LEMMA ContentsOfConcat ==
    ASSUME NEW S, NEW s \in Seq(S), NEW t \in Seq(S)
    PROVE  /\ ResultsOf(s \o t) = ResultsOf(s) \cup ResultsOf(t)
           /\ CallsOf(s \o t) = CallsOf(s) \cup CallsOf(t)
           /\ Told(s \o t) = Told(s) \cup Told(t)
  BY RangeOfConcat, SameContents

\* A slice is about no more than the whole.
LEMMA ContentsOfSlice ==
    ASSUME NEW S, NEW s \in Seq(S), NEW a \in 1 .. Len(s) + 1, NEW b \in 0 .. Len(s)
    PROVE  /\ ResultsOf(SubSeq(s, a, b)) \subseteq ResultsOf(s)
           /\ CallsOf(SubSeq(s, a, b)) \subseteq CallsOf(s)
           /\ Told(SubSeq(s, a, b)) \subseteq Told(s)
  <1> DEFINE u == SubSeq(s, a, b)
  <1>1. /\ u \in Seq(S)
        /\ Len(u) = IF a <= b THEN b - a + 1 ELSE 0
        /\ \A i \in 1 .. b - a + 1 : u[i] = s[a + i - 1]
    BY SlicedSeq
  <1>2. Len(s) \in Nat /\ DOMAIN u = 1..Len(u) /\ DOMAIN s = 1..Len(s)
    BY <1>1
  <1> HIDE DEF u
  <1>3. \A i \in 1..Len(u) : a + i - 1 \in 1..Len(s) /\ u[i] = s[a + i - 1]
    BY <1>1, <1>2
  <1>4. Range(u) \subseteq Range(s)
    <2>1. Range(u) = {u[i] : i \in 1..Len(u)} /\ Range(s) = {s[i] : i \in 1..Len(s)}
      BY <1>2 DEF Range
    <2>2. ASSUME NEW i \in 1..Len(u) PROVE u[i] \in Range(s)
      <3>1. a + i - 1 \in 1..Len(s) /\ u[i] = s[a + i - 1]
        BY <1>3
      <3> QED
        BY <2>1, <3>1
    <2> QED
      BY <2>1, <2>2
  <1> QED
    BY <1>4, Contents DEF u

\* One message is about its own calls, answers and prompts.
LEMMA ContentsOfOne ==
    ASSUME NEW m
    PROVE  ResultsOf(<<m>>) = m.results /\ CallsOf(<<m>>) = m.calls /\ Told(<<m>>) = m.tells
  <1>1. Range(<<m>>) = {m}
    BY DEF Range
  <1>2. \A r : r \in ResultsOf(<<m>>) <=> r \in m.results
    BY <1>1, Contents
  <1>3. \A c : c \in CallsOf(<<m>>) <=> c \in m.calls
    BY <1>1, Contents
  <1>4. \A t : t \in Told(<<m>>) <=> t \in m.tells
    BY <1>1, Contents
  <1> QED
    BY <1>2, <1>3, <1>4

-----------------------------------------------------------------------------
(* Histories in which nothing went wrong *)

\* No call is answered twice.
Once(ms) ==
    \A i, j \in DOMAIN ms : \A r \in ms[i].results : r \in ms[j].results => i = j

\* What a provider accepts: calls answered at once, and no call answered twice.
History(ms) == AnsweredAtOnce(ms) /\ Once(ms)

\* Two histories that answer different calls make one.
LEMMA HistoryOfConcat ==
    ASSUME NEW S, NEW s \in Seq(S), NEW t \in Seq(S), History(s), History(t),
           ResultsOf(s) \cap ResultsOf(t) = {}
    PROVE  History(s \o t)
  <1> DEFINE u == s \o t
  <1>1. /\ u \in Seq(S) /\ Len(u) = Len(s) + Len(t) /\ Len(s) \in Nat /\ Len(t) \in Nat
        /\ \A i \in 1..Len(s) : u[i] = s[i]
        /\ \A i \in 1..Len(t) : u[Len(s) + i] = t[i]
        /\ \A i \in 1..Len(u) : \/ i \in 1..Len(s) /\ u[i] = s[i]
                                \/ i - Len(s) \in 1..Len(t) /\ u[i] = t[i - Len(s)]
    OBVIOUS
  <1>2. DOMAIN u = 1..Len(u) /\ DOMAIN s = 1..Len(s) /\ DOMAIN t = 1..Len(t)
    OBVIOUS
  <1> HIDE DEF u
  <1>3. ASSUME NEW i \in 1..Len(u), u[i].calls # {}
        PROVE  i < Len(u) /\ u[i].calls \subseteq u[i + 1].results
    <2>1. CASE i \in 1..Len(s) /\ u[i] = s[i]
      <3>1. i < Len(s) /\ s[i].calls \subseteq s[i + 1].results
        BY <1>2, <1>3, <2>1 DEF History, AnsweredAtOnce
      <3>2. i + 1 \in 1..Len(s)
        BY <1>1, <2>1, <3>1
      <3> QED
        BY <1>1, <2>1, <3>1, <3>2
    <2>2. CASE i - Len(s) \in 1..Len(t) /\ u[i] = t[i - Len(s)]
      <3> DEFINE k == i - Len(s)
      <3>1. k < Len(t) /\ t[k].calls \subseteq t[k + 1].results
        BY <1>2, <1>3, <2>2 DEF History, AnsweredAtOnce
      <3>2. k + 1 \in 1..Len(t) /\ Len(s) + (k + 1) = i + 1
        BY <1>1, <2>2, <3>1
      <3>3. u[i + 1] = t[k + 1]
        BY <1>1, <3>2
      <3> QED
        BY <1>1, <2>2, <3>1, <3>2, <3>3
    <2> QED
      BY <1>1, <2>1, <2>2
  <1>4. ASSUME NEW i \in 1..Len(u), NEW j \in 1..Len(u),
               NEW r \in u[i].results, r \in u[j].results
        PROVE  i = j
    <2>1. CASE i \in 1..Len(s) /\ j \in 1..Len(s)
      BY <1>1, <1>2, <1>4, <2>1 DEF History, Once
    <2>2. CASE /\ i - Len(s) \in 1..Len(t) /\ u[i] = t[i - Len(s)]
               /\ j - Len(s) \in 1..Len(t) /\ u[j] = t[j - Len(s)]
      <3>1. i - Len(s) = j - Len(s)
        BY <1>2, <1>4, <2>2 DEF History, Once
      <3> QED
        BY <1>1, <3>1
    <2>3. ASSUME NEW k \in 1..Len(u), NEW l \in 1..Len(u), r \in u[k].results,
                 r \in u[l].results,
                 k \in 1..Len(s), l - Len(s) \in 1..Len(t) /\ u[l] = t[l - Len(s)]
          PROVE  FALSE
      <3>1. r \in s[k].results /\ s[k] \in Range(s)
        BY <1>1, <1>2, <2>3 DEF Range
      <3>2. r \in t[l - Len(s)].results /\ t[l - Len(s)] \in Range(t)
        BY <1>2, <2>3 DEF Range
      <3>3. r \in ResultsOf(s) /\ r \in ResultsOf(t)
        BY <3>1, <3>2, Contents
      <3> QED
        BY <3>3
    <2> QED
      BY <1>1, <1>4, <2>1, <2>2, <2>3
  <1> QED
    BY <1>2, <1>3, <1>4 DEF u, History, AnsweredAtOnce, Once

\* The end of a history is one.
LEMMA HistoryOfSuffix ==
    ASSUME NEW S, NEW s \in Seq(S), NEW k \in 1 .. Len(s), History(s)
    PROVE  History(SubSeq(s, k, Len(s)))
  <1> DEFINE u == SubSeq(s, k, Len(s))
  <1>1. Len(s) \in Nat /\ DOMAIN s = 1..Len(s) /\ k \in 1..Len(s)+1 /\ Len(s) \in 0..Len(s)
    OBVIOUS
  <1>2. /\ u \in Seq(S) /\ Len(u) = Len(s) - k + 1
        /\ \A i \in 1..Len(s) - k + 1 : u[i] = s[k + i - 1]
    BY <1>1, SlicedSeq
  <1> HIDE DEF u
  <1>3. DOMAIN u = 1..Len(u)
    BY <1>2
  <1>4. \A i \in 1..Len(u) : k + i - 1 \in 1..Len(s) /\ u[i] = s[k + i - 1]
    BY <1>1, <1>2
  <1>5. ASSUME NEW i \in 1..Len(u), u[i].calls # {}
        PROVE  i < Len(u) /\ u[i].calls \subseteq u[i + 1].results
    <2>1. k + i - 1 < Len(s) /\ s[k + i - 1].calls \subseteq s[k + i - 1 + 1].results
      BY <1>1, <1>4, <1>5 DEF History, AnsweredAtOnce
    <2>2. i + 1 \in 1..Len(u) /\ k + (i + 1) - 1 = k + i - 1 + 1
      BY <1>1, <1>2, <2>1
    <2> QED
      BY <1>2, <1>4, <2>1, <2>2
  <1>6. ASSUME NEW i \in 1..Len(u), NEW j \in 1..Len(u),
               NEW r \in u[i].results, r \in u[j].results
        PROVE  i = j
    <2>1. k + i - 1 = k + j - 1
      BY <1>1, <1>4, <1>6 DEF History, Once
    <2> QED
      BY <1>1, <2>1
  <1> QED
    BY <1>3, <1>5, <1>6 DEF u, History, AnsweredAtOnce, Once

\* A message without calls is a history.
LEMMA HistoryOfOne ==
    ASSUME NEW m, m.calls = {}
    PROVE  History(<<m>>)
  BY DEF History, AnsweredAtOnce, Once

\* Nothing is a history.
LEMMA HistoryOfEmpty == History(<<>>)
  BY DEF History, AnsweredAtOnce, Once

-----------------------------------------------------------------------------
(* toolPairIntegrity.ts *)

\* Empty messages have nothing to lose.
LEMMA NonEmptyContents ==
    ASSUME NEW I, NEW P, NEW ms \in Seq(Shape(I, P))
    PROVE  /\ NonEmpty(ms) \in Seq(Shape(I, P))
           /\ ResultsOf(NonEmpty(ms)) = ResultsOf(ms)
           /\ CallsOf(NonEmpty(ms)) = CallsOf(ms)
           /\ Told(NonEmpty(ms)) = Told(ms)
  <1> DEFINE ns == NonEmpty(ms)
  <1>1. ns \in Seq(Shape(I, P)) /\ \E p : Keeps(ms, ns, p)
    BY NonEmptyKeeps
  <1> HIDE DEF ns
  <1>2. PICK p : Keeps(ms, ns, p)
    BY <1>1
  <1>3. /\ DOMAIN ms = 1..Len(ms) /\ \A i \in 1..Len(ms) : ms[i] \in Shape(I, P)
        /\ DOMAIN ns = 1..Len(ns)
    BY <1>1
  <1>4. \A m \in Range(ns) : m \in Range(ms)
    BY <1>2, <1>3 DEF Range, Keeps
  <1>5. \A i \in 1..Len(ms) : ~Empty(ms[i]) => ms[i] \in Range(ns)
    BY <1>2, <1>3 DEF Range, Keeps
  <1>6. \A m \in Range(ms) : m \in Shape(I, P) /\ (~Empty(m) => m \in Range(ns))
    BY <1>3, <1>5 DEF Range
  <1>7. \A m \in Range(ms) :
            Empty(m) => m.results = {} /\ m.calls = {} /\ m.tells = {}
    BY <1>6 DEF Shape, Empty
  <1>8. \A r : r \in ResultsOf(ns) <=> r \in ResultsOf(ms)
    BY <1>4, <1>6, <1>7, Contents
  <1>9. \A r : r \in CallsOf(ns) <=> r \in CallsOf(ms)
    BY <1>4, <1>6, <1>7, Contents
  <1>10. \A r : r \in Told(ns) <=> r \in Told(ms)
    BY <1>4, <1>6, <1>7, Contents
  <1>11. ResultsOf(ns) = ResultsOf(ms) /\ CallsOf(ns) = CallsOf(ms) /\ Told(ns) = Told(ms)
    BY <1>8, <1>9, <1>10
  <1> QED
    BY <1>1, <1>11 DEF ns

\* Dropping empty messages leaves a history.
LEMMA NonEmptyHistory ==
    ASSUME NEW S, NEW ms \in Seq(S)
    PROVE  /\ AnsweredAtOnce(ms) => AnsweredAtOnce(NonEmpty(ms))
           /\ Once(ms) => Once(NonEmpty(ms))
  <1> DEFINE ns == NonEmpty(ms)
  <1>1. ns \in Seq(S) /\ \E p : Keeps(ms, ns, p)
    BY NonEmptyKeeps
  <1> HIDE DEF ns
  <1>2. PICK p : Keeps(ms, ns, p)
    BY <1>1
  <1>3. /\ DOMAIN ms = 1..Len(ms) /\ DOMAIN ns = 1..Len(ns)
        /\ Len(ms) \in Nat /\ Len(ns) \in Nat
    BY <1>1
  <1>p. \A n \in 1..Len(ns) : p[n] \in 1..Len(ms) /\ ns[n] = ms[p[n]]
    BY <1>2 DEF Keeps
  <1>4. ASSUME AnsweredAtOnce(ms), NEW n \in 1..Len(ns), ns[n].calls # {}
        PROVE  n < Len(ns) /\ ns[n].calls \subseteq ns[n + 1].results
    <2>1. p[n] < Len(ms) /\ ms[p[n]].calls \subseteq ms[p[n] + 1].results
      BY <1>3, <1>p, <1>4 DEF AnsweredAtOnce
    <2>2. ~Empty(ms[p[n] + 1])
      BY <1>3, <1>p, <1>4, <2>1 DEF Empty
    <2>3. n < Len(ns) /\ p[n + 1] = p[n] + 1
      BY <1>1, <1>2, <2>1, <2>2, NeighboursStay
    <2>4. n + 1 \in 1..Len(ns)
      BY <1>3, <1>p, <2>3
    <2> QED
      BY <1>3, <1>p, <2>1, <2>3, <2>4
  <1>5. ASSUME Once(ms), NEW n \in 1..Len(ns), NEW m \in 1..Len(ns),
               NEW r \in ns[n].results, r \in ns[m].results
        PROVE  n = m
    <2>1. p[n] = p[m] /\ p[n] \in Nat
      BY <1>3, <1>p, <1>5 DEF Once
    <2>2. \A k, l \in 1..Len(ns) : k < l => p[k] < p[l]
      BY <1>2 DEF Keeps
    <2>3. ~(n < m) /\ ~(m < n)
      BY <2>1, <2>2
    <2> QED
      BY <1>3, <1>p, <2>3
  <1> QED
    BY <1>3, <1>4, <1>5 DEF ns, AnsweredAtOnce, Once

\* Taking calls away leaves the rest of the messages as it was.
LEMMA StripCallsIs ==
    ASSUME NEW I, NEW P, NEW Q, NEW ms \in Seq(Shape(I, P))
    PROVE  /\ StripCalls(ms, Q) \in Seq(Shape(I, P))
           /\ ResultsOf(StripCalls(ms, Q)) = ResultsOf(ms)
           /\ CallsOf(StripCalls(ms, Q)) = CallsOf(ms) \cap Q
           /\ Told(StripCalls(ms, Q)) = Told(ms)
           /\ AnsweredAtOnce(ms) => AnsweredAtOnce(StripCalls(ms, Q))
           /\ Once(ms) => Once(StripCalls(ms, Q))
  <1> DEFINE cs == [i \in DOMAIN ms |-> [ms[i] EXCEPT !.calls = @ \cap Q]]
  <1>1. Len(ms) \in Nat /\ DOMAIN ms = 1..Len(ms) /\ \A i \in 1..Len(ms) : ms[i] \in Shape(I, P)
    OBVIOUS
  <1>2. \A m \in Shape(I, P) :
            LET c == [m EXCEPT !.calls = @ \cap Q]
            IN  /\ c \in Shape(I, P)
                /\ c.calls = m.calls \cap Q /\ c.results = m.results /\ c.tells = m.tells
    BY DEF Shape
  <1>3. /\ \A i \in 1..Len(ms) : /\ cs[i] \in Shape(I, P)
                                 /\ cs[i].calls = ms[i].calls \cap Q
                                 /\ cs[i].results = ms[i].results
                                 /\ cs[i].tells = ms[i].tells
        /\ DOMAIN cs = 1..Len(ms)
    BY <1>1, <1>2
  <1>s. cs \in [1..Len(ms) -> Shape(I, P)]
    BY <1>1, <1>2
  <1>4. cs \in Seq(Shape(I, P)) /\ Len(cs) = Len(ms)
    <2> HIDE DEF cs
    <2> QED
      BY <1>1, <1>s
  <1>5. StripCalls(ms, Q) = NonEmpty(cs)
    BY DEF StripCalls
  <1> HIDE DEF cs
  <1>6. \A r : r \in ResultsOf(cs) <=> r \in ResultsOf(ms)
    BY <1>1, <1>3 DEF ResultsOf
  <1>7. \A r : r \in CallsOf(cs) <=> r \in CallsOf(ms) \cap Q
    BY <1>1, <1>3 DEF CallsOf
  <1>8. \A r : r \in Told(cs) <=> r \in Told(ms)
    BY <1>1, <1>3 DEF Told
  <1>9. ResultsOf(cs) = ResultsOf(ms) /\ CallsOf(cs) = CallsOf(ms) \cap Q /\ Told(cs) = Told(ms)
    BY <1>6, <1>7, <1>8
  <1>10. ASSUME AnsweredAtOnce(ms) PROVE AnsweredAtOnce(cs)
    <2>1. ASSUME NEW i \in 1..Len(ms), cs[i].calls # {}
          PROVE  i < Len(ms) /\ cs[i].calls \subseteq cs[i + 1].results
      <3>1. i < Len(ms) /\ ms[i].calls \subseteq ms[i + 1].results
        BY <1>1, <1>3, <1>10, <2>1 DEF AnsweredAtOnce
      <3>2. i + 1 \in 1..Len(ms)
        BY <1>1, <3>1
      <3> QED
        BY <1>3, <3>1, <3>2
    <2> QED
      BY <1>3, <1>4, <2>1 DEF AnsweredAtOnce
  <1>11. ASSUME Once(ms) PROVE Once(cs)
    BY <1>1, <1>3, <1>11 DEF Once
  <1>12. /\ NonEmpty(cs) \in Seq(Shape(I, P))
         /\ ResultsOf(NonEmpty(cs)) = ResultsOf(cs)
         /\ CallsOf(NonEmpty(cs)) = CallsOf(cs)
         /\ Told(NonEmpty(cs)) = Told(cs)
    BY <1>4, NonEmptyContents
  <1>13. /\ AnsweredAtOnce(cs) => AnsweredAtOnce(NonEmpty(cs))
         /\ Once(cs) => Once(NonEmpty(cs))
    BY <1>4, NonEmptyHistory
  <1> QED
    BY <1>5, <1>9, <1>10, <1>11, <1>12, <1>13

\* Taking answers away leaves the rest, and every call with its answer if the calls are
\* among those whose answers stay.
LEMMA StripResultsIs ==
    ASSUME NEW I, NEW P, NEW Q, NEW ms \in Seq(Shape(I, P))
    PROVE  /\ StripResults(ms, Q) \in Seq(Shape(I, P))
           /\ ResultsOf(StripResults(ms, Q)) = ResultsOf(ms) \cap Q
           /\ CallsOf(StripResults(ms, Q)) = CallsOf(ms)
           /\ Told(StripResults(ms, Q)) = Told(ms)
           /\ AnsweredAtOnce(ms) /\ CallsOf(ms) \subseteq Q
                => AnsweredAtOnce(StripResults(ms, Q))
           /\ Once(ms) => Once(StripResults(ms, Q))
  <1> DEFINE cs == [i \in DOMAIN ms |-> [ms[i] EXCEPT !.results = @ \cap Q]]
  <1>1. Len(ms) \in Nat /\ DOMAIN ms = 1..Len(ms) /\ \A i \in 1..Len(ms) : ms[i] \in Shape(I, P)
    OBVIOUS
  <1>2. \A m \in Shape(I, P) :
            LET c == [m EXCEPT !.results = @ \cap Q]
            IN  /\ c \in Shape(I, P)
                /\ c.calls = m.calls /\ c.results = m.results \cap Q /\ c.tells = m.tells
    BY DEF Shape
  <1>3. /\ \A i \in 1..Len(ms) : /\ cs[i] \in Shape(I, P)
                                 /\ cs[i].calls = ms[i].calls
                                 /\ cs[i].results = ms[i].results \cap Q
                                 /\ cs[i].tells = ms[i].tells
        /\ DOMAIN cs = 1..Len(ms)
    BY <1>1, <1>2
  <1>s. cs \in [1..Len(ms) -> Shape(I, P)]
    BY <1>1, <1>2
  <1>4. cs \in Seq(Shape(I, P)) /\ Len(cs) = Len(ms)
    <2> HIDE DEF cs
    <2> QED
      BY <1>1, <1>s
  <1>5. StripResults(ms, Q) = NonEmpty(cs)
    BY DEF StripResults
  <1> HIDE DEF cs
  <1>6. \A r : r \in ResultsOf(cs) <=> r \in ResultsOf(ms) \cap Q
    BY <1>1, <1>3 DEF ResultsOf
  <1>7. \A r : r \in CallsOf(cs) <=> r \in CallsOf(ms)
    BY <1>1, <1>3 DEF CallsOf
  <1>8. \A r : r \in Told(cs) <=> r \in Told(ms)
    BY <1>1, <1>3 DEF Told
  <1>9. ResultsOf(cs) = ResultsOf(ms) \cap Q /\ CallsOf(cs) = CallsOf(ms) /\ Told(cs) = Told(ms)
    BY <1>6, <1>7, <1>8
  <1>10. ASSUME AnsweredAtOnce(ms), CallsOf(ms) \subseteq Q PROVE AnsweredAtOnce(cs)
    <2>1. ASSUME NEW i \in 1..Len(ms), cs[i].calls # {}
          PROVE  i < Len(ms) /\ cs[i].calls \subseteq cs[i + 1].results
      <3>1. i < Len(ms) /\ ms[i].calls \subseteq ms[i + 1].results
        BY <1>1, <1>3, <1>10, <2>1 DEF AnsweredAtOnce
      <3>2. i + 1 \in 1..Len(ms)
        BY <1>1, <3>1
      <3>3. ms[i].calls \subseteq Q
        BY <1>1, <1>10 DEF CallsOf
      <3> QED
        BY <1>3, <3>1, <3>2, <3>3
    <2> QED
      BY <1>3, <1>4, <2>1 DEF AnsweredAtOnce
  <1>11. ASSUME Once(ms) PROVE Once(cs)
    BY <1>1, <1>3, <1>11 DEF Once
  <1>12. /\ NonEmpty(cs) \in Seq(Shape(I, P))
         /\ ResultsOf(NonEmpty(cs)) = ResultsOf(cs)
         /\ CallsOf(NonEmpty(cs)) = CallsOf(cs)
         /\ Told(NonEmpty(cs)) = Told(cs)
    BY <1>4, NonEmptyContents
  <1>13. /\ AnsweredAtOnce(cs) => AnsweredAtOnce(NonEmpty(cs))
         /\ Once(cs) => Once(NonEmpty(cs))
    BY <1>4, NonEmptyHistory
  <1> QED
    BY <1>5, <1>9, <1>10, <1>11, <1>12, <1>13

-----------------------------------------------------------------------------
(* The cuts *)

\* Something is left that is not mere answers.
Sendable(ms) == \E m \in Range(ms) : m.text \/ m.results = {}

\* ns is a history if ms is, without new answers, and has as much to send.
Follows(ns, ms) ==
    /\ ResultsOf(ns) \subseteq ResultsOf(ms)
    /\ History(ms) => History(ns)
    /\ Sendable(ms) => Sendable(ns)

\* A note at the end changes nothing but that there is something to send.
LEMMA NoteAdded ==
    ASSUME NEW S, Note \in S, NEW ms \in Seq(S), NEW added \in {<<>>, <<Note>>}
    PROVE  /\ ms \o added \in Seq(S)
           /\ ResultsOf(ms \o added) = ResultsOf(ms)
           /\ CallsOf(ms \o added) = CallsOf(ms)
           /\ Told(ms \o added) = Told(ms)
           /\ Follows(ms \o added, ms)
           /\ added # <<>> => Sendable(ms \o added)
  <1>1. CASE added = <<>>
    <2>1. ms \o added = ms
      BY <1>1
    <2> QED
      BY <1>1, <2>1 DEF Follows
  <1>2. CASE added = <<Note>>
    <2>1. Note.calls = {} /\ Note.results = {} /\ Note.tells = {} /\ Note.text
      BY DEF Note, User
    <2>2. added \in Seq(S) /\ Note \in Range(added)
      BY <1>2 DEF Range
    <2>3. /\ ResultsOf(added) = {} /\ CallsOf(added) = {} /\ Told(added) = {}
          /\ History(added)
      BY <1>2, <2>1, ContentsOfOne, HistoryOfOne
    <2>c. /\ ResultsOf(ms \o added) = ResultsOf(ms) \cup ResultsOf(added)
          /\ CallsOf(ms \o added) = CallsOf(ms) \cup CallsOf(added)
          /\ Told(ms \o added) = Told(ms) \cup Told(added)
      BY <2>2, ContentsOfConcat
    <2>4. /\ ResultsOf(ms \o added) = ResultsOf(ms)
          /\ CallsOf(ms \o added) = CallsOf(ms)
          /\ Told(ms \o added) = Told(ms)
      BY <2>c, <2>3
    <2>5. History(ms) => History(ms \o added)
      BY <2>2, <2>3, HistoryOfConcat
    <2>6. Note \in Range(ms \o added)
      BY <2>2, RangeOfConcat
    <2>7. Sendable(ms \o added)
      BY <2>1, <2>6 DEF Sendable
    <2>8. ms \o added \in Seq(S)
      BY <2>2
    <2> QED
      BY <2>4, <2>5, <2>7, <2>8 DEF Follows
  <1> QED
    BY <1>1, <1>2

\* ensureTrailingUserMessage adds a note, or nothing.
LEMMA EndsWithUserIs ==
    ASSUME NEW S, NEW ms \in Seq(S)
    PROVE  \E added \in {<<>>, <<Note>>} : EndsWithUser(ms) = ms \o added
  <1>1. ms = ms \o <<>> /\ Append(ms, Note) = ms \o <<Note>>
    OBVIOUS
  <1> QED
    BY <1>1 DEF EndsWithUser

\* The snip takes out at least the message in which a turn of the middle begins.
LEMMA TurnStartsOrdered ==
    ASSUME NEW S, NEW ms \in Seq(S),
           ~(Cardinality(TurnStarts(ms)) <= HeadTurns + TailTurns)
    PROVE  LET a == TurnStart(ms, HeadTurns + 1)
               b == TurnStart(ms, Cardinality(TurnStarts(ms)) - TailTurns + 1)
           IN  a \in 1..Len(ms) /\ b \in 1..Len(ms) /\ a < b
  <1> DEFINE T == TurnStarts(ms)
             c == Cardinality(T)
  <1>1. Len(ms) \in Nat /\ \A i \in T : i \in 1..Len(ms)
    BY Indexed DEF TurnStarts
  <1> HIDE DEF T
  <1>2. c \in Nat
    BY <1>1, UpToSizes
  <1>3. HeadTurns \in Nat /\ TailTurns \in Nat /\ TailTurns > 0
    BY CutAssumption
  <1>4. ~(c <= HeadTurns + TailTurns)
    BY DEF T
  <1>5. /\ HeadTurns + 1 \in 1..c /\ c - TailTurns + 1 \in 1..c
        /\ HeadTurns + 1 < c - TailTurns + 1
    BY <1>2, <1>3, <1>4
  <1>6. Nth(T, HeadTurns + 1) \in T /\ Nth(T, c - TailTurns + 1) \in T
    BY <1>1, <1>5, NthOf
  <1>7. Nth(T, HeadTurns + 1) < Nth(T, c - TailTurns + 1)
    BY <1>1, <1>5, NthGrows
  <1> QED
    BY <1>1, <1>6, <1>7 DEF TurnStart, T

\* A note is a history, with neither calls nor answers.
LEMMA NoteIs ==
    /\ \A I, P : Note \in Shape(I, P)
    /\ ResultsOf(<<Note>>) = {} /\ CallsOf(<<Note>>) = {} /\ Told(<<Note>>) = {}
    /\ History(<<Note>>) /\ Sendable(<<Note>>)
  <1>1. Note.calls = {} /\ Note.results = {} /\ Note.tells = {} /\ Note.text
    BY DEF Note, User
  <1>2. Note \in Range(<<Note>>)
    BY DEF Range
  <1> QED
    BY <1>1, <1>2, Shapes, ContentsOfOne, HistoryOfOne DEF Sendable

\* A concatenation can be sent when one of its parts can.
LEMMA SendableConcat ==
    ASSUME NEW S, NEW s \in Seq(S), NEW t \in Seq(S), Sendable(s) \/ Sendable(t)
    PROVE  Sendable(s \o t)
  BY RangeOfConcat DEF Sendable

\* No call is answered twice in a slice either.
LEMMA OnceOfSlice ==
    ASSUME NEW S, NEW s \in Seq(S), NEW a \in 1 .. Len(s) + 1, NEW b \in 0 .. Len(s), Once(s)
    PROVE  Once(SubSeq(s, a, b))
  <1> DEFINE u == SubSeq(s, a, b)
  <1>1. /\ u \in Seq(S)
        /\ Len(u) = IF a <= b THEN b - a + 1 ELSE 0
        /\ \A i \in 1 .. b - a + 1 : u[i] = s[a + i - 1]
    BY SlicedSeq
  <1>2. Len(s) \in Nat /\ DOMAIN u = 1..Len(u) /\ DOMAIN s = 1..Len(s)
    BY <1>1
  <1> HIDE DEF u
  <1>3. \A i \in 1..Len(u) : a + i - 1 \in 1..Len(s) /\ u[i] = s[a + i - 1]
    BY <1>1, <1>2
  <1>4. ASSUME NEW i \in 1..Len(u), NEW j \in 1..Len(u),
               NEW r \in u[i].results, r \in u[j].results
        PROVE  i = j
    <2>1. a + i - 1 = a + j - 1
      BY <1>2, <1>3, <1>4 DEF Once
    <2> QED
      BY <1>1, <2>1
  <1> QED
    BY <1>2, <1>4 DEF u, Once

\* The two ends of a history with something between them share no answers, and the
\* first end has no calls that the other one answers.
LEMMA EndsApart ==
    ASSUME NEW S, NEW ms \in Seq(S), NEW a \in 1..Len(ms), NEW b \in 1..Len(ms), a < b,
           History(ms)
    PROVE  LET head == SubSeq(ms, 1, a - 1)
               tail == SubSeq(ms, b, Len(ms))
           IN  /\ ResultsOf(head) \cap ResultsOf(tail) = {}
               /\ CallsOf(head) \cap ResultsOf(tail) = {}
  <1> DEFINE head == SubSeq(ms, 1, a - 1)
             tail == SubSeq(ms, b, Len(ms))
  <1>0. /\ Len(ms) \in Nat /\ 1 \in 1..Len(ms) + 1 /\ a - 1 \in 0..Len(ms)
        /\ b \in 1..Len(ms) + 1 /\ Len(ms) \in 0..Len(ms)
    OBVIOUS
  <1>1. /\ head \in Seq(S) /\ Len(head) = IF 1 <= a - 1 THEN a - 1 - 1 + 1 ELSE 0
        /\ \A i \in 1 .. a - 1 - 1 + 1 : head[i] = ms[1 + i - 1]
    BY <1>0, SlicedSeq
  <1>2. /\ tail \in Seq(S) /\ Len(tail) = IF b <= Len(ms) THEN Len(ms) - b + 1 ELSE 0
        /\ \A i \in 1 .. Len(ms) - b + 1 : tail[i] = ms[b + i - 1]
    BY <1>0, SlicedSeq
  <1>3. DOMAIN head = 1..Len(head) /\ DOMAIN tail = 1..Len(tail) /\ DOMAIN ms = 1..Len(ms)
    BY <1>1, <1>2
  <1> HIDE DEF head, tail
  <1>4. \A i \in DOMAIN head : i \in DOMAIN ms /\ i < a /\ head[i] = ms[i] /\ i \in Nat
    BY <1>0, <1>1, <1>3
  <1>5. \A i \in DOMAIN tail :
            b + i - 1 \in DOMAIN ms /\ b + i - 1 >= b /\ tail[i] = ms[b + i - 1]
    BY <1>0, <1>2, <1>3
  <1>6. ASSUME NEW r, r \in ResultsOf(head), r \in ResultsOf(tail) PROVE FALSE
    <2>1. PICK i \in DOMAIN head : r \in head[i].results
      BY <1>6 DEF ResultsOf
    <2>2. PICK j \in DOMAIN tail : r \in tail[j].results
      BY <1>6 DEF ResultsOf
    <2>3. i = b + j - 1
      BY <1>4, <1>5, <2>1, <2>2 DEF History, Once
    <2> QED
      BY <1>4, <1>5, <2>3
  <1>7. ASSUME NEW c, c \in CallsOf(head), c \in ResultsOf(tail) PROVE FALSE
    <2>1. PICK i \in DOMAIN head : c \in head[i].calls
      BY <1>7 DEF CallsOf
    <2>2. PICK j \in DOMAIN tail : c \in tail[j].results
      BY <1>7 DEF ResultsOf
    <2>3. i < Len(ms) /\ c \in ms[i + 1].results
      BY <1>4, <2>1 DEF History, AnsweredAtOnce
    <2>4. i + 1 \in DOMAIN ms
      BY <1>0, <1>3, <1>4, <2>3
    <2>5. i + 1 = b + j - 1
      BY <1>5, <2>2, <2>3, <2>4 DEF History, Once
    <2> QED
      BY <1>4, <1>5, <2>5
  <1> QED
    BY <1>6, <1>7 DEF head, tail

\* A snip leaves a history of a history, and something to send (SnipEngine.snip).
LEMMA SnippedIs ==
    ASSUME NEW I, NEW P, NEW ms \in Seq(Shape(I, P))
    PROVE  Snipped(ms) \in Seq(Shape(I, P)) /\ Follows(Snipped(ms), ms)
  <1> DEFINE turns == Cardinality(TurnStarts(ms))
             S == Shape(I, P)
             a == TurnStart(ms, HeadTurns + 1)
             b == TurnStart(ms, turns - TailTurns + 1)
             head == SubSeq(ms, 1, a - 1)
             tail == SubSeq(ms, b, Len(ms))
             h == StripCalls(head, ResultsOf(tail))
             t == StripResults(tail, CallsOf(head) \cup CallsOf(tail))
             n == <<Note>>
  <1>1. CASE turns <= HeadTurns + TailTurns
    <2>1. Snipped(ms) = ms
      BY <1>1 DEF Snipped
    <2> QED
      BY <2>1 DEF Follows
  <1>2. CASE ~(turns <= HeadTurns + TailTurns)
    <2>1. a \in 1..Len(ms) /\ b \in 1..Len(ms) /\ a < b /\ Len(ms) \in Nat
      BY <1>2, TurnStartsOrdered
    <2>2. Snipped(ms) = EndsWithUser(h \o n \o t)
      BY <1>2 DEF Snipped
    <2> HIDE DEF a, b, turns
    <2>3. /\ 1 \in 1..Len(ms) + 1 /\ a - 1 \in 0..Len(ms)
          /\ b \in 1..Len(ms) + 1 /\ Len(ms) \in 0..Len(ms)
      BY <2>1
    <2>4. head \in Seq(S) /\ tail \in Seq(S)
      BY <2>3, SlicedSeq
    <2>5. ResultsOf(head) \subseteq ResultsOf(ms) /\ ResultsOf(tail) \subseteq ResultsOf(ms)
      BY <2>3, ContentsOfSlice
    <2>6. ASSUME History(ms)
          PROVE  /\ ResultsOf(head) \cap ResultsOf(tail) = {}
                 /\ CallsOf(head) \cap ResultsOf(tail) = {}
      BY <2>1, <2>6, EndsApart
    <2>7. ASSUME History(ms) PROVE Once(head)
      BY <2>3, <2>7, OnceOfSlice DEF History
    <2>8. ASSUME History(ms) PROVE History(tail)
      BY <2>1, <2>8, HistoryOfSuffix
    <2> HIDE DEF head, tail
    <2>9. /\ h \in Seq(S) /\ ResultsOf(h) = ResultsOf(head)
          /\ CallsOf(h) = CallsOf(head) \cap ResultsOf(tail)
          /\ Once(head) => Once(h)
      BY <2>4, StripCallsIs
    <2>10. /\ t \in Seq(S) /\ ResultsOf(t) \subseteq ResultsOf(tail)
           /\ History(tail) => History(t)
      BY <2>4, StripResultsIs DEF History
    <2>11. /\ Note \in S /\ n \in Seq(S) /\ ResultsOf(n) = {} /\ History(n) /\ Sendable(n)
      <3>1. Note \in S
        BY NoteIs
      <3> HIDE DEF S
      <3>2. n \in Seq(S)
        BY <3>1
      <3> QED
        BY <3>1, <3>2, NoteIs
    <2> HIDE DEF h, t, n, S
    <2>12. ASSUME CallsOf(h) = {} PROVE AnsweredAtOnce(h)
      BY <2>12 DEF CallsOf, AnsweredAtOnce
    <2>13. /\ h \o n \in Seq(S) /\ h \o n \o t \in Seq(S)
      BY <2>9, <2>10, <2>11
    <2>s. h \in Seq(S) /\ n \in Seq(S) /\ t \in Seq(S) /\ h \o n \in Seq(S)
      BY <2>9, <2>10, <2>11, <2>13
    <2>14. /\ ResultsOf(h \o n) = ResultsOf(h)
           /\ ResultsOf(h \o n \o t) = ResultsOf(h) \cup ResultsOf(t)
      <3>1. ResultsOf(h \o n) = ResultsOf(h) \cup ResultsOf(n)
        BY <2>s, ContentsOfConcat
      <3>2. ResultsOf(h \o n \o t) = ResultsOf(h \o n) \cup ResultsOf(t)
        <4> DEFINE hn == h \o n
        <4>1. hn \in Seq(S)
          BY <2>s
        <4> HIDE DEF hn
        <4>2. ResultsOf(hn \o t) = ResultsOf(hn) \cup ResultsOf(t)
          BY <2>s, <4>1, ContentsOfConcat
        <4> QED
          BY <4>2 DEF hn
      <3> QED
        BY <2>11, <3>1, <3>2
    <2>15. ASSUME History(ms) PROVE History(h \o n \o t)
      <3>a. CallsOf(h) = {}
        BY <2>6, <2>9, <2>15
      <3>b. Once(h)
        BY <2>7, <2>9, <2>15
      <3>c. History(t)
        BY <2>8, <2>10, <2>15
      <3>1. History(h) /\ History(t)
        BY <2>12, <3>a, <3>b, <3>c DEF History
      <3>d. ResultsOf(h) \cap ResultsOf(n) = {}
        BY <2>11
      <3>2. History(h \o n)
        BY <2>9, <2>11, <3>1, <3>d, HistoryOfConcat
      <3>3. ResultsOf(h \o n) \cap ResultsOf(t) = {}
        BY <2>6, <2>9, <2>10, <2>14, <2>15
      <3> QED
        BY <2>10, <2>13, <3>1, <3>2, <3>3, HistoryOfConcat
    <2>16. Sendable(h \o n)
      BY <2>9, <2>11, SendableConcat
    <2>17. Sendable(h \o n \o t)
      BY <2>10, <2>13, <2>16, SendableConcat
    <2>18. Follows(h \o n \o t, ms)
      BY <2>5, <2>9, <2>10, <2>14, <2>15, <2>17 DEF Follows
    <2>19. PICK added \in {<<>>, <<Note>>} : EndsWithUser(h \o n \o t) = h \o n \o t \o added
      BY <2>13, EndsWithUserIs
    <2>20. /\ h \o n \o t \o added \in Seq(S)
           /\ Follows(h \o n \o t \o added, h \o n \o t)
      BY <2>11, <2>13, NoteAdded
    <2> QED
      BY <2>2, <2>18, <2>19, <2>20 DEF Follows, S
  <1> QED
    BY <1>1, <1>2

\* The same for three parts.
LEMMA ContentsOfThree ==
    ASSUME NEW S, NEW s \in Seq(S), NEW t \in Seq(S), NEW u \in Seq(S)
    PROVE  /\ s \o t \in Seq(S) /\ s \o t \o u \in Seq(S)
           /\ ResultsOf(s \o t \o u) = ResultsOf(s) \cup ResultsOf(t) \cup ResultsOf(u)
           /\ CallsOf(s \o t \o u) = CallsOf(s) \cup CallsOf(t) \cup CallsOf(u)
           /\ Told(s \o t \o u) = Told(s) \cup Told(t) \cup Told(u)
  <1> DEFINE st == s \o t
  <1>1. /\ st \in Seq(S)
        /\ ResultsOf(st) = ResultsOf(s) \cup ResultsOf(t)
        /\ CallsOf(st) = CallsOf(s) \cup CallsOf(t)
        /\ Told(st) = Told(s) \cup Told(t)
    BY ContentsOfConcat
  <1>2. st \o u \in Seq(S)
    BY <1>1
  <1> HIDE DEF st
  <1>3. /\ ResultsOf(st \o u) = ResultsOf(st) \cup ResultsOf(u)
        /\ CallsOf(st \o u) = CallsOf(st) \cup CallsOf(u)
        /\ Told(st \o u) = Told(st) \cup Told(u)
    BY <1>1, ContentsOfConcat
  <1> QED
    BY <1>1, <1>2, <1>3 DEF st

\* What is kept is the end of the messages, and a history if they are.
LEMMA KeptIs ==
    ASSUME NEW S, NEW ms \in Seq(S), NEW percent \in 0..100
    PROVE  LET kept == Kept(ms, percent)
               cut == SubSeq(ms, 1, Len(ms) - Len(kept))
           IN  /\ kept \in Seq(S) /\ cut \in Seq(S) /\ ms = cut \o kept
               /\ ResultsOf(kept) \subseteq ResultsOf(ms)
               /\ History(ms) => History(kept)
  <1> DEFINE kept == Kept(ms, percent)
             cut == SubSeq(ms, 1, Len(ms) - Len(kept))
  <1>1. CASE ms = <<>>
    <2>1. kept = <<>> /\ Len(ms) = 0
      BY <1>1 DEF Kept
    <2>2. cut = <<>>
      <3>1. Len(ms) - Len(kept) = 0
        BY <1>1, <2>1
      <3>2. SubSeq(ms, 1, 0) = <<>>
        BY SubSeqEmpty
      <3> QED
        BY <3>1, <3>2
    <2>3. /\ kept \in Seq(S) /\ cut \in Seq(S) /\ ms = cut \o kept
          /\ kept = ms
      <3> HIDE DEF cut, kept
      <3>1. <<>> \in Seq(S) /\ <<>> = <<>> \o <<>>
        OBVIOUS
      <3> QED
        BY <1>1, <2>1, <2>2, <3>1
    <2> QED
      BY <2>3
  <1>2. CASE ms # <<>>
    <2>1. PICK k \in 1..Len(ms) : kept = SubSeq(ms, k, Len(ms))
      BY <1>2, KeptIsSuffix
    <2>2. /\ Len(ms) \in Nat /\ k \in 1 .. Len(ms) + 1 /\ Len(ms) \in 0..Len(ms)
          /\ 1 \in 1 .. Len(ms) + 1 /\ k - 1 \in 0..Len(ms)
      BY <2>1
    <2>3. kept \in Seq(S) /\ Len(kept) = Len(ms) - k + 1
      BY <2>1, <2>2, SlicedSeq
    <2>4. Len(ms) - Len(kept) = k - 1
      BY <2>2, <2>3
    <2>5. cut = SubSeq(ms, 1, k - 1)
      BY <2>4
    <2>6. cut \in Seq(S)
      BY <2>2, <2>5, SlicedSeq
    <2>7. SubSeq(ms, 1, k - 1) \o SubSeq(ms, k - 1 + 1, Len(ms)) = SubSeq(ms, 1, Len(ms))
      <3>1. 1 \in 1 .. Len(ms) + 1 /\ k - 1 \in 1 - 1 .. Len(ms) /\ Len(ms) \in k - 1 .. Len(ms)
        BY <2>2
      <3> QED
        BY <3>1, ConcatAdjacentSubSeq
    <2>8. SubSeq(ms, 1, Len(ms)) = ms
      BY SubSeqFull
    <2>9. k - 1 + 1 = k
      BY <2>2
    <2>10. ms = cut \o kept
      BY <2>1, <2>5, <2>7, <2>8, <2>9
    <2>11. ResultsOf(kept) \subseteq ResultsOf(ms)
      BY <2>1, <2>2, ContentsOfSlice
    <2>12. History(ms) => History(kept)
      BY <2>1, HistoryOfSuffix
    <2> QED
      BY <2>3, <2>6, <2>10, <2>11, <2>12
  <1> QED
    BY <1>1, <1>2

\* A summary leaves a history of a history, nothing dangling whatever it was given, and
\* when it succeeds it tells about every prompt (CompactionEngine.run).
LEMMA SummarizedIs ==
    ASSUME NEW I, NEW P, NEW ms \in Seq(Shape(I, P)), NEW succeeds \in BOOLEAN
    PROVE  /\ Summarized(ms, succeeds) \in Seq(Shape(I, P))
           /\ Follows(Summarized(ms, succeeds), ms)
           /\ Dangling(Summarized(ms, succeeds)) = {}
           /\ succeeds => Told(Summarized(ms, succeeds)) = Told(ms)
  <1> DEFINE S == Shape(I, P)
             kept == Kept(ms, KeepPercent)
             cut == SubSeq(ms, 1, Len(ms) - Len(kept))
             m == Assistant({}, TRUE, Told(cut))
             summary == IF succeeds /\ cut # <<>> THEN <<m>> ELSE <<>>
             x == StripCalls(kept, ResultsOf(kept))
             y == StripResults(x, CallsOf(kept))
             n == <<Note>>
             all == n \o summary \o y
  <1>1. KeepPercent \in 0..100
    BY CutAssumption
  <1>2. /\ kept \in Seq(S) /\ cut \in Seq(S) /\ ms = cut \o kept
        /\ ResultsOf(kept) \subseteq ResultsOf(ms)
        /\ History(ms) => History(kept)
    BY <1>1, KeptIs
  <1>3. Summarized(ms, succeeds) = EndsWithUser(all)
    BY DEF Summarized
  <1>4. Told(cut) \subseteq P
    <2>1. \A k \in Range(cut) : k \in S
      BY <1>2 DEF Range
    <2>2. \A k \in S : k.tells \subseteq P
      BY DEF Shape
    <2> HIDE DEF cut, S
    <2> QED
      BY <2>1, <2>2, Contents
  <1> HIDE DEF kept, cut
  <1>5. Told(ms) = Told(cut) \cup Told(kept)
    BY <1>2, ContentsOfConcat
  <1>6. /\ m \in S /\ m.calls = {} /\ m.results = {} /\ m.tells = Told(cut)
    BY <1>4 DEF Assistant, Shape
  <1>7. /\ x \in Seq(S) /\ ResultsOf(x) = ResultsOf(kept)
        /\ CallsOf(x) = CallsOf(kept) \cap ResultsOf(kept)
        /\ Told(x) = Told(kept)
        /\ History(kept) => History(x)
    BY <1>2, StripCallsIs DEF History
  <1> HIDE DEF x, m
  <1>8. /\ y \in Seq(S) /\ ResultsOf(y) = ResultsOf(x) \cap CallsOf(kept)
        /\ CallsOf(y) = CallsOf(x)
        /\ Told(y) = Told(x)
        /\ AnsweredAtOnce(x) /\ CallsOf(x) \subseteq CallsOf(kept) => AnsweredAtOnce(y)
        /\ Once(x) => Once(y)
    BY <1>7, StripResultsIs
  <1>9. Note \in S
    BY NoteIs
  <1> HIDE DEF S, y
  <1>10. /\ n \in Seq(S) /\ ResultsOf(n) = {} /\ CallsOf(n) = {} /\ Told(n) = {}
         /\ History(n) /\ Sendable(n)
    BY <1>9, NoteIs
  <1>11. /\ summary \in Seq(S) /\ ResultsOf(summary) = {} /\ CallsOf(summary) = {}
         /\ Told(summary) = IF succeeds /\ cut # <<>> THEN Told(cut) ELSE {}
         /\ History(summary)
    <2>1. CASE succeeds /\ cut # <<>>
      BY <1>6, <2>1, ContentsOfOne, HistoryOfOne
    <2>2. CASE ~(succeeds /\ cut # <<>>)
      <3>1. summary = <<>>
        BY <2>2
      <3>2. ResultsOf(<<>>) = {} /\ CallsOf(<<>>) = {} /\ Told(<<>>) = {}
        BY DEF ResultsOf, CallsOf, Told
      <3>3. <<>> \in Seq(S)
        OBVIOUS
      <3> HIDE DEF summary
      <3> QED
        BY <2>2, <3>1, <3>2, <3>3, HistoryOfEmpty
    <2> QED
      BY <2>1, <2>2
  <1> HIDE DEF summary, n
  <1>12. /\ n \o summary \in Seq(S) /\ all \in Seq(S)
         /\ ResultsOf(all) = ResultsOf(n) \cup ResultsOf(summary) \cup ResultsOf(y)
         /\ CallsOf(all) = CallsOf(n) \cup CallsOf(summary) \cup CallsOf(y)
         /\ Told(all) = Told(n) \cup Told(summary) \cup Told(y)
    <2>1. n \in Seq(S) /\ summary \in Seq(S) /\ y \in Seq(S)
      BY <1>8, <1>10, <1>11
    <2> QED
      BY <2>1, ContentsOfThree
  <1>13. ResultsOf(all) \subseteq ResultsOf(ms) /\ ResultsOf(all) = CallsOf(all)
    BY <1>2, <1>7, <1>8, <1>10, <1>11, <1>12
  <1>14. Sendable(all)
    <2>1. Sendable(n \o summary)
      BY <1>10, <1>11, SendableConcat
    <2> QED
      BY <1>8, <1>12, <2>1, SendableConcat
  <1>15. ASSUME History(ms) PROVE History(all)
    <2>1. History(y)
      BY <1>2, <1>7, <1>8, <1>15 DEF History
    <2>2. ResultsOf(n) \cap ResultsOf(summary) = {}
      BY <1>10
    <2>3. History(n \o summary)
      BY <1>10, <1>11, <2>2, HistoryOfConcat
    <2>4. ResultsOf(n \o summary) = {}
      <3>1. n \in Seq(S) /\ summary \in Seq(S)
        BY <1>10, <1>11
      <3>2. ResultsOf(n \o summary) = ResultsOf(n) \cup ResultsOf(summary)
        BY <3>1, ContentsOfConcat
      <3> QED
        BY <1>10, <1>11, <3>2
    <2>5. ResultsOf(n \o summary) \cap ResultsOf(y) = {}
      BY <2>4
    <2> QED
      BY <1>8, <1>12, <2>1, <2>3, <2>5, HistoryOfConcat
  <1>16. ASSUME succeeds PROVE Told(all) = Told(ms)
    <2>1. cut = <<>> => Told(cut) = {}
      BY DEF Told
    <2> QED
      BY <1>5, <1>7, <1>8, <1>10, <1>11, <1>12, <1>16, <2>1
  <1> HIDE DEF all
  <1>17. PICK added \in {<<>>, <<Note>>} : EndsWithUser(all) = all \o added
    BY <1>12, EndsWithUserIs
  <1>18. /\ all \o added \in Seq(S)
         /\ ResultsOf(all \o added) = ResultsOf(all)
         /\ CallsOf(all \o added) = CallsOf(all)
         /\ Told(all \o added) = Told(all)
         /\ Follows(all \o added, all)
    BY <1>9, <1>12, NoteAdded
  <1>19. Dangling(all \o added) = {}
    BY <1>13, <1>18 DEF Dangling, OpenCalls
  <1>20. Follows(all \o added, ms)
    BY <1>13, <1>14, <1>15, <1>18 DEF Follows
  <1> QED
    BY <1>3, <1>16, <1>17, <1>18, <1>19, <1>20 DEF S

\* So does every tier of compaction (DefaultContextRuntime.tryAutoCompact).
LEMMA CompactedIs ==
    ASSUME NEW I, NEW P, NEW ms \in Seq(Shape(I, P)), NEW tier \in Tiers
    PROVE  Compacted(ms, tier) \in Seq(Shape(I, P)) /\ Follows(Compacted(ms, tier), ms)
  <1> DEFINE S == Shape(I, P)
  <1>1. ASSUME NEW x \in Seq(S)
        PROVE  EndsWithUser(x) \in Seq(S) /\ Follows(EndsWithUser(x), x)
    <2>1. PICK added \in {<<>>, <<Note>>} : EndsWithUser(x) = x \o added
      BY EndsWithUserIs
    <2>2. Note \in S
      BY NoteIs
    <2> HIDE DEF S
    <2> QED
      BY <2>1, <2>2, NoteAdded
  <1>2. Snipped(ms) \in Seq(S) /\ Follows(Snipped(ms), ms)
    BY SnippedIs
  <1>3. ASSUME NEW b \in BOOLEAN
        PROVE  /\ Summarized(Snipped(ms), b) \in Seq(S)
               /\ Follows(Summarized(Snipped(ms), b), ms)
    BY <1>2, SummarizedIs DEF Follows
  <1>4. CASE tier = "none"
    BY <1>4 DEF Compacted, Follows
  <1>5. CASE tier = "micro"
    BY <1>1, <1>5 DEF Compacted
  <1>6. CASE tier = "snip"
    <2>1. EndsWithUser(Snipped(ms)) \in Seq(S)
          /\ Follows(EndsWithUser(Snipped(ms)), Snipped(ms))
      BY <1>1, <1>2
    <2> QED
      BY <1>2, <1>6, <2>1 DEF Compacted, Follows
  <1>7. CASE tier = "summary"
    BY <1>3, <1>7 DEF Compacted
  <1>8. CASE tier = "failed"
    BY <1>3, <1>8 DEF Compacted
  <1> QED
    BY <1>4, <1>5, <1>6, <1>7, <1>8 DEF Tiers

-----------------------------------------------------------------------------
(* The projection of a request: the walk has a step for every message *)

\* The walk before the first message.
Start == [out |-> <<>>, pending |-> {}]

\* The recursion that Walk is the solution of, for the first n messages.
Steps(ms, n, w) ==
    w = [i \in 0..n |-> IF i = 0 THEN Start ELSE Visit(w[i - 1], ms[i])]

\* It has a solution for every number of messages.
LEMMA StepsExist ==
    ASSUME NEW ms, NEW L \in Nat
    PROVE  \E w : Steps(ms, L, w)
  <1> DEFINE Missing == {n \in Nat : ~\E w : Steps(ms, n, w)}
  <1>1. SUFFICES ASSUME Missing # {} PROVE FALSE
    OBVIOUS
  <1>2. Missing \subseteq Nat
    OBVIOUS
  <1>3. PICK n \in Missing : \A k \in Missing : ~(<<k, n>> \in OpToRel(<, Nat))
    BY <1>1, <1>2, NatLessThanWellFounded, WFMin
  <1>4. \A k \in Missing : ~(k < n)
    BY <1>2, <1>3 DEF OpToRel
  <1>5. n # 0
    <2> DEFINE w == [i \in 0..0 |-> Start]
    <2>1. ASSUME n = 0 PROVE Steps(ms, n, w)
      BY <2>1 DEF Steps
    <2> QED
      BY <2>1
  <1>6. n \in Nat /\ n - 1 \in Nat /\ n - 1 < n /\ n - 1 \notin Missing
    BY <1>2, <1>4, <1>5
  <1>7. PICK w : Steps(ms, n - 1, w)
    BY <1>6
  <1> DEFINE v == [i \in 0..n |-> IF i = n THEN Visit(w[n - 1], ms[n]) ELSE w[i]]
  <1>8. DOMAIN w = 0 .. n - 1
        /\ \A i \in 0 .. n - 1 : w[i] = IF i = 0 THEN Start ELSE Visit(w[i - 1], ms[i])
    BY <1>7 DEF Steps
  <1>9. ASSUME NEW i \in 0..n
        PROVE  v[i] = IF i = 0 THEN Start ELSE Visit(v[i - 1], ms[i])
    <2>1. CASE i = n
      <3>1. n - 1 \in 0..n /\ n - 1 # n /\ v[n - 1] = w[n - 1]
        BY <1>6
      <3> QED
        BY <1>5, <2>1, <3>1
    <2>2. CASE i # n /\ i # 0
      <3>1. i - 1 \in 0..n /\ i - 1 # n /\ i \in 0 .. n - 1
        BY <1>6, <2>2
      <3>2. v[i - 1] = w[i - 1] /\ v[i] = w[i]
        BY <2>2, <3>1
      <3> QED
        BY <1>8, <2>2, <3>1, <3>2
    <2>3. CASE i = 0
      <3>1. v[0] = w[0] /\ 0 \in 0 .. n - 1
        BY <1>5, <1>6
      <3> QED
        BY <1>8, <2>3, <3>1
    <2> QED
      BY <2>1, <2>2, <2>3
  <1>10. Steps(ms, n, v)
    <2>1. v = [i \in 0..n |-> v[i]]
      OBVIOUS
    <2> QED
      BY <1>9, <2>1 DEF Steps
  <1> QED
    BY <1>3, <1>10

\* So the walk begins with nothing and visits one message after the other.
LEMMA WalkIs ==
    ASSUME NEW S, NEW ms \in Seq(S)
    PROVE  /\ Walk(ms)[0] = Start
           /\ \A i \in 1..Len(ms) : Walk(ms)[i] = Visit(Walk(ms)[i - 1], ms[i])
  <1>1. Len(ms) \in Nat
    OBVIOUS
  <1>2. Walk(ms) = CHOOSE w : Steps(ms, Len(ms), w)
    BY DEF Walk, Steps, Start
  <1>3. \E w : Steps(ms, Len(ms), w)
    BY <1>1, StepsExist
  <1>4. Steps(ms, Len(ms), Walk(ms))
    BY <1>2, <1>3
  <1>5. /\ 0 \in 0..Len(ms)
        /\ \A i \in 1..Len(ms) : i \in 0..Len(ms) /\ i # 0
    BY <1>1
  <1> DEFINE w == Walk(ms)
  <1> HIDE DEF w
  <1>6. \A i \in 0..Len(ms) : w[i] = IF i = 0 THEN Start ELSE Visit(w[i - 1], ms[i])
    BY <1>4 DEF w, Steps
  <1> QED
    BY <1>5, <1>6 DEF w

\* Induction over the messages, for the set of the places where something holds.
LEMMA ReachesAll ==
    ASSUME NEW L \in Nat, NEW G, 0 \in G, \A i \in 1..L : i - 1 \in G => i \in G
    PROVE  \A i \in 0..L : i \in G
  <1> DEFINE Missing == {n \in Nat : n \in 0..L /\ n \notin G}
  <1>1. SUFFICES ASSUME Missing # {} PROVE FALSE
    OBVIOUS
  <1>2. Missing \subseteq Nat
    OBVIOUS
  <1>3. PICK n \in Missing : \A k \in Missing : ~(<<k, n>> \in OpToRel(<, Nat))
    BY <1>1, <1>2, NatLessThanWellFounded, WFMin
  <1>4. \A k \in Missing : ~(k < n)
    BY <1>2, <1>3 DEF OpToRel
  <1>5. n \in 1..L /\ n - 1 \in 0..L /\ n - 1 < n /\ n - 1 \in Nat
    OBVIOUS
  <1> QED
    BY <1>4, <1>5

\* What the walk has put out are messages.
Typed(w, I, P) == w.out \in Seq(Shape(I, P)) /\ w.pending \subseteq I

\* Placeholders are messages.
LEMMA FlushedTyped ==
    ASSUME NEW I, NEW P, NEW w, Typed(w, I, P)
    PROVE  Flushed(w) \in Seq(Shape(I, P))
  <1> DEFINE S == Shape(I, P)
  <1>1. w.out \in Seq(S) /\ w.pending \in SUBSET I
    BY DEF Typed
  <1>2. Results(w.pending, FALSE) \in S
    BY <1>1, ResultsShape
  <1> HIDE DEF S
  <1>3. Append(w.out, Results(w.pending, FALSE)) \in Seq(S)
    BY <1>1, <1>2, FrontAndLast
  <1>4. Flushed(w) \in Seq(S)
    <2>1. CASE w.pending = {}
      BY <1>1, <2>1 DEF Flushed
    <2>2. CASE w.pending # {}
      <3>1. Flushed(w) = Append(w.out, Results(w.pending, FALSE))
        BY <2>2 DEF Flushed
      <3> QED
        BY <1>3, <3>1
    <2> QED
      BY <2>1, <2>2
  <1> QED
    BY <1>4 DEF S

\* A visit appends the speech, appends the answers that are asked for, or does nothing.
Speaks(w, m, v) ==
    /\ m.role = "assistant"
    /\ v.out = Append(Flushed(w), m) /\ v.pending = m.calls

\* It appends the answers to open calls, and the text, of a user message.
Replies(S, w, m, v) ==
    /\ m.role = "user"
    /\ \E u \in S : /\ v.out = Append(w.out, u) /\ v.pending = w.pending \ u.results
                   /\ u.role = "user" /\ u.calls = {} /\ u.text = m.text
                   /\ u.results = m.results \cap w.pending

\* It leaves out a user message of which nothing is left.
Dropped(w, m, v) ==
    /\ m.role = "user" /\ v = w
    /\ ~m.text /\ m.results # {} /\ m.results \cap w.pending = {}

\* There is no other visit.
LEMMA VisitIs ==
    ASSUME NEW I, NEW P, NEW w, Typed(w, I, P), NEW m \in Shape(I, P)
    PROVE  /\ Typed(Visit(w, m), I, P)
           /\ \/ Speaks(w, m, Visit(w, m))
              \/ Replies(Shape(I, P), w, m, Visit(w, m))
              \/ Dropped(w, m, Visit(w, m))
  <1> DEFINE S == Shape(I, P)
             kept == [m EXCEPT !.results = @ \cap w.pending]
             v == Visit(w, m)
  <1>1. Flushed(w) \in Seq(S)
    BY FlushedTyped
  <1>2. /\ kept \in S /\ kept.results = m.results \cap w.pending /\ kept.calls = m.calls
        /\ kept.text = m.text /\ kept.role = m.role
    BY DEF Shape
  <1>3. /\ m.role \in {"user", "assistant"} /\ m.calls \subseteq I /\ m.results \subseteq I
        /\ m.role = "user" => m.calls = {}
    BY DEF Shape
  <1>4. CASE m.role = "assistant"
    <2>1. v.out = Append(Flushed(w), m) /\ v.pending = m.calls
      BY <1>4 DEF Visit
    <2>2. v.out \in Seq(S)
      BY <1>1, <2>1
    <2> QED
      BY <1>3, <1>4, <2>1, <2>2 DEF Typed, Speaks
  <1>5. CASE m.role # "assistant" /\ (m.results \subseteq w.pending \/ ~Empty(kept))
    <2>1. v.out = Append(w.out, kept) /\ v.pending = w.pending \ m.results
      BY <1>5 DEF Visit
    <2>2. v.pending = w.pending \ kept.results
      BY <1>2, <2>1
    <2>3. w.out \in Seq(S) /\ w.pending \subseteq I
      BY DEF Typed
    <2>4. v.out \in Seq(S) /\ v.pending \subseteq I
      BY <1>2, <2>1, <2>3
    <2>5. Replies(S, w, m, v)
      BY <1>2, <1>3, <1>5, <2>1, <2>2 DEF Replies
    <2> QED
      BY <2>4, <2>5 DEF Typed
  <1>6. CASE m.role # "assistant" /\ ~(m.results \subseteq w.pending \/ ~Empty(kept))
    <2>1. v = w
      BY <1>6 DEF Visit
    <2>2. kept.results = {} /\ ~kept.text
      BY <1>6 DEF Empty
    <2> QED
      BY <1>2, <1>3, <1>6, <2>1, <2>2 DEF Dropped
  <1> QED
    BY <1>4, <1>5, <1>6

\* What is sent are messages.
LEMMA WalkTyped ==
    ASSUME NEW I, NEW P, NEW ms \in Seq(Shape(I, P))
    PROVE  /\ \A i \in 0..Len(ms) : Typed(Walk(ms)[i], I, P)
           /\ Projected(ms) \in Seq(Shape(I, P))
  <1> DEFINE w == Walk(ms)
             S == Shape(I, P)
             G == {i \in 0..Len(ms) : Typed(w[i], I, P)}
  <1>1. /\ Len(ms) \in Nat /\ w[0] = Start
        /\ \A i \in 1..Len(ms) : w[i] = Visit(w[i - 1], ms[i]) /\ ms[i] \in S
    BY WalkIs
  <1> HIDE DEF w
  <1>2. 0 \in G
    <2>1. Start.out = <<>> /\ Start.pending = {} /\ <<>> \in Seq(S)
      BY DEF Start
    <2>2. Typed(w[0], I, P)
      BY <1>1, <2>1 DEF Typed
    <2> QED
      BY <1>1, <2>2
  <1>3. ASSUME NEW i \in 1..Len(ms), i - 1 \in G PROVE i \in G
    BY <1>1, <1>3, VisitIs
  <1>4. \A i \in 0..Len(ms) : i \in G
    <2> HIDE DEF G
    <2> QED
      BY <1>1, <1>2, <1>3, ReachesAll
  <1>5. Typed(w[Len(ms)], I, P)
    BY <1>1, <1>4
  <1>6. Flushed(w[Len(ms)]) \in Seq(S)
    BY <1>5, FlushedTyped
  <1> QED
    BY <1>4, <1>6 DEF Projected, w

-----------------------------------------------------------------------------
(* What is sent is paired *)

\* The assistant does not speak between i and j.
Quiet(ms, i, j) == \A s \in i + 1 .. j : ms[s].role # "assistant"

\* Every call is answered before the next speech, or still open and nothing was said
\* since; every answer has its call, and so has every call that is still open.
PairedBut(ms, open) ==
    /\ \A i \in 1..Len(ms) : \A c \in ms[i].calls :
           \/ \E j \in i + 1 .. Len(ms) : c \in ms[j].results /\ Quiet(ms, i, j)
           \/ c \in open /\ Quiet(ms, i, Len(ms))
    /\ \A j \in 1..Len(ms) : \A r \in ms[j].results :
           \E i \in 1 .. j - 1 : r \in ms[i].calls /\ Quiet(ms, i, j)
    /\ \A r \in open : \E i \in 1..Len(ms) : r \in ms[i].calls /\ Quiet(ms, i, Len(ms))

\* With no call open the messages are paired.
LEMMA PairedButNone ==
    ASSUME NEW S, NEW ms \in Seq(S), PairedBut(ms, {})
    PROVE  Paired(ms)
  <1>1. Len(ms) \in Nat /\ DOMAIN ms = 1..Len(ms)
    OBVIOUS
  <1>2. ASSUME NEW i \in 1..Len(ms), NEW j \in 1..Len(ms), Quiet(ms, i, j)
        PROVE  \A s \in NextSpeech(ms, i) : j < s
    <2>1. \A s \in i + 1 .. Len(ms) : ~(j < s) => s \in i + 1 .. j
      BY <1>1
    <2> QED
      BY <1>2, <2>1 DEF Quiet, NextSpeech
  <1>3. ASSUME NEW i \in 1..Len(ms), NEW c \in ms[i].calls
        PROVE  c \in Answers(ms, i)
    <2>1. PICK j \in i + 1 .. Len(ms) : c \in ms[j].results /\ Quiet(ms, i, j)
      BY <1>3 DEF PairedBut
    <2>2. j \in 1..Len(ms)
      BY <1>1
    <2>3. \A s \in NextSpeech(ms, i) : j < s
      BY <1>2, <2>1, <2>2
    <2> QED
      BY <2>1, <2>3 DEF Answers
  <1>4. ASSUME NEW j \in 1..Len(ms), NEW r \in ms[j].results
        PROVE  \E i \in 1 .. j - 1 : r \in ms[i].calls /\ \A s \in NextSpeech(ms, i) : j < s
    <2>1. PICK i \in 1 .. j - 1 : r \in ms[i].calls /\ Quiet(ms, i, j)
      BY <1>4 DEF PairedBut
    <2>2. i \in 1..Len(ms)
      BY <1>1
    <2> QED
      BY <1>2, <2>1, <2>2
  <1> QED
    BY <1>1, <1>3, <1>4 DEF Paired

\* Answers to open calls are added.
LEMMA PairedAnswer ==
    ASSUME NEW S, NEW ms \in Seq(S), NEW open, PairedBut(ms, open),
           NEW u \in S, u.role # "assistant", u.calls = {}, u.results \subseteq open
    PROVE  PairedBut(Append(ms, u), open \ u.results)
  <1> DEFINE n == Len(ms)
             t == Append(ms, u)
  <1>1. /\ n \in Nat /\ t \in Seq(S) /\ Len(t) = n + 1 /\ t[n + 1] = u
        /\ \A i \in 1..n : t[i] = ms[i]
    OBVIOUS
  <1> HIDE DEF t, n
  <1>2. ASSUME NEW i \in 1..n, NEW j \in 1..n, Quiet(ms, i, j)
        PROVE  Quiet(t, i, j)
    <2>1. \A s \in i + 1 .. j : s \in 1..n
      BY <1>1
    <2> QED
      BY <1>1, <1>2, <2>1 DEF Quiet
  <1>3. ASSUME NEW i \in 1..n, Quiet(ms, i, n)
        PROVE  Quiet(t, i, n + 1)
    <2>1. ASSUME NEW s \in i + 1 .. n + 1, s # n + 1
          PROVE  s \in i + 1 .. n /\ s \in 1..n
      BY <1>1, <2>1
    <2> QED
      BY <1>1, <1>3, <2>1 DEF Quiet
  <1>4. ASSUME NEW i \in 1..n + 1, NEW c \in t[i].calls
        PROVE  \/ \E j \in i + 1 .. n + 1 : c \in t[j].results /\ Quiet(t, i, j)
               \/ c \in open \ u.results /\ Quiet(t, i, n + 1)
    <2>1. i \in 1..n /\ c \in ms[i].calls
      BY <1>1, <1>4
    <2>2. CASE \E j \in i + 1 .. n : c \in ms[j].results /\ Quiet(ms, i, j)
      <3>1. PICK j \in i + 1 .. n : c \in ms[j].results /\ Quiet(ms, i, j)
        BY <2>2
      <3>2. j \in 1..n /\ j \in i + 1 .. n + 1
        BY <1>1, <2>1
      <3>3. c \in t[j].results /\ Quiet(t, i, j)
        BY <1>1, <1>2, <2>1, <3>1, <3>2
      <3> QED
        BY <3>2, <3>3
    <2>3. CASE c \in open /\ Quiet(ms, i, n)
      <3>1. Quiet(t, i, n + 1)
        BY <1>3, <2>1, <2>3
      <3>2. n + 1 \in i + 1 .. n + 1
        BY <1>1, <2>1
      <3> QED
        BY <1>1, <2>3, <3>1, <3>2
    <2> QED
      BY <2>1, <2>2, <2>3 DEF PairedBut, n
  <1>5. ASSUME NEW j \in 1..n + 1, NEW r \in t[j].results
        PROVE  \E i \in 1 .. j - 1 : r \in t[i].calls /\ Quiet(t, i, j)
    <2>1. CASE j \in 1..n
      <3>1. PICK i \in 1 .. j - 1 : r \in ms[i].calls /\ Quiet(ms, i, j)
        BY <1>1, <1>5, <2>1 DEF PairedBut, n
      <3>2. i \in 1..n
        BY <1>1, <2>1
      <3> QED
        BY <1>1, <1>2, <2>1, <3>1, <3>2
    <2>2. CASE j = n + 1
      <3>1. r \in open
        BY <1>1, <1>5, <2>2
      <3>2. PICK i \in 1..n : r \in ms[i].calls /\ Quiet(ms, i, n)
        BY <3>1 DEF PairedBut, n
      <3>3. i \in 1 .. j - 1
        BY <1>1, <2>2
      <3> QED
        BY <1>1, <1>3, <2>2, <3>2, <3>3
    <2> QED
      BY <1>1, <2>1, <2>2
  <1>6. ASSUME NEW r \in open \ u.results
        PROVE  \E i \in 1..n + 1 : r \in t[i].calls /\ Quiet(t, i, n + 1)
    <2>1. PICK i \in 1..n : r \in ms[i].calls /\ Quiet(ms, i, n)
      BY DEF PairedBut, n
    <2>2. i \in 1..n + 1
      BY <1>1
    <2> QED
      BY <1>1, <1>3, <2>1, <2>2
  <1> QED
    BY <1>1, <1>4, <1>5, <1>6 DEF PairedBut, t

\* The assistant speaks when nothing is open.
LEMMA PairedSpeech ==
    ASSUME NEW S, NEW ms \in Seq(S), PairedBut(ms, {}), NEW m \in S, m.results = {}
    PROVE  PairedBut(Append(ms, m), m.calls)
  <1> DEFINE n == Len(ms)
             t == Append(ms, m)
  <1>1. /\ n \in Nat /\ t \in Seq(S) /\ Len(t) = n + 1 /\ t[n + 1] = m
        /\ \A i \in 1..n : t[i] = ms[i]
    OBVIOUS
  <1> HIDE DEF t, n
  <1>2. ASSUME NEW i \in 1..n, NEW j \in 1..n, Quiet(ms, i, j)
        PROVE  Quiet(t, i, j)
    <2>1. \A s \in i + 1 .. j : s \in 1..n
      BY <1>1
    <2> QED
      BY <1>1, <1>2, <2>1 DEF Quiet
  <1>3. Quiet(t, n + 1, n + 1)
    <2>1. \A s \in n + 1 + 1 .. n + 1 : FALSE
      BY <1>1
    <2> QED
      BY <2>1 DEF Quiet
  <1>4. ASSUME NEW i \in 1..n + 1, NEW c \in t[i].calls
        PROVE  \/ \E j \in i + 1 .. n + 1 : c \in t[j].results /\ Quiet(t, i, j)
               \/ c \in m.calls /\ Quiet(t, i, n + 1)
    <2>1. CASE i \in 1..n
      <3>1. PICK j \in i + 1 .. n : c \in ms[j].results /\ Quiet(ms, i, j)
        BY <1>1, <1>4, <2>1 DEF PairedBut, n
      <3>2. j \in 1..n /\ j \in i + 1 .. n + 1
        BY <1>1, <2>1
      <3>3. c \in t[j].results /\ Quiet(t, i, j)
        BY <1>1, <1>2, <2>1, <3>1, <3>2
      <3> QED
        BY <3>2, <3>3
    <2>2. CASE i = n + 1
      BY <1>1, <1>3, <1>4, <2>2
    <2> QED
      BY <1>1, <2>1, <2>2
  <1>5. ASSUME NEW j \in 1..n + 1, NEW r \in t[j].results
        PROVE  \E i \in 1 .. j - 1 : r \in t[i].calls /\ Quiet(t, i, j)
    <2>1. j \in 1..n
      BY <1>1, <1>5
    <2>2. PICK i \in 1 .. j - 1 : r \in ms[i].calls /\ Quiet(ms, i, j)
      BY <1>1, <1>5, <2>1 DEF PairedBut, n
    <2>3. i \in 1..n
      BY <1>1, <2>1
    <2> QED
      BY <1>1, <1>2, <2>1, <2>2, <2>3
  <1>6. n + 1 \in 1..n + 1
    BY <1>1
  <1> QED
    BY <1>1, <1>3, <1>4, <1>5, <1>6 DEF PairedBut, t

\* Placeholders answer what was open, whatever it was.
LEMMA FlushedIs ==
    ASSUME NEW I, NEW P, NEW w, Typed(w, I, P), PairedBut(w.out, w.pending)
    PROVE  PairedBut(Flushed(w), {})
  <1>1. CASE w.pending = {}
    BY <1>1 DEF Flushed
  <1>2. CASE w.pending # {}
    <2> DEFINE S == Shape(I, P)
               u == Results(w.pending, FALSE)
    <2>1. w.out \in Seq(S) /\ w.pending \in SUBSET I
      BY DEF Typed
    <2>2. u \in S
      BY <2>1, ResultsShape
    <2>3. u.role # "assistant" /\ u.calls = {} /\ u.results = w.pending
      BY DEF Results, User
    <2>4. Flushed(w) = Append(w.out, u)
      BY <1>2 DEF Flushed
    <2> HIDE DEF u, S
    <2>5. PairedBut(Append(w.out, u), w.pending \ u.results)
      BY <2>1, <2>2, <2>3, PairedAnswer
    <2>6. w.pending \ u.results = {}
      BY <2>3
    <2> QED
      BY <2>4, <2>5, <2>6
  <1> QED
    BY <1>1, <1>2

\* Whatever the history is, its projection is paired.
THEOREM ProjectedIsPaired ==
    ASSUME NEW I, NEW P, NEW ms \in Seq(Shape(I, P))
    PROVE  Paired(Projected(ms))
  <1> DEFINE w == Walk(ms)
             S == Shape(I, P)
             G == {i \in 0..Len(ms) : PairedBut(w[i].out, w[i].pending)}
  <1>1. /\ Len(ms) \in Nat /\ w[0] = Start
        /\ \A i \in 1..Len(ms) : w[i] = Visit(w[i - 1], ms[i]) /\ ms[i] \in S
    BY WalkIs
  <1>2. \A i \in 0..Len(ms) : Typed(w[i], I, P)
    BY WalkTyped
  <1> HIDE DEF w
  <1>3. 0 \in G
    <2>1. w[0].out = <<>> /\ w[0].pending = {} /\ Len(<<>>) = 0
      BY <1>1 DEF Start
    <2>2. PairedBut(<<>>, {})
      BY <2>1 DEF PairedBut
    <2>3. PairedBut(w[0].out, w[0].pending) /\ 0 \in 0..Len(ms)
      BY <1>1, <2>1, <2>2
    <2> QED
      BY <2>3
  <1>4. ASSUME NEW i \in 1..Len(ms), i - 1 \in G PROVE i \in G
    <2> DEFINE x == w[i - 1]
               m == ms[i]
               v == w[i]
    <2>0. SUFFICES PairedBut(v.out, v.pending)
      <3>1. i \in 0..Len(ms)
        BY <1>1
      <3> QED
        BY <3>1
    <2>1. /\ Typed(x, I, P) /\ PairedBut(x.out, x.pending) /\ m \in S
          /\ x.out \in Seq(S) /\ x.pending \subseteq I
      BY <1>1, <1>2, <1>4 DEF Typed
    <2>2. v = Visit(x, m)
      BY <1>1
    <2>3. m.role = "assistant" => m.results = {}
      BY <2>1 DEF Shape
    <2> HIDE DEF x, m, v
    <2>4. CASE Speaks(x, m, v)
      <3> DEFINE f == Flushed(x)
      <3>1. PairedBut(f, {})
        BY <2>1, FlushedIs
      <3>2. f \in Seq(S)
        BY <2>1, FlushedTyped
      <3>3. v.out = Append(f, m) /\ v.pending = m.calls /\ m.results = {}
        BY <2>3, <2>4 DEF Speaks
      <3> HIDE DEF f, S
      <3>5. f \in Seq(S) /\ PairedBut(f, {}) /\ m \in S /\ m.results = {}
        BY <2>1, <3>1, <3>2, <3>3
      <3>4. PairedBut(Append(f, m), m.calls)
        BY <3>5, PairedSpeech
      <3> QED
        BY <3>3, <3>4
    <2>5. CASE Replies(S, x, m, v)
      <3>1. PICK u \in S : /\ v.out = Append(x.out, u) /\ v.pending = x.pending \ u.results
                     /\ u.role = "user" /\ u.calls = {}
                     /\ u.results = m.results \cap x.pending
        BY <2>5 DEF Replies
      <3>2. u.role # "assistant" /\ u.results \subseteq x.pending
        BY <3>1
      <3>3. u \in S
        BY <3>1
      <3> DEFINE o == x.out
                 open == x.pending
      <3>5. /\ o \in Seq(S) /\ PairedBut(o, open) /\ u \in S
            /\ u.role # "assistant" /\ u.calls = {} /\ u.results \subseteq open
        BY <2>1, <3>1, <3>2, <3>3
      <3> HIDE DEF S, o, open
      <3>6. PairedBut(Append(o, u), open \ u.results)
        BY <3>5, PairedAnswer
      <3>4. PairedBut(Append(x.out, u), x.pending \ u.results)
        BY <3>6 DEF o, open
      <3> QED
        BY <3>1, <3>4
    <2>6. CASE Dropped(x, m, v)
      BY <2>1, <2>6 DEF Dropped
    <2> QED
      BY <2>1, <2>2, <2>4, <2>5, <2>6, VisitIs
  <1>5. \A i \in 0..Len(ms) : i \in G
    <2> HIDE DEF G
    <2> QED
      BY <1>1, <1>3, <1>4, ReachesAll
  <1>6. Typed(w[Len(ms)], I, P) /\ PairedBut(w[Len(ms)].out, w[Len(ms)].pending)
    BY <1>1, <1>2, <1>5
  <1>7. PairedBut(Flushed(w[Len(ms)]), {}) /\ Flushed(w[Len(ms)]) \in Seq(S)
    BY <1>6, FlushedIs, FlushedTyped
  <1>8. Paired(Flushed(w[Len(ms)]))
    BY <1>7, PairedButNone
  <1> QED
    BY <1>8 DEF Projected, w

-----------------------------------------------------------------------------
(* What is sent of a history in which nothing went wrong *)

\* Every call is answered by the next message, but those of the last one are open.
AnsweredBut(ms, open) ==
    /\ \A k \in 1..Len(ms) : ms[k].calls # {} =>
           IF k < Len(ms) THEN ms[k].calls \subseteq ms[k + 1].results
                          ELSE ms[k].calls = open
    /\ open # {} => ms # <<>> /\ ms[Len(ms)].calls = open

\* Histories with open calls, one message longer.
LEMMA AnsweredAppend ==
    ASSUME NEW S, NEW ms \in Seq(S), NEW open, AnsweredBut(ms, open),
           NEW m \in S, open \subseteq m.results
    PROVE  AnsweredBut(Append(ms, m), m.calls)
  <1> DEFINE n == Len(ms)
             t == Append(ms, m)
  <1>1. /\ n \in Nat /\ t \in Seq(S) /\ Len(t) = n + 1 /\ t[n + 1] = m /\ t # <<>>
        /\ \A i \in 1..n : t[i] = ms[i]
    OBVIOUS
  <1> HIDE DEF t, n
  <1>2. ASSUME NEW k \in 1..n + 1, t[k].calls # {}
        PROVE  IF k < n + 1 THEN t[k].calls \subseteq t[k + 1].results ELSE t[k].calls = m.calls
    <2>1. CASE k = n + 1
      BY <1>1, <2>1
    <2>2. CASE k = n
      <3>1. ms[k].calls = open /\ t[k] = ms[k] /\ t[k + 1] = m /\ k < n + 1
        BY <1>1, <1>2, <2>2 DEF AnsweredBut, n
      <3> QED
        BY <3>1
    <2>3. CASE k < n
      <3>1. k + 1 \in 1..n /\ k \in 1..n /\ k < n + 1
        BY <1>1, <2>3
      <3>2. ms[k].calls \subseteq ms[k + 1].results
        BY <1>1, <1>2, <2>3, <3>1 DEF AnsweredBut, n
      <3> QED
        BY <1>1, <3>1, <3>2
    <2> QED
      BY <1>1, <2>1, <2>2, <2>3
  <1> QED
    BY <1>1, <1>2 DEF AnsweredBut, t

\* The projection leaves answers where they are.
LEMMA ProjectedAnswers ==
    ASSUME NEW I, NEW P, NEW ms \in Seq(Shape(I, P)), AnsweredAtOnce(ms)
    PROVE  AnsweredAtOnce(Projected(ms))
  <1> DEFINE w == Walk(ms)
             S == Shape(I, P)
             Open(i) == IF i = 0 THEN {} ELSE ms[i].calls
             G == {i \in 0..Len(ms) : w[i].pending = Open(i) /\ AnsweredBut(w[i].out, Open(i))}
  <1>1. /\ Len(ms) \in Nat /\ w[0] = Start
        /\ \A i \in 1..Len(ms) : w[i] = Visit(w[i - 1], ms[i]) /\ ms[i] \in S
    BY WalkIs
  <1>2. \A i \in 0..Len(ms) : Typed(w[i], I, P)
    BY WalkTyped
  <1>a. /\ DOMAIN ms = 1..Len(ms)
        /\ \A i \in 1..Len(ms) : ms[i].calls # {} =>
              i < Len(ms) /\ ms[i].calls \subseteq ms[i + 1].results
    BY DEF AnsweredAtOnce
  <1> HIDE DEF w
  <1>3. 0 \in G
    <2>1. w[0].out = <<>> /\ w[0].pending = {} /\ Len(<<>>) = 0
      BY <1>1 DEF Start
    <2>2. AnsweredBut(<<>>, {})
      BY <2>1 DEF AnsweredBut
    <2>3. w[0].pending = Open(0) /\ AnsweredBut(w[0].out, Open(0)) /\ 0 \in 0..Len(ms)
      BY <1>1, <2>1, <2>2
    <2> QED
      BY <2>3
  <1>4. ASSUME NEW i \in 1..Len(ms), i - 1 \in G PROVE i \in G
    <2> DEFINE x == w[i - 1]
               m == ms[i]
               v == w[i]
               open == Open(i - 1)
    <2>0. SUFFICES v.pending = m.calls /\ AnsweredBut(v.out, m.calls)
      <3>1. i \in 0..Len(ms) /\ i # 0
        BY <1>1
      <3> QED
        BY <3>1
    <2>1. /\ Typed(x, I, P) /\ AnsweredBut(x.out, open) /\ m \in S /\ x.pending = open
          /\ x.out \in Seq(S)
      BY <1>1, <1>2, <1>4 DEF Typed
    <2>2. v = Visit(x, m)
      BY <1>1
    <2>3. open # {} => open \subseteq m.results
      <3>1. CASE i = 1
        BY <3>1
      <3>2. CASE i # 1
        <4>1. i - 1 \in 1..Len(ms) /\ i - 1 # 0 /\ i - 1 + 1 = i
          BY <1>1, <3>2
        <4>2. ms[i - 1].calls # {} => ms[i - 1].calls \subseteq ms[i - 1 + 1].results
          BY <1>a, <4>1
        <4> QED
          BY <4>1, <4>2
      <3> QED
        BY <3>1, <3>2
    <2>4. /\ m.role = "assistant" => m.results = {}
          /\ m.role = "user" => m.calls = {}
      BY <2>1 DEF Shape
    <2> HIDE DEF x, m, v, open
    <2>5. CASE Speaks(x, m, v)
      <3>1. open = {}
        BY <2>3, <2>4, <2>5 DEF Speaks
      <3>2. v.out = Append(x.out, m) /\ v.pending = m.calls
        BY <2>1, <2>5, <3>1 DEF Speaks, Flushed
      <3> DEFINE o == x.out
      <3>3. o \in Seq(S) /\ AnsweredBut(o, open) /\ m \in S /\ open \subseteq m.results
        BY <2>1, <3>1
      <3> HIDE DEF o, S
      <3>4. AnsweredBut(Append(o, m), m.calls)
        BY <3>3, AnsweredAppend
      <3> QED
        BY <3>2, <3>4 DEF o
    <2>6. CASE Replies(S, x, m, v)
      <3>1. PICK u \in S : /\ v.out = Append(x.out, u) /\ v.pending = x.pending \ u.results
                           /\ u.role = "user" /\ u.calls = {}
                           /\ u.results = m.results \cap x.pending
        BY <2>6 DEF Replies
      <3>2. m.calls = {} /\ m.role = "user"
        BY <2>4, <2>6 DEF Replies
      <3>3. open \subseteq u.results /\ v.pending = {}
        BY <2>1, <2>3, <3>1
      <3> DEFINE o == x.out
      <3>4. o \in Seq(S) /\ AnsweredBut(o, open) /\ u \in S /\ open \subseteq u.results
        BY <2>1, <3>3
      <3> HIDE DEF o, S
      <3>5. AnsweredBut(Append(o, u), u.calls)
        BY <3>4, AnsweredAppend
      <3> QED
        BY <3>1, <3>2, <3>3, <3>5 DEF o
    <2>7. CASE Dropped(x, m, v)
      <3>1. open = {} /\ m.calls = {} /\ v = x
        BY <2>1, <2>3, <2>4, <2>7 DEF Dropped
      <3> QED
        BY <2>1, <3>1
    <2> QED
      BY <2>1, <2>2, <2>5, <2>6, <2>7, VisitIs
  <1>5. \A i \in 0..Len(ms) : i \in G
    <2> HIDE DEF G
    <2> QED
      BY <1>1, <1>3, <1>4, ReachesAll
  <1> DEFINE l == Len(ms)
  <1>6. w[l].pending = Open(l) /\ AnsweredBut(w[l].out, Open(l)) /\ w[l].out \in Seq(S)
    BY <1>1, <1>2, <1>5 DEF Typed
  <1>7. Open(l) = {}
    BY <1>1, <1>a
  <1>8. Projected(ms) = w[l].out
    BY <1>6, <1>7 DEF Projected, Flushed, w
  <1> DEFINE o == w[l].out
  <1>9. o \in Seq(S) /\ AnsweredBut(o, {})
    BY <1>6, <1>7
  <1> HIDE DEF o
  <1>10. AnsweredAtOnce(o)
    <2>1. DOMAIN o = 1..Len(o)
      BY <1>9
    <2> QED
      BY <1>9, <2>1 DEF AnsweredBut, AnsweredAtOnce
  <1> QED
    BY <1>8, <1>10 DEF o

\* More than answers is never projected to nothing.
LEMMA ProjectedNotEmpty ==
    ASSUME NEW I, NEW P, NEW ms \in Seq(Shape(I, P)), Sendable(ms)
    PROVE  Projected(ms) # <<>>
  <1> DEFINE w == Walk(ms)
             S == Shape(I, P)
  <1>1. /\ Len(ms) \in Nat /\ DOMAIN ms = 1..Len(ms)
        /\ \A i \in 1..Len(ms) : w[i] = Visit(w[i - 1], ms[i]) /\ ms[i] \in S
    BY WalkIs
  <1>2. \A i \in 0..Len(ms) : Typed(w[i], I, P)
    BY WalkTyped
  <1>3. PICK n \in 1..Len(ms) : ms[n].text \/ ms[n].results = {}
    BY <1>1 DEF Sendable, Range
  <1> DEFINE G == {i \in 0..Len(ms) : i >= n => w[i].out # <<>>}
  <1> HIDE DEF w
  <1>4. 0 \in G
    BY <1>1
  <1>5. ASSUME NEW i \in 1..Len(ms), i - 1 \in G PROVE i \in G
    <2> DEFINE x == w[i - 1]
               m == ms[i]
               v == w[i]
    <2>0. SUFFICES ASSUME i >= n PROVE v.out # <<>>
      <3>1. i \in 0..Len(ms)
        BY <1>1
      <3> QED
        BY <3>1
    <2>1. /\ Typed(x, I, P) /\ m \in S /\ v = Visit(x, m) /\ x.out \in Seq(S)
          /\ Typed(v, I, P)
      BY <1>1, <1>2 DEF Typed
    <2>2. i > n => x.out # <<>>
      <3>1. i > n => i - 1 >= n
        BY <1>1
      <3> QED
        BY <1>5, <3>1
    <2>3. i = n => m.text \/ m.results = {}
      BY <1>3
    <2> HIDE DEF x, m, v
    <2>4. CASE Speaks(x, m, v)
      <3> DEFINE f == Flushed(x)
      <3>1. f \in Seq(S) /\ m \in S
        BY <2>1, FlushedTyped
      <3>2. v.out = Append(f, m)
        BY <2>4 DEF Speaks
      <3> HIDE DEF f, S
      <3> QED
        BY <3>1, <3>2, FrontAndLast
    <2>5. CASE Replies(S, x, m, v)
      <3> DEFINE o == x.out
      <3>1. PICK u \in S : v.out = Append(o, u)
        BY <2>5 DEF Replies
      <3>2. o \in Seq(S)
        BY <2>1
      <3> HIDE DEF o, S
      <3> QED
        BY <3>1, <3>2, FrontAndLast
    <2>6. CASE Dropped(x, m, v)
      <3>1. i # n
        BY <2>3, <2>6 DEF Dropped
      <3>2. i > n
        BY <1>1, <2>0, <3>1
      <3> QED
        BY <2>2, <2>6, <3>2 DEF Dropped
    <2> QED
      BY <2>1, <2>4, <2>5, <2>6, VisitIs
  <1>6. \A i \in 0..Len(ms) : i \in G
    <2> HIDE DEF G
    <2> QED
      BY <1>1, <1>4, <1>5, ReachesAll
  <1> DEFINE l == Len(ms)
  <1>7. l \in G /\ l >= n
    BY <1>1, <1>6
  <1>8. w[l].out # <<>> /\ Typed(w[l], I, P)
    BY <1>1, <1>2, <1>7
  <1>9. Flushed(w[l]) # <<>>
    <2>1. CASE w[l].pending = {}
      BY <1>8, <2>1 DEF Flushed
    <2>2. CASE w[l].pending # {}
      <3> DEFINE o == w[l].out
                 u == Results(w[l].pending, FALSE)
      <3>1. o \in Seq(S) /\ w[l].pending \in SUBSET I
        BY <1>8 DEF Typed
      <3>2. u \in S
        BY <3>1, ResultsShape
      <3>3. Flushed(w[l]) = Append(o, u)
        BY <2>2 DEF Flushed
      <3> HIDE DEF o, u, S
      <3> QED
        BY <3>1, <3>2, <3>3, FrontAndLast
    <2> QED
      BY <2>1, <2>2
  <1> QED
    BY <1>9 DEF Projected, w

-----------------------------------------------------------------------------
(* Answers of the model and of the tools *)

\* A sequence of two.
LEMMA PairOf ==
    ASSUME NEW S, NEW x \in S, NEW y \in S
    PROVE  <<x>> \o <<y>> = <<x, y>>
  <1> DEFINE s == <<x>>
             t == <<y>>
             p == <<x, y>>
             c == s \o t
  <1>1. /\ s \in Seq(S) /\ Len(s) = 1 /\ s[1] = x
        /\ t \in Seq(S) /\ Len(t) = 1 /\ t[1] = y
        /\ p \in Seq(S) /\ Len(p) = 2 /\ p[1] = x /\ p[2] = y
    OBVIOUS
  <1> HIDE DEF s, t, p
  <1>2. c \in Seq(S) /\ Len(c) = 2 /\ \A i \in 1..2 : c[i] = IF i <= 1 THEN s[i] ELSE t[i - 1]
    BY <1>1, ConcatProperties
  <1> HIDE DEF c
  <1>3. c[1] = x /\ c[2] = y
    BY <1>1, <1>2
  <1>4. \A i \in 1..2 : c[i] = p[i]
    <2>1. \A i \in 1..2 : i = 1 \/ i = 2
      OBVIOUS
    <2> QED
      BY <1>1, <1>3, <2>1
  <1>5. c = p
    BY <1>1, <1>2, <1>4, SeqEqual
  <1> QED
    BY <1>5 DEF s, t, p, c

\* New calls and their results continue a history.
LEMMA HistoryOfPair ==
    ASSUME NEW S, NEW h \in Seq(S), NEW a \in S, NEW r \in S,
           a.results = {}, r.calls = {}, r.results = a.calls,
           a.calls \cap ResultsOf(h) = {}, History(h)
    PROVE  History(h \o <<a, r>>)
  <1> DEFINE p == <<a, r>>
  <1>1. p \in Seq(S) /\ Len(p) = 2 /\ p[1] = a /\ p[2] = r /\ DOMAIN p = 1..2
    OBVIOUS
  <1>2. Range(p) = {a, r}
    BY DEF Range
  <1> HIDE DEF p
  <1>3. ResultsOf(p) = a.calls
    <2>1. \A x : x \in ResultsOf(p) <=> x \in a.calls
      BY <1>2, Contents
    <2> QED
      BY <2>1
  <1>4. History(p)
    <2>1. \A i \in 1..2 : i = 1 \/ i = 2
      OBVIOUS
    <2>2. AnsweredAtOnce(p)
      BY <1>1, <2>1 DEF AnsweredAtOnce
    <2>3. Once(p)
      BY <1>1, <2>1 DEF Once
    <2> QED
      BY <2>2, <2>3 DEF History
  <1>5. ResultsOf(h) \cap ResultsOf(p) = {}
    BY <1>3
  <1>6. History(h \o p)
    BY <1>1, <1>4, <1>5, HistoryOfConcat
  <1> QED
    BY <1>6 DEF p

\* So does a message without calls or answers.
LEMMA HistoryOfAppend ==
    ASSUME NEW S, NEW h \in Seq(S), NEW a \in S, a.calls = {}, a.results = {}, History(h)
    PROVE  History(Append(h, a))
  <1>1. <<a>> \in Seq(S) /\ Append(h, a) = h \o <<a>>
    OBVIOUS
  <1>2. ResultsOf(<<a>>) = {} /\ History(<<a>>)
    BY ContentsOfOne, HistoryOfOne
  <1> DEFINE p == <<a>>
  <1>3. p \in Seq(S) /\ ResultsOf(h) \cap ResultsOf(p) = {} /\ History(p)
    BY <1>1, <1>2
  <1> HIDE DEF p
  <1>4. History(h \o p)
    BY <1>3, HistoryOfConcat
  <1> QED
    BY <1>1, <1>4 DEF p

\* A message that can be sent, or a history that can, can be sent together.
LEMMA SendableAppend ==
    ASSUME NEW S, NEW h \in Seq(S), NEW m \in S, Sendable(h) \/ m.text \/ m.results = {}
    PROVE  Sendable(Append(h, m))
  <1> DEFINE p == <<m>>
  <1>1. p \in Seq(S) /\ Append(h, m) = h \o p /\ m \in Range(p)
    BY DEF Range
  <1> HIDE DEF p
  <1>2. Sendable(h) \/ Sendable(p)
    BY <1>1 DEF Sendable
  <1>3. Sendable(h \o p)
    BY <1>1, <1>2, SendableConcat
  <1> QED
    BY <1>1, <1>3

\* The error pair is taken off again, whatever was before it.
LEMMA WithoutErrorPairIs ==
    ASSUME NEW I, NEW P, NEW ms \in Seq(Shape(I, P)), issued \in Nat, NEW n \in Nat,
           NewCalls(n) \subseteq I
    PROVE  /\ ms \o ErrorPair(n) \in Seq(Shape(I, P))
           /\ WithoutErrorPair(ms \o ErrorPair(n)) = ms
           /\ NewCalls(n) \cap ResultsOf(ms) = {} /\ History(ms)
                 => History(ms \o ErrorPair(n))
           /\ Sendable(ms) => Sendable(ms \o ErrorPair(n))
  <1> DEFINE S == Shape(I, P)
             a == Assistant(NewCalls(n), FALSE, {})
             r == Results(NewCalls(n), FALSE)
             ma == Append(ms, a)
  <1>1. /\ a \in S /\ a.role = "assistant" /\ a.calls = NewCalls(n) /\ a.results = {}
        /\ ms \in Seq(S)
    BY DEF Assistant, Shape
  <1>2. r \in S
    BY ResultsShape
  <1>3. r.role = "user" /\ ~r.text /\ r.calls = {} /\ r.results = NewCalls(n)
    BY DEF Results, User
  <1>4. ErrorPair(n) = IF n = 0 THEN <<a>> ELSE <<a, r>>
    <2>1. <<a>> \o <<>> = <<a>>
      BY <1>1
    <2>3. <<a>> \o <<r>> = <<a, r>>
      BY <1>1, <1>2, PairOf
    <2>2. ErrorPair(n) = <<a>> \o (IF n = 0 THEN <<>> ELSE <<r>>)
      BY DEF ErrorPair
    <2> HIDE DEF a, r, S
    <2> QED
      BY <2>1, <2>2, <2>3
  <1>5. n = 0 => NewCalls(n) = {}
    BY DEF NewCalls
  <1> HIDE DEF a, r, S
  <1>6. /\ ma \in Seq(S) /\ ma # <<>> /\ Last(ma) = a /\ Front(ma) = ms
    BY <1>1, FrontAndLast
  <1>7. CASE n = 0
    <2>1. ms \o ErrorPair(n) = ma
      BY <1>1, <1>4, <1>7
    <2> HIDE DEF ma
    <2>2. WithoutErrorPair(ma) = ms
      BY <1>1, <1>6 DEF WithoutErrorPair
    <2>3. History(ms) => History(ma)
      BY <1>1, <1>5, <1>7, HistoryOfAppend DEF ma
    <2>4. Sendable(ms) => Sendable(ma)
      BY <1>1, SendableAppend DEF ma
    <2> QED
      BY <1>6, <2>1, <2>2, <2>3, <2>4 DEF S
  <1>8. CASE n # 0
    <2> DEFINE t == Append(ma, r)
    <2>1. ms \o ErrorPair(n) = ms \o <<a, r>> /\ ms \o <<a, r>> = t
      BY <1>1, <1>2, <1>4, <1>8
    <2> HIDE DEF ma
    <2>2. t \in Seq(S) /\ t # <<>> /\ Last(t) = r /\ Front(t) = ma
      BY <1>2, <1>6, FrontAndLast
    <2> HIDE DEF t
    <2>3. WithoutErrorPair(t) = ms
      BY <1>1, <1>3, <1>6, <2>2 DEF WithoutErrorPair
    <2>4. NewCalls(n) \cap ResultsOf(ms) = {} /\ History(ms) => History(t)
      <3>1. NewCalls(n) \cap ResultsOf(ms) = {} /\ History(ms) => History(ms \o <<a, r>>)
        BY <1>1, <1>2, <1>3, HistoryOfPair DEF S
      <3> QED
        BY <2>1, <3>1
    <2>5. Sendable(ms) => Sendable(t)
      <3>1. Sendable(ms) => Sendable(ma)
        BY <1>1, SendableAppend DEF ma
      <3> QED
        BY <1>2, <1>6, <3>1, SendableAppend DEF t
    <2> QED
      BY <2>1, <2>2, <2>3, <2>4, <2>5 DEF S
  <1> QED
    BY <1>7, <1>8

\* With the results of its tools the last message is answered.
LEMMA WithResultsIs ==
    ASSUME NEW I, NEW P, NEW h \in Seq(Shape(I, P)), NEW a \in Shape(I, P),
           messages = Append(h, a), a.role = "assistant",
           a.calls \cap ResultsOf(h) = {},
           NEW spilled \in BOOLEAN, NEW extra \in {<<>>, <<Note>>}
    PROVE  /\ WithResults(spilled, extra) \in Seq(Shape(I, P))
           /\ History(h) => History(WithResults(spilled, extra))
           /\ Sendable(WithResults(spilled, extra))
  <1> DEFINE S == Shape(I, P)
             r == Results(a.calls, spilled)
             t == Append(messages, r)
  <1>1. Last(messages) = a /\ messages \in Seq(S)
    BY FrontAndLast
  <1>2. r \in S /\ r.role = "user" /\ r.calls = {} /\ r.results = a.calls
    BY DEF Results, User, Shape
  <1>3. WithResults(spilled, extra) = messages \o <<r>> \o extra
    BY <1>1 DEF WithResults
  <1>4. a.results = {} /\ a \in S
    BY DEF Shape
  <1>5. Note \in S
    BY NoteIs
  <1> HIDE DEF r, S
  <1>6. messages \o <<r>> = t /\ t \in Seq(S) /\ t = h \o <<a, r>>
    BY <1>1, <1>2, <1>4 DEF S
  <1> HIDE DEF t
  <1>7. History(h) => History(t)
    <2>1. History(h) => History(h \o <<a, r>>)
      BY <1>2, <1>4, HistoryOfPair DEF S
    <2> QED
      BY <1>6, <2>1
  <1>8. Sendable(t)
    <2>1. Sendable(messages)
      BY <1>4, SendableAppend DEF S
    <2> QED
      BY <1>1, <1>2, <2>1, SendableAppend DEF t
  <1>9. t \o extra \in Seq(S) /\ Follows(t \o extra, t)
    BY <1>5, <1>6, NoteAdded
  <1>10. WithResults(spilled, extra) = t \o extra
    BY <1>3, <1>6
  <1> QED
    BY <1>7, <1>8, <1>9, <1>10 DEF Follows, S

-----------------------------------------------------------------------------
(* The invariant of the turns *)

\* The types of everything but the messages.
Scalars ==
    /\ phase \in Phases /\ result \in Outcomes /\ compaction \in Tiers
    /\ aborted \in BOOLEAN /\ truncated \in BOOLEAN /\ raised \in BOOLEAN
    /\ cutShort \in BOOLEAN
    /\ round \in 1..MaxTurns /\ corrected \in 0..MaxSelfCorrect
    /\ invalid \in 0 .. MaxInvalid - 1 /\ strips \in Nat /\ asked \in Nat
    /\ prompts \in Nat /\ requests \in Nat /\ issued \in Nat /\ compactions \in Nat

\* The messages there can be: about the calls and the prompts made so far.
Talk == Shape(Ids, 1..prompts)

\* Histories and requests are made of them.
Shaped ==
    /\ messages \in Seq(Talk) /\ base \in Seq(Talk) /\ request \in Seq(Talk)

\* The last message is an answer that is being worked on.
Answering == phase \in {"answered", "executing"}

\* The history before the answer that is being worked on is as good as any; its calls
\* are new.
Ongoing ==
    /\ ~Answering => cutShort \/ History(messages)
    /\ Answering =>
           \E h \in Seq(Talk), a \in Talk :
              /\ messages = Append(h, a) /\ a.role = "assistant"
              /\ a.calls \cap ResultsOf(h) = {}
              /\ cutShort \/ History(h)

\* What a failure falls back to is a history, too.
Remembered == cutShort \/ History(base)

\* There is something to send, until an overflow has cut it off.
Substance == phase # "idle" => truncated \/ Sendable(messages)

\* The request is a conversation that a provider accepts.
Asked == RequestsArePaired /\ AnsweredAtOnceUnlessAborted /\ OnlyTruncationEmptiesRequests

\* The parts of the invariant lean on each other: a request is well formed because the
\* history is, and the history because the calls of an answer are new.
LoopInv == Scalars /\ Shaped /\ Ongoing /\ Remembered /\ Substance /\ Asked

USE DEF retryVars, boundVars

\* They hold at first.
LEMMA ScalarsInit == Init => Scalars
  <1> SUFFICES ASSUME Init PROVE Scalars
    OBVIOUS
  <1>1. 1 \in 1..MaxTurns /\ 0 \in 0..MaxSelfCorrect /\ 0 \in 0 .. MaxInvalid - 1
    BY LimitsAssumption
  <1> QED
    BY <1>1 DEF Init, Scalars, Phases, Outcomes, Tiers

\* They hold when a turn ends,
LEMMA ScalarsFinish ==
    ASSUME Scalars, NEW how \in Outcomes, NEW ms, Finish(how, ms), issued' \in Nat
    PROVE  Scalars'
  <1>1. 1 \in 1..MaxTurns /\ 0 \in 0..MaxSelfCorrect /\ 0 \in 0 .. MaxInvalid - 1
    BY LimitsAssumption
  <1> QED
    BY <1>1 DEF Finish, Fresh, Scalars, Phases

\* when a history is compacted,
LEMMA ScalarsCompact ==
    ASSUME Scalars, \E tier \in Tiers : Compact(tier)
    PROVE  compaction' \in Tiers /\ compactions' \in Nat
  BY DEF Compact, Scalars

\* when a retry uses up its guard,
LEMMA ScalarsRetry ==
    ASSUME Scalars, NEW error, Retry(error)
    PROVE  /\ truncated' \in BOOLEAN /\ raised' \in BOOLEAN
           /\ corrected' \in 0..MaxSelfCorrect /\ strips' \in Nat
  <1> USE LimitsAssumption DEF Scalars
  <1>1. CASE /\ corrected < MaxSelfCorrect /\ corrected' = corrected + 1
             /\ UNCHANGED <<truncated, raised, strips>>
    BY <1>1
  <1>2. CASE truncated' = TRUE /\ UNCHANGED <<raised, corrected, strips>>
    BY <1>2
  <1>3. CASE strips' = strips + 1 /\ UNCHANGED <<truncated, raised, corrected>>
    BY <1>3
  <1>4. CASE raised' = TRUE /\ UNCHANGED <<truncated, corrected, strips>>
    BY <1>4
  <1> QED
    BY <1>1, <1>2, <1>3, <1>4 DEF Retry

\* and so at every step.
LEMMA ScalarsNext == Scalars /\ [Next]_vars => Scalars'
  <1> SUFFICES ASSUME Scalars, [Next]_vars PROVE Scalars'
    OBVIOUS
  <1>p. /\ {"idle", "accepted", "top", "prepared", "streaming", "answered", "executing"}
              \subseteq Phases
        /\ {"none", "success", "error", "aborted", "max_turns"} \subseteq Outcomes
    BY DEF Phases, Outcomes
  <1>1. ASSUME NEW how \in Outcomes, NEW ms, Finish(how, ms), UNCHANGED issued PROVE Scalars'
    <2>1. issued' \in Nat
      BY <1>1 DEF Scalars
    <2> QED
      BY <1>1, <2>1, ScalarsFinish
  <1>2. CASE Submit
    BY <1>2, <1>p DEF Submit, Scalars
  <1>3. CASE StartLoop
    BY <1>3, <1>p DEF StartLoop, Scalars
  <1>4. CASE Blocked \/ Throws \/ FoundAborted \/ RouterFails \/ Stop
    <2>1. \E how \in Outcomes : \E ms : Finish(how, ms) /\ UNCHANGED issued
      BY <1>4 DEF Blocked, Throws, FoundAborted, RouterFails, Stop, Outcomes
    <2> QED
      BY <1>1, <2>1
  <1>5. CASE Abort
    BY <1>5 DEF Abort, Scalars
  <1>6. CASE Prepare
    <2>1. compaction' \in Tiers /\ compactions' \in Nat
      BY <1>6, ScalarsCompact DEF Prepare
    <2> QED
      BY <1>6, <1>p, <2>1 DEF Prepare, Scalars
  <1>7. CASE Request
    <2>1. compaction' \in Tiers /\ compactions' \in Nat
      BY <1>7, ScalarsCompact DEF Request
    <2> QED
      BY <1>7, <1>p, <2>1 DEF Request, Scalars
  <1>n. CallSizes \subseteq Nat
    BY LimitsAssumption
  <1>8. ASSUME NEW n \in CallSizes, Answer(n) PROVE Scalars'
    BY <1>8, <1>n, <1>p DEF Answer, Scalars
  <1>9. ASSUME NEW n \in CallSizes, NEW error \in Errors, AnswerRetried(error, n)
        PROVE  Scalars'
    <2>1. /\ truncated' \in BOOLEAN /\ raised' \in BOOLEAN
          /\ corrected' \in 0..MaxSelfCorrect /\ strips' \in Nat
      BY <1>9, ScalarsRetry DEF AnswerRetried
    <2> QED
      BY <1>9, <1>n, <1>p, <2>1 DEF AnswerRetried, Scalars
  <1>10. ASSUME NEW n \in CallSizes, NEW error \in Errors, AnswerFails(error, n)
         PROVE  Scalars'
    <2>1. issued' \in Nat
      BY <1>10, <1>n DEF AnswerFails, Scalars
    <2>2. Finish("error", messages \o ErrorPair(n)) /\ "error" \in Outcomes
      BY <1>10 DEF AnswerFails, Outcomes
    <2> QED
      BY <2>1, <2>2, ScalarsFinish
  <1>11. CASE Execute
    BY <1>11, <1>p DEF Execute, Scalars
  <1>12. ASSUME NEW spilled \in BOOLEAN, NEW extra \in {<<>>, <<Note>>},
                NextRound(spilled, extra)
         PROVE  Scalars'
    <2>1. invalid' \in 0 .. MaxInvalid - 1 /\ round' \in 1..MaxTurns
      BY <1>12, LimitsAssumption DEF NextRound, Scalars
    <2> QED
      BY <1>12, <1>p, <2>1 DEF NextRound, Scalars
  <1>13. ASSUME NEW spilled \in BOOLEAN, NEW extra \in {<<>>, <<Note>>},
                LastRound(spilled, extra)
         PROVE  Scalars'
    <2>1. \E how \in Outcomes : \E ms : Finish(how, ms) /\ UNCHANGED issued
      BY <1>13 DEF LastRound, Outcomes
    <2> QED
      BY <1>1, <2>1
  <1>14. CASE UNCHANGED vars
    BY <1>14 DEF vars, Scalars
  <1> QED
    BY <1>2, <1>3, <1>4, <1>5, <1>6, <1>7, <1>8, <1>9, <1>10, <1>11, <1>12, <1>13, <1>14
       DEF Next

\* The empty history and the empty request are in order.
LEMMA Nothing ==
    /\ Paired(<<>>) /\ AnsweredAtOnce(<<>>) /\ History(<<>>)
    /\ \A S : <<>> \in Seq(S)
  <1>1. DOMAIN <<>> = {}
    OBVIOUS
  <1> QED
    BY <1>1, HistoryOfEmpty DEF Paired, AnsweredAtOnce

\* The request stays in order when nothing touches it,
LEMMA AskedStays ==
    ASSUME Asked, UNCHANGED <<request, cutShort>>,
           phase' # "streaming" \/ UNCHANGED <<phase, truncated>>
    PROVE  Asked'
  BY DEF Asked, RequestsArePaired, AnsweredAtOnceUnlessAborted, OnlyTruncationEmptiesRequests

\* and when it is gone.
LEMMA AskedNothing ==
    ASSUME request' = <<>>, phase' # "streaming"
    PROVE  Asked'
  <1>1. RequestsArePaired'
    BY Nothing DEF RequestsArePaired
  <1>2. AnsweredAtOnceUnlessAborted'
    BY Nothing DEF AnsweredAtOnceUnlessAborted
  <1> QED
    BY <1>1, <1>2 DEF Asked, OnlyTruncationEmptiesRequests

\* New calls and prompts invalidate no message.
LEMMA TalkGrows ==
    ASSUME Scalars, Scalars', issued <= issued', prompts <= prompts'
    PROVE  /\ \A m \in Talk : m \in Talk'
           /\ \A ms \in Seq(Talk) : ms \in Seq(Talk')
           /\ Ids \subseteq Ids'
  <1>1. Ids \subseteq Ids' /\ 1..prompts \subseteq 1..prompts'
    BY DEF Scalars, Ids
  <1> QED
    BY <1>1, ShapesGrow DEF Talk

\* Without any, the messages are the same.
LEMMA TalkStays ==
    ASSUME UNCHANGED <<issued, prompts>>
    PROVE  Talk' = Talk
  BY DEF Talk, Ids

\* A turn ends with a history, or because it was aborted.
LEMMA FinishKeeps ==
    ASSUME LoopInv, Scalars', NEW how, NEW ms, Finish(how, ms), ms \in Seq(Talk'),
           how = "aborted" \/ cutShort \/ History(ms)
    PROVE  LoopInv'
  <1>1. /\ phase' = "idle" /\ messages' = ms /\ cutShort' = (cutShort \/ how = "aborted")
        /\ base' = <<>> /\ request' = <<>>
    BY DEF Finish, Fresh
  <1>2. Shaped'
    BY <1>1, Nothing DEF Shaped
  <1>3. Ongoing'
    BY <1>1 DEF Ongoing, Answering
  <1>4. Remembered'
    BY <1>1, Nothing DEF Remembered
  <1>5. Substance'
    BY <1>1 DEF Substance
  <1>6. Asked'
    BY <1>1, AskedNothing
  <1> QED
    BY <1>2, <1>3, <1>4, <1>5, <1>6 DEF LoopInv

\* The steps of Next, one by one.
LEMMA LoopSubmit ==
    ASSUME LoopInv, Scalars', Submit
    PROVE  LoopInv'
  <1> DEFINE p == Prompt(prompts + 1)
  <1>1. /\ phase = "idle" /\ phase' = "accepted" /\ prompts' = prompts + 1
        /\ messages' = Append(messages, p)
        /\ UNCHANGED <<base, request, truncated, issued, cutShort>>
    BY DEF Submit
  <1>2. /\ issued <= issued' /\ prompts <= prompts' /\ prompts + 1 \in 1..prompts'
    BY <1>1 DEF LoopInv, Scalars
  <1>3. \A ms \in Seq(Talk) : ms \in Seq(Talk')
    BY <1>2, TalkGrows DEF LoopInv
  <1>4. p \in Talk' /\ p.calls = {} /\ p.results = {} /\ p.text
    BY <1>2 DEF Prompt, User, Talk, Shape
  <1>5. messages \in Seq(Talk') /\ base' \in Seq(Talk') /\ request' \in Seq(Talk')
    BY <1>1, <1>3 DEF LoopInv, Shaped
  <1> HIDE DEF p
  <1>6. Shaped'
    BY <1>1, <1>4, <1>5, FrontAndLast DEF Shaped
  <1>7. Ongoing'
    <2>1. History(messages) => History(messages')
      BY <1>1, <1>4, <1>5, HistoryOfAppend
    <2> QED
      BY <1>1, <2>1 DEF LoopInv, Ongoing, Answering
  <1>8. Remembered'
    BY <1>1 DEF LoopInv, Remembered
  <1>9. Substance'
    <2>1. Sendable(messages')
      BY <1>1, <1>4, <1>5, SendableAppend
    <2> QED
      BY <2>1 DEF Substance
  <1>10. Asked'
    BY <1>1, AskedStays DEF LoopInv
  <1> QED
    BY <1>6, <1>7, <1>8, <1>9, <1>10 DEF LoopInv

\* A message of a hook continues the history; failures fall back to it.
LEMMA LoopStart ==
    ASSUME LoopInv, Scalars', StartLoop
    PROVE  LoopInv'
  <1>1. /\ phase = "accepted" /\ phase' = "top" /\ base' = messages'
        /\ UNCHANGED <<request, truncated, issued, prompts, cutShort>>
    BY DEF StartLoop
  <1>2. PICK added \in {<<>>, <<Note>>} : messages' = messages \o added
    BY DEF StartLoop
  <1>3. Talk' = Talk
    BY <1>1, TalkStays
  <1>4. Note \in Talk /\ messages \in Seq(Talk) /\ request \in Seq(Talk)
    BY NoteIs DEF Talk, LoopInv, Shaped
  <1>5. messages \o added \in Seq(Talk) /\ Follows(messages \o added, messages)
    BY <1>4, NoteAdded
  <1>6. Shaped'
    BY <1>1, <1>2, <1>3, <1>4, <1>5 DEF Shaped
  <1>7. cutShort \/ History(messages')
    BY <1>1, <1>2, <1>5 DEF LoopInv, Ongoing, Answering, Follows
  <1>8. Ongoing' /\ Remembered'
    BY <1>1, <1>7 DEF Ongoing, Answering, Remembered
  <1>9. Substance'
    BY <1>1, <1>2, <1>5 DEF LoopInv, Substance, Follows
  <1>10. Asked'
    BY <1>1, AskedStays DEF LoopInv
  <1> QED
    BY <1>6, <1>8, <1>9, <1>10 DEF LoopInv

\* The ends that leave the messages as they are.
LEMMA LoopStops ==
    ASSUME LoopInv, Scalars', Blocked \/ Throws \/ FoundAborted \/ RouterFails
    PROVE  LoopInv'
  <1>1. UNCHANGED <<issued, prompts>>
    BY DEF Blocked, Throws, FoundAborted, RouterFails, Finish
  <1>2. Talk' = Talk
    BY <1>1, TalkStays
  <1>3. messages \in Seq(Talk') /\ base \in Seq(Talk')
    BY <1>2 DEF LoopInv, Shaped
  <1>4. CASE Blocked \/ RouterFails
    <2>1. Finish("error", messages) /\ phase \in {"accepted", "streaming"}
      BY <1>4 DEF Blocked, RouterFails
    <2>2. cutShort \/ History(messages)
      BY <2>1 DEF LoopInv, Ongoing, Answering
    <2> QED
      BY <1>3, <2>1, <2>2, FinishKeeps
  <1>5. CASE Throws
    <2>1. Finish("error", base) /\ (cutShort \/ History(base))
      BY <1>5 DEF Throws, LoopInv, Remembered
    <2> QED
      BY <1>3, <2>1, FinishKeeps
  <1>6. CASE FoundAborted
    <2>1. Finish("aborted", messages)
      BY <1>6 DEF FoundAborted
    <2> QED
      BY <1>3, <2>1, FinishKeeps
  <1> QED
    BY <1>4, <1>5, <1>6

\* An abort alone touches no message.
LEMMA LoopAbort ==
    ASSUME LoopInv, Scalars', Abort
    PROVE  LoopInv'
  <1>1. UNCHANGED <<phase, messages, base, request, truncated, issued, prompts, cutShort>>
    BY DEF Abort
  <1>2. Talk' = Talk
    BY <1>1, TalkStays
  <1>3. Asked'
    BY <1>1, AskedStays DEF LoopInv
  <1> QED
    BY <1>1, <1>2, <1>3 DEF LoopInv, Shaped, Ongoing, Answering, Remembered, Substance

\* A compaction follows what was there.
LEMMA CompactKeeps ==
    ASSUME LoopInv, \E tier \in Tiers : Compact(tier)
    PROVE  messages' \in Seq(Talk) /\ Follows(messages', messages)
  <1>1. PICK tier \in Tiers : messages' = Compacted(messages, tier)
    BY DEF Compact
  <1>2. messages \in Seq(Talk)
    BY DEF LoopInv, Shaped
  <1> QED
    BY <1>1, <1>2, CompactedIs DEF Talk

\* Compaction at the top of the loop.
LEMMA LoopPrepare ==
    ASSUME LoopInv, Scalars', Prepare
    PROVE  LoopInv'
  <1>1. /\ phase = "top" /\ phase' = "prepared" /\ \E tier \in Tiers : Compact(tier)
        /\ UNCHANGED <<base, request, truncated, issued, prompts, cutShort>>
    BY DEF Prepare
  <1>2. Talk' = Talk
    BY <1>1, TalkStays
  <1>3. messages' \in Seq(Talk) /\ Follows(messages', messages)
    BY <1>1, CompactKeeps
  <1>4. Shaped'
    BY <1>1, <1>2, <1>3 DEF LoopInv, Shaped
  <1>5. Ongoing' /\ Remembered' /\ Substance'
    BY <1>1, <1>3 DEF LoopInv, Ongoing, Answering, Remembered, Substance, Follows
  <1>6. Asked'
    BY <1>1, AskedStays DEF LoopInv
  <1> QED
    BY <1>4, <1>5, <1>6 DEF LoopInv

\* Compaction again, and the projection that is sent.
LEMMA LoopRequest ==
    ASSUME LoopInv, Scalars', Request
    PROVE  LoopInv'
  <1>1. /\ phase = "prepared" /\ phase' = "streaming" /\ \E tier \in Tiers : Compact(tier)
        /\ request' = Projected(messages')
        /\ UNCHANGED <<base, truncated, issued, prompts, cutShort>>
    BY DEF Request
  <1>2. Talk' = Talk
    BY <1>1, TalkStays
  <1>3. messages' \in Seq(Talk) /\ Follows(messages', messages)
    BY <1>1, CompactKeeps
  <1>4. /\ Projected(messages') \in Seq(Talk)
        /\ Paired(Projected(messages'))
        /\ AnsweredAtOnce(messages') => AnsweredAtOnce(Projected(messages'))
        /\ Sendable(messages') => Projected(messages') # <<>>
    BY <1>3, WalkTyped, ProjectedIsPaired, ProjectedAnswers, ProjectedNotEmpty DEF Talk
  <1>5. Shaped'
    BY <1>1, <1>2, <1>3, <1>4 DEF LoopInv, Shaped
  <1>6. /\ cutShort \/ History(messages')
        /\ truncated \/ Sendable(messages')
    BY <1>1, <1>3 DEF LoopInv, Ongoing, Answering, Substance, Follows
  <1>7. Ongoing' /\ Remembered' /\ Substance'
    BY <1>1, <1>6 DEF LoopInv, Ongoing, Answering, Remembered, Substance
  <1>8. Asked'
    BY <1>1, <1>4, <1>6 DEF Asked, RequestsArePaired, AnsweredAtOnceUnlessAborted,
                            OnlyTruncationEmptiesRequests, History
  <1> QED
    BY <1>5, <1>7, <1>8 DEF LoopInv

\* The calls of a new answer are new: no result answers them yet.
LEMMA NewCallsAreNew ==
    ASSUME Scalars, NEW P, NEW ms \in Seq(Shape(Ids, P)), NEW n \in Nat
    PROVE  NewCalls(n) \cap ResultsOf(ms) = {}
  <1>1. ResultsOf(ms) \subseteq Ids
    <2>1. \A i \in DOMAIN ms : ms[i] \in Shape(Ids, P)
      OBVIOUS
    <2>2. \A i \in DOMAIN ms : ms[i].results \subseteq Ids
      BY <2>1 DEF Shape
    <2> QED
      BY <2>2 DEF ResultsOf
  <1>2. \A c \in NewCalls(n) : c \notin Ids
    BY DEF NewCalls, Ids, Scalars
  <1> QED
    BY <1>1, <1>2

\* An answer: its calls are new, and the history is the one before it.
LEMMA LoopAnswer ==
    ASSUME LoopInv, Scalars', NEW n \in Nat, Answer(n)
    PROVE  LoopInv'
  <1> DEFINE a == Assistant(NewCalls(n), n = 0, {})
  <1>1. /\ phase = "streaming" /\ phase' = "answered" /\ issued' = issued + n
        /\ messages' = Append(messages, a) /\ request' = <<>>
        /\ UNCHANGED <<base, truncated, prompts, cutShort>>
    BY DEF Answer
  <1>2. issued <= issued' /\ prompts <= prompts' /\ NewCalls(n) \subseteq Ids'
    BY <1>1 DEF LoopInv, Scalars, NewCalls, Ids
  <1>3. \A ms \in Seq(Talk) : ms \in Seq(Talk')
    BY <1>2, TalkGrows DEF LoopInv
  <1>4. messages \in Seq(Talk) /\ messages \in Seq(Talk') /\ base \in Seq(Talk')
    BY <1>3 DEF LoopInv, Shaped
  <1>5. a \in Talk' /\ a.role = "assistant" /\ a.calls = NewCalls(n) /\ a.results = {}
    BY <1>2 DEF Assistant, Talk, Shape
  <1>6. NewCalls(n) \cap ResultsOf(messages) = {}
    BY <1>4, NewCallsAreNew DEF LoopInv, Talk
  <1> HIDE DEF a
  <1>7. Shaped'
    BY <1>1, <1>4, <1>5, FrontAndLast, Nothing DEF Shaped
  <1>8. Ongoing'
    <2>1. cutShort \/ History(messages)
      BY <1>1 DEF LoopInv, Ongoing, Answering
    <2>2. \E h \in Seq(Talk'), b \in Talk' :
             /\ messages' = Append(h, b) /\ b.role = "assistant"
             /\ b.calls \cap ResultsOf(h) = {}
             /\ cutShort' \/ History(h)
      BY <1>1, <1>4, <1>5, <1>6, <2>1
    <2> QED
      BY <1>1, <2>2 DEF Ongoing, Answering
  <1>9. Remembered'
    BY <1>1 DEF LoopInv, Remembered
  <1>10. Substance'
    <2>1. Sendable(messages')
      BY <1>1, <1>4, <1>5, SendableAppend
    <2> QED
      BY <2>1 DEF Substance
  <1>11. Asked'
    BY <1>1, AskedNothing
  <1> QED
    BY <1>7, <1>8, <1>9, <1>10, <1>11 DEF LoopInv

\* A failed answer leaves a history: its calls are answered by placeholders.
LEMMA FailedAnswer ==
    ASSUME LoopInv, Scalars', NEW n \in Nat, phase = "streaming",
           issued' = issued + n, prompts' = prompts
    PROVE  /\ messages \in Seq(Talk')
           /\ messages \o ErrorPair(n) \in Seq(Talk')
           /\ WithoutErrorPair(messages \o ErrorPair(n)) = messages
           /\ cutShort \/ History(messages)
           /\ cutShort \/ History(messages \o ErrorPair(n))
           /\ truncated \/ Sendable(messages)
           /\ truncated \/ Sendable(messages \o ErrorPair(n))
  <1>1. issued <= issued' /\ prompts <= prompts' /\ NewCalls(n) \subseteq Ids'
    BY DEF LoopInv, Scalars, NewCalls, Ids
  <1>2. messages \in Seq(Talk) /\ messages \in Seq(Talk')
    BY <1>1, TalkGrows DEF LoopInv, Shaped
  <1>3. NewCalls(n) \cap ResultsOf(messages) = {}
    BY <1>2, NewCallsAreNew DEF LoopInv, Talk
  <1>4. /\ messages \o ErrorPair(n) \in Seq(Talk')
        /\ WithoutErrorPair(messages \o ErrorPair(n)) = messages
        /\ NewCalls(n) \cap ResultsOf(messages) = {} /\ History(messages)
              => History(messages \o ErrorPair(n))
        /\ Sendable(messages) => Sendable(messages \o ErrorPair(n))
    BY <1>1, <1>2, WithoutErrorPairIs DEF Talk, LoopInv, Scalars
  <1>5. cutShort \/ History(messages)
    BY DEF LoopInv, Ongoing, Answering
  <1>6. truncated \/ Sendable(messages)
    BY DEF LoopInv, Substance
  <1> QED
    BY <1>2, <1>3, <1>4, <1>5, <1>6

\* An error that ends the turn.
LEMMA LoopFails ==
    ASSUME LoopInv, Scalars', NEW n \in Nat, NEW error, AnswerFails(error, n)
    PROVE  LoopInv'
  <1>1. /\ phase = "streaming" /\ issued' = issued + n /\ prompts' = prompts
        /\ Finish("error", messages \o ErrorPair(n))
    BY DEF AnswerFails, Finish
  <1>2. /\ messages \o ErrorPair(n) \in Seq(Talk')
        /\ cutShort \/ History(messages \o ErrorPair(n))
    BY <1>1, FailedAnswer
  <1> QED
    BY <1>1, <1>2, FinishKeeps

\* What a retry goes on with is a history again.
LEMMA LoopRetried ==
    ASSUME LoopInv, Scalars', NEW n \in Nat, NEW error, AnswerRetried(error, n)
    PROVE  LoopInv'
  <1> DEFINE ms == messages \o ErrorPair(n)
  <1>1. /\ phase = "streaming" /\ phase' = "top" /\ request' = <<>>
        /\ issued' = issued + n /\ prompts' = prompts
        /\ messages' = Restored(error, ms)
        /\ UNCHANGED <<base, cutShort>>
    BY DEF AnswerRetried
  <1>2. truncated' = TRUE \/ (error # "prompt_too_long" /\ truncated' = truncated)
    BY DEF AnswerRetried, Retry
  <1>3. /\ messages \in Seq(Talk') /\ ms \in Seq(Talk')
        /\ WithoutErrorPair(ms) = messages
        /\ cutShort \/ History(messages)
        /\ cutShort \/ History(ms)
        /\ truncated \/ Sendable(messages)
    BY <1>1, FailedAnswer
  <1> HIDE DEF ms
  <1>4. /\ messages' \in Seq(Talk')
        /\ cutShort \/ History(messages')
        /\ truncated' \/ Sendable(messages')
    <2>1. CASE error = "invalid_tool_arguments"
      <3>1. messages' = Append(ms, Note)
        BY <1>1, <2>1 DEF Restored
      <3>2. Note \in Talk' /\ Note.calls = {} /\ Note.results = {} /\ Note.text
        BY NoteIs DEF Talk, Note, User
      <3>3. messages' \in Seq(Talk')
        BY <1>3, <3>1, <3>2, FrontAndLast
      <3>4. History(ms) => History(messages')
        BY <1>3, <3>1, <3>2, HistoryOfAppend
      <3>5. Sendable(messages')
        BY <1>3, <3>1, <3>2, SendableAppend
      <3> QED
        BY <1>3, <3>3, <3>4, <3>5
    <2>2. CASE error = "prompt_too_long"
      <3>1. messages' = Kept(messages, TruncatePercent)
        BY <1>1, <1>3, <2>2 DEF Restored, Truncated
      <3>2. TruncatePercent \in 0..100
        BY CutAssumption
      <3>3. /\ messages' \in Seq(Talk')
            /\ History(messages) => History(messages')
        BY <1>3, <3>1, <3>2, KeptIs
      <3> QED
        BY <1>2, <1>3, <2>2, <3>3
    <2>3. CASE error # "invalid_tool_arguments" /\ error # "prompt_too_long"
      <3>1. messages' = messages
        BY <1>1, <1>3, <2>3 DEF Restored
      <3> QED
        BY <1>2, <1>3, <3>1
    <2> QED
      BY <2>1, <2>2, <2>3
  <1>5. base \in Seq(Talk')
    BY <1>1, TalkGrows DEF LoopInv, Shaped, Scalars
  <1>6. Shaped'
    BY <1>1, <1>4, <1>5, Nothing DEF Shaped
  <1>7. Ongoing' /\ Remembered' /\ Substance'
    BY <1>1, <1>4 DEF LoopInv, Ongoing, Answering, Remembered, Substance
  <1>8. Asked'
    BY <1>1, AskedNothing
  <1> QED
    BY <1>6, <1>7, <1>8 DEF LoopInv

\* Stop hooks may add a message, after an answer that called no tool.
LEMMA LoopStop ==
    ASSUME LoopInv, Scalars', Stop
    PROVE  LoopInv'
  <1>1. phase = "answered" /\ Last(messages).calls = {} /\ UNCHANGED issued
    BY DEF Stop
  <1>2. PICK added \in {<<>>, <<Note>>}, how \in {"success", "error"} :
           Finish(how, messages \o added)
    BY DEF Stop
  <1>3. Talk' = Talk
    BY <1>1, <1>2, TalkStays DEF Finish
  <1>4. PICK h \in Seq(Talk), a \in Talk :
           messages = Append(h, a) /\ a.role = "assistant" /\ (cutShort \/ History(h))
    BY <1>1 DEF LoopInv, Ongoing, Answering
  <1>5. Last(messages) = a /\ messages \in Seq(Talk)
    BY <1>4, FrontAndLast
  <1>6. a.calls = {} /\ a.results = {}
    BY <1>1, <1>4, <1>5 DEF Talk, Shape
  <1>7. cutShort \/ History(messages)
    BY <1>4, <1>6, HistoryOfAppend
  <1>8. Note \in Talk
    BY NoteIs DEF Talk
  <1>9. messages \o added \in Seq(Talk) /\ Follows(messages \o added, messages)
    BY <1>5, <1>8, NoteAdded
  <1>10. cutShort \/ History(messages \o added)
    BY <1>7, <1>9 DEF Follows
  <1> QED
    BY <1>2, <1>3, <1>9, <1>10, FinishKeeps

\* The tools start: nothing has changed yet.
LEMMA LoopExecute ==
    ASSUME LoopInv, Scalars', Execute
    PROVE  LoopInv'
  <1>1. /\ phase = "answered" /\ phase' = "executing"
        /\ UNCHANGED <<messages, base, request, truncated, issued, prompts, cutShort>>
    BY DEF Execute
  <1>2. Talk' = Talk
    BY <1>1, TalkStays
  <1>3. Asked'
    BY <1>1, AskedStays DEF LoopInv
  <1> QED
    BY <1>1, <1>2, <1>3 DEF LoopInv, Shaped, Ongoing, Answering, Remembered, Substance

\* When the tools are through, the history is complete again.
LEMMA ToolsAnswer ==
    ASSUME LoopInv, phase = "executing",
           NEW spilled \in BOOLEAN, NEW extra \in {<<>>, <<Note>>}
    PROVE  /\ WithResults(spilled, extra) \in Seq(Talk)
           /\ cutShort \/ History(WithResults(spilled, extra))
           /\ Sendable(WithResults(spilled, extra))
  <1>1. PICK h \in Seq(Talk), a \in Talk :
           /\ messages = Append(h, a) /\ a.role = "assistant"
           /\ a.calls \cap ResultsOf(h) = {} /\ (cutShort \/ History(h))
    BY DEF LoopInv, Ongoing, Answering
  <1>2. /\ WithResults(spilled, extra) \in Seq(Talk)
        /\ History(h) => History(WithResults(spilled, extra))
        /\ Sendable(WithResults(spilled, extra))
    BY <1>1, WithResultsIs DEF Talk
  <1> QED
    BY <1>1, <1>2

\* Another round.
LEMMA LoopNextRound ==
    ASSUME LoopInv, Scalars', NEW spilled \in BOOLEAN, NEW extra \in {<<>>, <<Note>>},
           NextRound(spilled, extra)
    PROVE  LoopInv'
  <1>1. /\ phase = "executing" /\ phase' = "top"
        /\ messages' = WithResults(spilled, extra)
        /\ UNCHANGED <<base, request, truncated, issued, prompts, cutShort>>
    BY DEF NextRound
  <1>2. Talk' = Talk
    BY <1>1, TalkStays
  <1>3. /\ messages' \in Seq(Talk) /\ Sendable(messages')
        /\ cutShort \/ History(messages')
    BY <1>1, ToolsAnswer
  <1>4. Shaped'
    BY <1>1, <1>2, <1>3 DEF LoopInv, Shaped
  <1>5. Ongoing' /\ Remembered' /\ Substance'
    BY <1>1, <1>3 DEF LoopInv, Ongoing, Answering, Remembered, Substance
  <1>6. Asked'
    BY <1>1, AskedStays DEF LoopInv
  <1> QED
    BY <1>4, <1>5, <1>6 DEF LoopInv

\* The last round.
LEMMA LoopLastRound ==
    ASSUME LoopInv, Scalars', NEW spilled \in BOOLEAN, NEW extra \in {<<>>, <<Note>>},
           LastRound(spilled, extra)
    PROVE  LoopInv'
  <1>1. PICK how \in {"error", "success", "max_turns"} :
           Finish(how, WithResults(spilled, extra))
    BY DEF LastRound
  <1>2. phase = "executing" /\ UNCHANGED <<issued, prompts>>
    BY <1>1 DEF LastRound, Finish
  <1>3. Talk' = Talk
    BY <1>2, TalkStays
  <1>4. /\ WithResults(spilled, extra) \in Seq(Talk)
        /\ cutShort \/ History(WithResults(spilled, extra))
    BY <1>2, ToolsAnswer
  <1> QED
    BY <1>1, <1>3, <1>4, FinishKeeps

\* The invariant holds at first,
LEMMA LoopInit == Init => LoopInv
  <1> SUFFICES ASSUME Init PROVE LoopInv
    OBVIOUS
  <1>1. Scalars
    BY ScalarsInit
  <1>2. /\ messages = <<>> /\ base = <<>> /\ request = <<>> /\ phase = "idle"
    BY DEF Init
  <1>3. Shaped
    BY <1>2, Nothing DEF Shaped
  <1>4. Ongoing /\ Remembered
    BY <1>2, Nothing DEF Ongoing, Answering, Remembered
  <1>5. Substance
    BY <1>2 DEF Substance
  <1>6. Asked
    BY <1>2, Nothing DEF Asked, RequestsArePaired, AnsweredAtOnceUnlessAborted,
                         OnlyTruncationEmptiesRequests
  <1> QED
    BY <1>1, <1>3, <1>4, <1>5, <1>6 DEF LoopInv

\* every step keeps it,
LEMMA LoopNext == LoopInv /\ [Next]_vars => LoopInv'
  <1> SUFFICES ASSUME LoopInv, [Next]_vars PROVE LoopInv'
    OBVIOUS
  <1>1. Scalars'
    BY ScalarsNext DEF LoopInv
  <1>2. CallSizes \subseteq Nat
    BY LimitsAssumption
  <1>3. CASE Submit
    BY <1>1, <1>3, LoopSubmit
  <1>4. CASE StartLoop
    BY <1>1, <1>4, LoopStart
  <1>5. CASE Blocked \/ Throws \/ FoundAborted \/ RouterFails
    BY <1>1, <1>5, LoopStops
  <1>6. CASE Abort
    BY <1>1, <1>6, LoopAbort
  <1>7. CASE Prepare
    BY <1>1, <1>7, LoopPrepare
  <1>8. CASE Request
    BY <1>1, <1>8, LoopRequest
  <1>9. ASSUME NEW n \in CallSizes, Answer(n) PROVE LoopInv'
    BY <1>1, <1>2, <1>9, LoopAnswer
  <1>10. ASSUME NEW n \in CallSizes, NEW error \in Errors, AnswerRetried(error, n)
         PROVE  LoopInv'
    BY <1>1, <1>2, <1>10, LoopRetried
  <1>11. ASSUME NEW n \in CallSizes, NEW error \in Errors, AnswerFails(error, n)
         PROVE  LoopInv'
    BY <1>1, <1>2, <1>11, LoopFails
  <1>12. CASE Stop
    BY <1>1, <1>12, LoopStop
  <1>13. CASE Execute
    BY <1>1, <1>13, LoopExecute
  <1>14. ASSUME NEW spilled \in BOOLEAN, NEW extra \in {<<>>, <<Note>>},
                NextRound(spilled, extra)
         PROVE  LoopInv'
    BY <1>1, <1>14, LoopNextRound
  <1>15. ASSUME NEW spilled \in BOOLEAN, NEW extra \in {<<>>, <<Note>>},
                LastRound(spilled, extra)
         PROVE  LoopInv'
    BY <1>1, <1>15, LoopLastRound
  <1>16. CASE UNCHANGED vars
    <2>1. UNCHANGED <<phase, messages, base, request, truncated, issued, prompts, cutShort>>
      BY <1>16 DEF vars
    <2>2. Talk' = Talk
      BY <2>1, TalkStays
    <2>3. Asked'
      BY <2>1, AskedStays DEF LoopInv
    <2> QED
      BY <1>1, <2>1, <2>2, <2>3 DEF LoopInv, Shaped, Ongoing, Answering, Remembered,
                                    Substance
  <1> QED
    BY <1>3, <1>4, <1>5, <1>6, <1>7, <1>8, <1>9, <1>10, <1>11, <1>12, <1>13, <1>14,
       <1>15, <1>16 DEF Next

\* and so it always holds.
LEMMA LoopInvariant == Spec => []LoopInv
  BY LoopInit, LoopNext, PTL DEF Spec

\* Every variable has its type: in particular a message of the history or of a request
\* never tells about a prompt or a call that has not been made.
THEOREM TypeCorrect == Spec => []TypeOK
  <1>1. LoopInv => TypeOK
    <2> SUFFICES ASSUME LoopInv PROVE TypeOK
      OBVIOUS
    <2>1. Talk \subseteq Messages
      BY DEF Talk, Shape, Messages
    <2>2. \A ms \in Seq(Talk) : ms \in Seq(Messages)
      BY <2>1, SeqMonotonic
    <2> QED
      BY <2>2 DEF LoopInv, Scalars, Shaped, TypeOK
  <1> QED
    BY <1>1, LoopInvariant, PTL

\* What the model is sent and what turns leave is a conversation that a provider accepts,
\* whatever aborts, retries, compactions and cuts came before (MessageProjector.project,
\* CompactionEngine.run, AgentLoop.run).
THEOREM HistoryStaysWellFormed == Spec => []HistoryIsWellFormed
  <1>1. ASSUME NEW S, NEW ms \in Seq(S), AnsweredAtOnce(ms)
        PROVE  OpenCalls(ms) = {}
    <2> SUFFICES ASSUME NEW c \in CallsOf(ms) PROVE c \in ResultsOf(ms)
      BY DEF OpenCalls
    <2>1. PICK i \in DOMAIN ms : c \in ms[i].calls
      BY DEF CallsOf
    <2>2. i < Len(ms) /\ c \in ms[i + 1].results
      BY <1>1, <2>1 DEF AnsweredAtOnce
    <2>3. i + 1 \in DOMAIN ms
      BY <2>1, <2>2
    <2> QED
      BY <2>2, <2>3 DEF ResultsOf
  <1>2. LoopInv => HistoryIsWellFormed
    <2> SUFFICES ASSUME LoopInv PROVE HistoryIsWellFormed
      OBVIOUS
    <2>1. phase = "idle" => cutShort \/ AnsweredAtOnce(messages)
      BY DEF LoopInv, Ongoing, Answering, History
    <2>2. messages \in Seq(Talk)
      BY DEF LoopInv, Shaped
    <2>3. OnlyAbortsLeaveCallsOpen
      BY <1>1, <2>1, <2>2 DEF OnlyAbortsLeaveCallsOpen
    <2> QED
      BY <2>3 DEF LoopInv, Asked, HistoryIsWellFormed
  <1> QED
    BY <1>2, LoopInvariant, PTL

\* A summary tells about every prompt it replaces, and leaves neither a call without its
\* answer nor an answer without its call (CompactionEngine.run).
THEOREM SummariesAreFaithful == Spec => SummaryIsFaithful
  <1> DEFINE TellsAll == compactions' > compactions /\ compaction' = "summary"
                            => Told(messages') = Told(Snipped(messages))
             NothingDangles == compactions' > compactions
                                     /\ compaction' \in {"summary", "failed"}
                                  => Dangling(messages') = {}
  <1>1. ASSUME LoopInv, NEW tier \in Tiers, Compact(tier)
        PROVE  TellsAll /\ NothingDangles
    <2>1. Snipped(messages) \in Seq(Talk)
      BY <1>1, SnippedIs DEF LoopInv, Shaped, Talk
    <2>2. messages' = Compacted(messages, tier) /\ compaction' = tier
      BY <1>1 DEF Compact
    <2>3. CASE tier = "summary"
      <3>1. messages' = Summarized(Snipped(messages), TRUE)
        BY <2>2, <2>3 DEF Compacted
      <3> QED
        BY <2>1, <3>1, SummarizedIs DEF Talk
    <2>4. CASE tier = "failed"
      <3>1. messages' = Summarized(Snipped(messages), FALSE)
        BY <2>2, <2>4 DEF Compacted
      <3> QED
        BY <2>1, <2>2, <2>4, <3>1, SummarizedIs DEF Talk
    <2>5. CASE tier \notin {"summary", "failed"}
      BY <2>2, <2>5
    <2> QED
      BY <2>3, <2>4, <2>5
  <1>2. LoopInv /\ [Next]_vars => [TellsAll]_vars /\ [NothingDangles]_vars
    <2> SUFFICES ASSUME LoopInv, [Next]_vars PROVE TellsAll /\ NothingDangles
      OBVIOUS
    <2>1. CASE Prepare \/ Request
      <3>1. PICK tier \in Tiers : Compact(tier)
        BY <2>1 DEF Prepare, Request
      <3> QED
        BY <1>1, <3>1
    <2>2. CASE ~(Prepare \/ Request)
      <3>1. UNCHANGED compactions
        BY <2>2 DEF Next, vars, Submit, StartLoop, Blocked, Abort, Throws, FoundAborted,
                    RouterFails, Answer, AnswerRetried, AnswerFails, Stop, Execute,
                    NextRound, LastRound, Finish
      <3>2. compactions \in Nat
        BY DEF LoopInv, Scalars
      <3> QED
        BY <3>1, <3>2
    <2> QED
      BY <2>1, <2>2
  <1> QED
    BY <1>2, LoopInvariant, PTL DEF Spec, SummaryIsFaithful, SummaryTellsAll,
                                    SummaryLeavesNothingDangling

-----------------------------------------------------------------------------
(* The requests of a turn are counted *)

Truncations == IF truncated THEN 1 ELSE 0
Raises == IF raised THEN 1 ELSE 0
Sent == IF phase \in {"streaming", "answered", "executing"} THEN 1 ELSE 0

\* The counters of a turn have their ranges.
CountersOK ==
    /\ round \in 1..MaxTurns /\ corrected \in 0..MaxSelfCorrect
    /\ truncated \in BOOLEAN /\ raised \in BOOLEAN
    /\ strips \in Nat /\ asked \in Nat

\* Every request belongs to a round or to a retry that has used up its guard; the
\* request of the current round is counted from the moment it is sent.
Accounts ==
    asked + 1 = round + corrected + Truncations + Raises + strips + Sent

CountInv == CountersOK /\ Accounts

USE DEF Truncations, Raises, Sent

LEMMA CountInit == Init => CountInv
  <1> SUFFICES ASSUME Init PROVE CountInv
    OBVIOUS
  <1>1. /\ phase = "idle" /\ round = 1 /\ corrected = 0 /\ strips = 0 /\ asked = 0
        /\ truncated = FALSE /\ raised = FALSE
    BY DEF Init
  <1>2. 1 \in 1..MaxTurns /\ 0 \in 0..MaxSelfCorrect
    BY LimitsAssumption
  <1>3. CountersOK
    BY <1>1, <1>2 DEF CountersOK
  <1>4. Truncations = 0 /\ Raises = 0 /\ Sent = 0
    BY <1>1
  <1> QED
    BY <1>1, <1>3, <1>4 DEF CountInv, Accounts

\* A finished turn has forgotten its counters.
LEMMA CountFinish ==
  ASSUME NEW how, NEW ms, Finish(how, ms)
  PROVE  CountInv'
  <1>1. /\ phase' = "idle" /\ round' = 1 /\ corrected' = 0 /\ strips' = 0 /\ asked' = 0
        /\ truncated' = FALSE /\ raised' = FALSE
    BY DEF Finish, Fresh
  <1>2. 1 \in 1..MaxTurns /\ 0 \in 0..MaxSelfCorrect
    BY LimitsAssumption
  <1>3. CountersOK'
    BY <1>1, <1>2 DEF CountersOK
  <1>4. Truncations' = 0 /\ Raises' = 0 /\ Sent' = 0
    BY <1>1
  <1> QED
    BY <1>1, <1>3, <1>4 DEF CountInv, Accounts

\* The steps of a turn in flight.
LEMMA CountPrepare ==
  ASSUME CountInv, Prepare
  PROVE  CountInv'
  BY DEF Prepare, CountInv, CountersOK, Accounts

LEMMA CountRequest ==
  ASSUME CountInv, Request
  PROVE  CountInv'
  BY DEF Request, CountInv, CountersOK, Accounts

LEMMA CountRetry ==
  ASSUME NEW error, NEW n, CountInv, AnswerRetried(error, n)
  PROVE  CountInv'
  <1> USE LimitsAssumption DEF CountInv, CountersOK, Accounts
  <1>1. /\ phase = "streaming" /\ phase' = "top" /\ Retry(error)
        /\ round' = round /\ asked' = asked
    BY DEF AnswerRetried
  <1>2. CASE /\ corrected < MaxSelfCorrect /\ corrected' = corrected + 1
             /\ UNCHANGED <<truncated, raised, strips>>
    BY <1>1, <1>2
  <1>3. CASE ~truncated /\ truncated' = TRUE /\ UNCHANGED <<raised, corrected, strips>>
    BY <1>1, <1>3
  <1>4. CASE strips' = strips + 1 /\ UNCHANGED <<truncated, raised, corrected>>
    BY <1>1, <1>4
  <1>5. CASE ~raised /\ raised' = TRUE /\ UNCHANGED <<truncated, corrected, strips>>
    BY <1>1, <1>5
  <1> QED
    BY <1>1, <1>2, <1>3, <1>4, <1>5 DEF Retry

LEMMA CountNextRound ==
  ASSUME NEW spilled, NEW extra, CountInv, NextRound(spilled, extra)
  PROVE  CountInv'
  BY LimitsAssumption DEF NextRound, CountInv, CountersOK, Accounts

LEMMA CountNext == CountInv /\ [Next]_vars => CountInv'
  <1> SUFFICES ASSUME CountInv, [Next]_vars PROVE CountInv'
    OBVIOUS
  <1>1. ASSUME \E how, ms : Finish(how, ms) PROVE CountInv'
    BY <1>1, CountFinish
  <1>2. CASE Submit
    BY <1>2 DEF Submit, CountInv, CountersOK, Accounts
  <1>3. CASE StartLoop
    BY <1>3 DEF StartLoop, CountInv, CountersOK, Accounts
  <1>4. CASE Blocked \/ Throws \/ FoundAborted \/ RouterFails \/ Stop
    BY <1>1, <1>4 DEF Blocked, Throws, FoundAborted, RouterFails, Stop
  <1>5. CASE Abort
    BY <1>5 DEF Abort, CountInv, CountersOK, Accounts
  <1>6. CASE Prepare
    BY <1>6, CountPrepare
  <1>7. CASE Request
    BY <1>7, CountRequest
  <1>8. ASSUME NEW n \in CallSizes, Answer(n) PROVE CountInv'
    BY <1>8 DEF Answer, CountInv, CountersOK, Accounts
  <1>9. ASSUME NEW n \in CallSizes, NEW error \in Errors, AnswerRetried(error, n)
        PROVE  CountInv'
    BY <1>9, CountRetry
  <1>10. ASSUME NEW n \in CallSizes, NEW error \in Errors, AnswerFails(error, n)
         PROVE  CountInv'
    BY <1>1, <1>10 DEF AnswerFails
  <1>11. CASE Execute
    BY <1>11 DEF Execute, CountInv, CountersOK, Accounts
  <1>12. ASSUME NEW spilled \in BOOLEAN, NEW extra \in {<<>>, <<Note>>},
                NextRound(spilled, extra)
         PROVE  CountInv'
    BY <1>12, CountNextRound
  <1>13. ASSUME NEW spilled \in BOOLEAN, NEW extra \in {<<>>, <<Note>>},
                LastRound(spilled, extra)
         PROVE  CountInv'
    BY <1>1, <1>13 DEF LastRound
  <1>14. CASE UNCHANGED vars
    BY <1>14 DEF vars, CountInv, CountersOK, Accounts
  <1> QED
    BY <1>2, <1>3, <1>4, <1>5, <1>6, <1>7, <1>8, <1>9, <1>10, <1>11, <1>12, <1>13, <1>14
       DEF Next

\* Every model request of a turn has used up a round, a correction or a retry's guard
\* (AgentLoop.run).
THEOREM RequestsUseGuards == Spec => []RequestsAreAccounted
  <1>1. CountInv => RequestsAreAccounted
    BY LimitsAssumption DEF CountInv, CountersOK, Accounts, RequestsAreAccounted
  <1> QED
    BY <1>1, CountInit, CountNext, PTL DEF Spec

\* However a turn goes, its model requests are bounded by the configured rounds, the
\* corrections, one truncation, one larger answer, and the retries without images.
THEOREM TurnsAskBoundedly == Spec => [](asked <= MaxTurns + MaxSelfCorrect + 2 + strips)
  <1>1. CountInv => asked <= MaxTurns + MaxSelfCorrect + 2 + strips
    BY LimitsAssumption DEF CountInv, CountersOK, Accounts
  <1> QED
    BY <1>1, CountInit, CountNext, PTL DEF Spec
=============================================================================
