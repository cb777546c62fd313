---------------------------- MODULE LogListProofs ----------------------------
(***************************************************************************)
(* The list boxes stay within their limit, for any number of threads: a    *)
(* thread that is to add a line counts as a line already, and one that is  *)
(* to drop a line as a line less.                                          *)
(***************************************************************************)
EXTENDS LogList, FiniteSetTheorems, TLAPS

Adding(l)   == {t \in Threads : step[t] = "add" /\ box[t] = l}
Dropping(l) == {t \in Threads : step[t] = "delete" /\ box[t] = l}

BoundedInv ==
  \A l \in List : lines[l] + Cardinality(Adding(l)) <= LIMIT + Cardinality(Writers(l))

KeptInv ==
  \A l \in full :
    lines[l] + Cardinality(Writers(l)) >= LIMIT + 1 + Cardinality(Dropping(l))

OverIsFull == \A l \in List : lines[l] > LIMIT => l \in full

Typed == TypeOK /\ OverIsFull
Inv   == Typed /\ BoundedInv /\ KeptInv

\* The writers of a list are finitely many threads.
LEMMA WritersFinite ==
  ASSUME NEW l \in List
  PROVE  Writers(l) \subseteq Threads /\ IsFiniteSet(Writers(l)) /\ Cardinality(Writers(l)) \in Nat
<1>1. Writers(l) \subseteq Threads
  BY ThreadsAssumption DEF Writers
<1>. QED
  BY <1>1, ThreadsAssumption, FS_Subset, FS_CardinalityType

\* The threads with a call under way to a list are some of its writers.
LEMMA CallersAreWriters ==
  ASSUME TypeOK, NEW l \in List
  PROVE  /\ Adding(l) \subseteq Writers(l) /\ Dropping(l) \subseteq Writers(l)
         /\ IsFiniteSet(Adding(l)) /\ IsFiniteSet(Dropping(l))
         /\ Cardinality(Adding(l)) \in Nat /\ Cardinality(Adding(l)) <= Cardinality(Writers(l))
         /\ Cardinality(Dropping(l)) \in Nat
         /\ Cardinality(Dropping(l)) <= Cardinality(Writers(l))
<1>1. Adding(l) \subseteq Writers(l) /\ Dropping(l) \subseteq Writers(l)
  BY DEF TypeOK, Adding, Dropping
<1>. QED
  BY <1>1, WritersFinite, FS_Subset, FS_CardinalityType

\* The state before any thread has printed.
LEMMA InvInit == Init => Inv
<1>. SUFFICES ASSUME Init PROVE Inv
  OBVIOUS
<1>1. Typed
  BY LimitAssumption, ThreadsAssumption DEF Init, Typed, OverIsFull, TypeOK, List
<1>2. BoundedInv
  <2>. SUFFICES ASSUME NEW l \in List
               PROVE  lines[l] + Cardinality(Adding(l)) <= LIMIT + Cardinality(Writers(l))
    BY DEF BoundedInv
  <2>1. lines[l] = 0
    BY DEF Init
  <2>. QED
    BY <1>1, <2>1, CallersAreWriters, WritersFinite, LimitAssumption DEF Typed
<1>3. KeptInv
  BY DEF Init, KeptInv
<1>. QED
  BY <1>1, <1>2, <1>3 DEF Inv

\* Every call keeps the types.
LEMMA TypedNext == Typed /\ [Next]_vars => Typed'
<1>. SUFFICES ASSUME Typed, [Next]_vars PROVE Typed'
  OBVIOUS
<1>. USE ThreadsAssumption, LimitAssumption DEF Typed, TypeOK, OverIsFull
<1>1. ASSUME NEW l \in List, NEW t \in Writers(l), GetCount(l, t) PROVE Typed'
  <2>1. t \in Threads
    BY WritersFinite
  <2>2. CASE TooMany(lines[l])
    BY <1>1, <2>1, <2>2 DEF GetCount, TooMany
  <2>3. CASE ~TooMany(lines[l])
    BY <1>1, <2>1, <2>3 DEF GetCount
  <2>. QED
    BY <2>2, <2>3
<1>2. ASSUME NEW l \in List, NEW t \in Writers(l), DeleteString(l, t) PROVE Typed'
  <2>1. t \in Threads
    BY WritersFinite
  <2>2. Dropped(lines[l]) \in Nat /\ Dropped(lines[l]) <= lines[l]
    BY DEF Dropped
  <2>. QED
    BY <1>2, <2>1, <2>2 DEF DeleteString
<1>3. ASSUME NEW l \in List, NEW t \in Writers(l), AddString(l, t) PROVE Typed'
  <2>1. t \in Threads
    BY WritersFinite
  <2>. QED
    BY <1>3, <2>1 DEF AddString
<1>4. CASE ResetContent
  <2>1. \A t \in Threads : step[t] = "delete" => box[t] # "INFO_CLIENT"
    BY <1>4 DEF ResetContent, Writers
  <2>. QED
    BY <1>4, <2>1 DEF ResetContent, List
<1>5. CASE UNCHANGED vars
  BY <1>5 DEF vars
<1>. QED
  BY <1>1, <1>2, <1>3, <1>4, <1>5
     DEF Next, Write, WriteLog, m_fn_WriteLog, m_fn_WriteInfo, m_fn_WriteInfoClient, List

\* What a call does to the sets of callers: it moves its own thread only.
LEMMA CallersNext ==
  ASSUME Typed, NEW k \in List, NEW t \in Writers(k), NEW l \in List
  PROVE  /\ GetCount(k, t) /\ TooMany(lines[k]) =>
              Adding(l)' = Adding(l) /\ (l # k => Dropping(l)' = Dropping(l))
         /\ GetCount(k, t) /\ ~TooMany(lines[k]) =>
              Dropping(l)' = Dropping(l) /\ (l # k => Adding(l)' = Adding(l))
         /\ DeleteString(k, t) =>
              /\ l # k => Adding(l)' = Adding(l) /\ Dropping(l)' = Dropping(l)
              /\ l = k => /\ Adding(l)' = Adding(l) \union {t} /\ t \notin Adding(l)
                          /\ Dropping(l)' = Dropping(l) \ {t} /\ t \in Dropping(l)
         /\ AddString(k, t) =>
              /\ Dropping(l)' = Dropping(l)
              /\ l # k => Adding(l)' = Adding(l)
              /\ l = k => Adding(l)' = Adding(l) \ {t} /\ t \in Adding(l)
<1>1. t \in Threads
  BY WritersFinite
<1>. USE <1>1 DEF Typed, TypeOK, Adding, Dropping
<1>2. GetCount(k, t) /\ TooMany(lines[k]) =>
        Adding(l)' = Adding(l) /\ (l # k => Dropping(l)' = Dropping(l))
  BY DEF GetCount
<1>3. GetCount(k, t) /\ ~TooMany(lines[k]) =>
        Dropping(l)' = Dropping(l) /\ (l # k => Adding(l)' = Adding(l))
  BY DEF GetCount
<1>4. DeleteString(k, t) =>
        /\ l # k => Adding(l)' = Adding(l) /\ Dropping(l)' = Dropping(l)
        /\ l = k => /\ Adding(l)' = Adding(l) \union {t} /\ t \notin Adding(l)
                    /\ Dropping(l)' = Dropping(l) \ {t} /\ t \in Dropping(l)
  BY DEF DeleteString
<1>5. AddString(k, t) =>
        /\ Dropping(l)' = Dropping(l)
        /\ l # k => Adding(l)' = Adding(l)
        /\ l = k => Adding(l)' = Adding(l) \ {t} /\ t \in Adding(l)
  BY DEF AddString
<1>. QED
  BY <1>2, <1>3, <1>4, <1>5

\* One thread more or less in a set of callers.
LEMMA CountCallers ==
  ASSUME NEW S, IsFiniteSet(S), NEW t
  PROVE  /\ t \notin S => Cardinality(S \union {t}) = Cardinality(S) + 1
         /\ t \in S => Cardinality(S \ {t}) = Cardinality(S) - 1
BY FS_AddElement, FS_RemoveElement

\* No step pushes a list further than its writers may.
LEMMA BoundedNext == Inv /\ [Next]_vars => BoundedInv'
<1>. SUFFICES ASSUME Inv, [Next]_vars, NEW l \in List
             PROVE  (lines[l] + Cardinality(Adding(l)) <= LIMIT + Cardinality(Writers(l)))'
  BY DEF BoundedInv
<1>. USE LimitAssumption
<1>0. /\ Typed /\ TypeOK /\ Typed' /\ TypeOK'
      /\ lines[l] \in Nat /\ lines'[l] \in Nat
      /\ lines[l] + Cardinality(Adding(l)) <= LIMIT + Cardinality(Writers(l))
      /\ IsFiniteSet(Adding(l)) /\ Cardinality(Adding(l)) \in Nat
      /\ Cardinality(Writers(l)) \in Nat /\ Writers(l)' = Writers(l)
  BY TypedNext, CallersAreWriters, WritersFinite DEF Inv, Typed, TypeOK, BoundedInv, Writers
<1>1. ASSUME NEW k \in List, NEW t \in Writers(k), GetCount(k, t)
      PROVE  lines'[l] + Cardinality(Adding(l)') <= LIMIT + Cardinality(Writers(l))
  <2>1. lines' = lines
    BY <1>1 DEF GetCount
  <2>2. CASE Adding(l)' = Adding(l)
    BY <1>0, <2>1, <2>2
  <2>3. CASE ~TooMany(lines[k]) /\ k = l
    <3>1. Adding(l)' \subseteq Writers(l)
      BY <1>0 DEF Adding, TypeOK
    <3>2. Cardinality(Adding(l)') \in Nat /\ Cardinality(Adding(l)') <= Cardinality(Writers(l))
      BY <3>1, WritersFinite, FS_Subset, FS_CardinalityType
    <3>. QED
      BY <1>0, <2>1, <2>3, <3>2 DEF TooMany
  <2>. QED
    BY <1>0, <1>1, <2>2, <2>3, CallersNext
<1>2. ASSUME NEW k \in List, NEW t \in Writers(k), DeleteString(k, t)
      PROVE  lines'[l] + Cardinality(Adding(l)') <= LIMIT + Cardinality(Writers(l))
  <2>1. CASE k # l
    BY <1>0, <1>2, <2>1, CallersNext DEF DeleteString, Typed, TypeOK
  <2>2. CASE k = l
    <3>1. Cardinality(Adding(l)') = Cardinality(Adding(l)) + 1
      BY <1>0, <1>2, <2>2, CallersNext, CountCallers
    <3>2. lines'[l] = Dropped(lines[l])
      BY <1>2, <2>2 DEF DeleteString, Inv, Typed, TypeOK
    <3>3. CASE lines[l] # 0
      BY <1>0, <3>1, <3>2, <3>3 DEF Dropped
    <3>4. CASE lines[l] = 0
      <4>1. Adding(l)' \subseteq Writers(l)
        BY <1>0 DEF Adding, TypeOK
      <4>2. Cardinality(Adding(l)') <= Cardinality(Writers(l))
        BY <4>1, WritersFinite, FS_Subset
      <4>. QED
        BY <1>0, <3>1, <3>2, <3>4, <4>2 DEF Dropped
    <3>. QED
      BY <3>3, <3>4
  <2>. QED
    BY <2>1, <2>2
<1>3. ASSUME NEW k \in List, NEW t \in Writers(k), AddString(k, t)
      PROVE  lines'[l] + Cardinality(Adding(l)') <= LIMIT + Cardinality(Writers(l))
  <2>1. CASE k # l
    BY <1>0, <1>3, <2>1, CallersNext DEF AddString, Typed, TypeOK
  <2>2. CASE k = l
    <3>1. Cardinality(Adding(l)') = Cardinality(Adding(l)) - 1
      BY <1>0, <1>3, <2>2, CallersNext, CountCallers
    <3>2. lines'[l] = lines[l] + 1
      BY <1>3, <2>2 DEF AddString, Inv, Typed, TypeOK
    <3>. QED
      BY <1>0, <3>1, <3>2
  <2>. QED
    BY <2>1, <2>2
<1>4. ASSUME ResetContent
      PROVE  lines'[l] + Cardinality(Adding(l)') <= LIMIT + Cardinality(Writers(l))
  <2>1. Adding(l)' = Adding(l) /\ lines'[l] <= lines[l]
    BY <1>0, <1>4 DEF ResetContent, Adding, Typed, TypeOK
  <2>. QED
    BY <1>0, <2>1
<1>5. ASSUME UNCHANGED vars
      PROVE  lines'[l] + Cardinality(Adding(l)') <= LIMIT + Cardinality(Writers(l))
  BY <1>0, <1>5 DEF vars, Adding
<1>. QED
  BY <1>0, <1>1, <1>2, <1>3, <1>4, <1>5
     DEF Next, Write, WriteLog, m_fn_WriteLog, m_fn_WriteInfo, m_fn_WriteInfoClient, List

\* No step drops more lines of a full list than its writers may.
LEMMA KeptNext == Inv /\ [Next]_vars => KeptInv'
<1>. SUFFICES ASSUME Inv, [Next]_vars, NEW l \in full'
             PROVE  (lines[l] + Cardinality(Writers(l)) >= LIMIT + 1 + Cardinality(Dropping(l)))'
  BY DEF KeptInv
<1>. USE LimitAssumption
<1>0. /\ Typed /\ Typed' /\ TypeOK /\ TypeOK' /\ l \in List
      /\ lines[l] \in Nat /\ lines'[l] \in Nat
      /\ l \in full => lines[l] + Cardinality(Writers(l)) >= LIMIT + 1 + Cardinality(Dropping(l))
      /\ IsFiniteSet(Dropping(l)) /\ Cardinality(Dropping(l)) \in Nat
      /\ Cardinality(Dropping(l)) <= Cardinality(Writers(l))
      /\ Cardinality(Writers(l)) \in Nat /\ Writers(l)' = Writers(l)
  BY TypedNext, CallersAreWriters, WritersFinite DEF Inv, Typed, TypeOK, KeptInv, Writers
<1>. DEFINE Goal == lines'[l] + Cardinality(Writers(l)) >= LIMIT + 1 + Cardinality(Dropping(l)')
<1>1. ASSUME NEW k \in List, NEW t \in Writers(k), GetCount(k, t) PROVE Goal
  <2>1. lines' = lines /\ full' = full
    BY <1>1 DEF GetCount
  <2>2. CASE Dropping(l)' = Dropping(l)
    BY <1>0, <2>1, <2>2
  <2>3. CASE TooMany(lines[k]) /\ k = l
    <3>1. Dropping(l)' \subseteq Writers(l)
      BY <1>0 DEF Dropping, TypeOK
    <3>2. Cardinality(Dropping(l)') \in Nat /\ Cardinality(Dropping(l)') <= Cardinality(Writers(l))
      BY <1>0, <3>1, WritersFinite, FS_Subset, FS_CardinalityType
    <3>. QED
      BY <1>0, <2>1, <2>3, <3>2 DEF TooMany
  <2>. QED
    BY <1>0, <1>1, <2>2, <2>3, CallersNext
<1>2. ASSUME NEW k \in List, NEW t \in Writers(k), DeleteString(k, t) PROVE Goal
  <2>0. full' = full
    BY <1>2 DEF DeleteString
  <2>1. CASE k # l
    <3>1. Dropping(l)' = Dropping(l)
      BY <1>0, <1>2, <2>1, CallersNext
    <3>2. lines'[l] = lines[l]
      BY <1>0, <1>2, <2>1 DEF DeleteString, Typed, TypeOK
    <3>. QED
      BY <1>0, <2>0, <3>1, <3>2
  <2>2. CASE k = l
    <3>1. Cardinality(Dropping(l)') = Cardinality(Dropping(l)) - 1
      BY <1>0, <1>2, <2>2, CallersNext, CountCallers
    <3>2. lines'[l] >= lines[l] - 1
      BY <1>0, <1>2, <2>2 DEF DeleteString, Dropped, Typed, TypeOK
    <3>. QED
      BY <1>0, <2>0, <3>1, <3>2
  <2>. QED
    BY <2>1, <2>2
<1>3. ASSUME NEW k \in List, NEW t \in Writers(k), AddString(k, t) PROVE Goal
  <2>1. Dropping(l)' = Dropping(l)
    BY <1>0, <1>3, CallersNext
  <2>2. lines'[l] >= lines[l]
    BY <1>0, <1>3 DEF AddString, Typed, TypeOK
  <2>3. CASE l \in full
    BY <1>0, <2>1, <2>2, <2>3
  <2>4. CASE l \notin full
    <3>1. lines'[l] > LIMIT
      BY <1>0, <1>3, <2>4 DEF AddString
    <3>. QED
      BY <1>0, <2>1, <3>1
  <2>. QED
    BY <2>3, <2>4
<1>4. ASSUME ResetContent PROVE Goal
  <2>1. Dropping(l)' = Dropping(l) /\ lines'[l] = lines[l] /\ l \in full
    BY <1>0, <1>4 DEF ResetContent, Dropping, Typed, TypeOK
  <2>. QED
    BY <1>0, <2>1
<1>5. ASSUME UNCHANGED vars PROVE Goal
  BY <1>0, <1>5 DEF vars, Dropping
<1>. QED
  BY <1>0, <1>1, <1>2, <1>3, <1>4, <1>5
     DEF Next, Write, WriteLog, m_fn_WriteLog, m_fn_WriteInfo, m_fn_WriteInfoClient, List

\* Inv holds in every state.
LEMMA Invariant == Spec => []Inv
<1>1. Inv /\ [Next]_vars => Inv'
  BY TypedNext, BoundedNext, KeptNext DEF Inv
<1>. QED
  BY InvInit, <1>1, PTL DEF Spec

\* Every variable of LogList has its type, and lines are dropped of full lists only.
THEOREM TypeCorrect == Spec => []TypeOK
<1>1. Inv => TypeOK
  BY DEF Inv, Typed
<1>. QED
  BY Invariant, <1>1, PTL

\* A list never has more lines than the limit and one for each of its writers.
THEOREM ListsBounded == Spec => []Bounded
<1>1. Inv => Bounded
  <2>. SUFFICES ASSUME Inv, NEW l \in List
               PROVE  lines[l] <= LIMIT + Cardinality(Writers(l))
    BY DEF Bounded
  <2>1. lines[l] \in Nat /\ Cardinality(Adding(l)) \in Nat /\ Cardinality(Writers(l)) \in Nat
    BY CallersAreWriters, WritersFinite DEF Inv, Typed, TypeOK
  <2>. QED
    BY <2>1, LimitAssumption DEF Inv, BoundedInv
<1>. QED
  BY Invariant, <1>1, PTL

\* A list that has been full keeps its newest lines.
THEOREM NewestLinesKept == Spec => []NewestKept
<1>1. Inv => NewestKept
  <2>. SUFFICES ASSUME Inv, NEW l \in full
               PROVE  lines[l] + Cardinality(Writers(l)) >= LIMIT + 1
    BY DEF NewestKept
  <2>1. /\ lines[l] \in Nat /\ Cardinality(Dropping(l)) \in Nat
        /\ Cardinality(Writers(l)) \in Nat
    BY CallersAreWriters, WritersFinite DEF Inv, Typed, TypeOK
  <2>. QED
    BY <2>1, LimitAssumption DEF Inv, KeptInv
<1>. QED
  BY Invariant, <1>1, PTL
=============================================================================
