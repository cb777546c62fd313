--------------------------- MODULE CompletenessProofs ---------------------------
(* What the walks over the list find, for every number of connections and
   messages: a broadcast misses nobody, a targeted message reaches its client,
   and the table of an alive answer names all the clients it should and no
   other. *)
EXTENDS AliveLoop, ServerClassProofs

-----------------------------------------------------------------------------
(* The inductive invariant, for one thread p and one client c that its walk has
   to find.  Each of its parts is about a walk that has passed the client; only
   AliveComplete is about the state after the walk, and is told here of the walk
   itself. *)

\* The clients a walk has to find were accepted before it began.
SteadyAccepted ==
  \A p \in Conn : steady[p] \subseteq 1..accepted /\ (pc[p] = "none" => steady[p] = {})

\* A connection is there once it was accepted.
Connected == \A c \in Conn : sock[c] = "none" <=> c > accepted

\* The two threads of a client start together.
Started == \A c \in Conn : pc[c] = "none" <=> rx[c] = "none"

Groundwork == TypeOK /\ HandlerMatches /\ SteadyAccepted /\ Connected /\ Started

BroadcastMade(p, c) ==
  msg[p].type \in {"BROADCAST", "SERVERDOWN"} /\ Passed(p, c) /\ sock[c] = "open"
    => Got(out, msg[p], c)

TargetMet(p, c) ==
  /\ msg[p].type = "TARGET" /\ pc[p] \in {"relay", "send", "idle"} /\ Passed(p, c)
  /\ sock[c] = "open" /\ task[c] = msg[p].dst
  => Swallowed(p, c) \/ \E d \in Conn : Got(out, msg[p], d)

AnswerMet(p, c) ==
  /\ msg[p].type = "TASKALIVE" /\ pc[p] \in {"aliveSend", "send", "idle"} /\ Passed(p, c)
  /\ sock[c] = "open" /\ task[c] = msg[p].src
  => Swallowed(p, c) \/ \E d \in Conn : Got(out, msg[p], d)

TableFilled(p, c) ==
  /\ pc[p] = "aliveSend" \/ (pc[p] = "aliveFill" /\ c <= it[p])
  /\ task[c] \in 0..(MAXINDEX - 1)
  => task[c] \in msg[p].alive

MissesNobody(p) ==
  \A c \in steady[p] \intersect listed :
    p \notin wild => /\ BroadcastMade(p, c) /\ TargetMet(p, c)
                     /\ AnswerMet(p, c) /\ TableFilled(p, c)

CompleteInv == Groundwork /\ \A p \in Conn : MissesNobody(p)

\* It implies what the properties say.
LEMMA NobodyMissed ==
  CompleteInv => BroadcastComplete /\ TargetReached /\ AnswerReached /\ AliveComplete
<1> SUFFICES ASSUME CompleteInv
             PROVE  BroadcastComplete /\ TargetReached /\ AnswerReached /\ AliveComplete
    OBVIOUS
<1>1. \A m, c : Reached(m, c) <=> Got(out, m, c)
    BY DEF Reached, Got
<1>2. BroadcastComplete
    BY <1>1 DEF CompleteInv, Groundwork, MissesNobody, BroadcastMade, BroadcastComplete
<1>3. TargetReached
  <2>1. ASSUME NEW p \in Conn, NEW c \in steady[p] \intersect listed, p \notin wild
        PROVE  TargetMet(p, c)
      BY <2>1 DEF CompleteInv, Groundwork, MissesNobody
  <2>. QED
      BY <1>1, <2>1 DEF TargetMet, TargetReached
<1>4. AnswerReached
  <2>1. ASSUME NEW p \in Conn, NEW c \in steady[p] \intersect listed, p \notin wild
        PROVE  AnswerMet(p, c)
      BY <2>1 DEF CompleteInv, Groundwork, MissesNobody
  <2>. QED
      BY <1>1, <2>1 DEF AnswerMet, AnswerReached
<1>5. AliveComplete
    BY DEF CompleteInv, Groundwork, MissesNobody, TableFilled, AliveComplete
<1>. QED
    BY <1>2, <1>3, <1>4, <1>5

LEMMA CompleteInit == Init => CompleteInv
<1> SUFFICES ASSUME Init PROVE CompleteInv
    OBVIOUS
<1>1. \A p \in Conn : steady[p] = {}
    BY DEF Init
<1>2. Connected
    BY ConnFacts DEF Init, Connected
<1>3. Started
    BY DEF Init, Started
<1>. QED
    BY <1>1, <1>2, <1>3, TypeInit, HandlerInit
    DEF CompleteInv, Groundwork, SteadyAccepted, MissesNobody

-----------------------------------------------------------------------------
(* Threads whose walk does not move. *)

\* Clients join at the end of the list or leave it, and connections end.
ListGoesOn ==
  /\ \A c \in listed' : c <= accepted => c \in listed
  /\ \A c \in Conn : /\ c <= accepted /\ sock'[c] = "open" => sock[c] = "open"
                     /\ sock[c] \in {"closed", "reset"} => sock'[c] \in {"closed", "reset"}

\* Thread q keeps its message and its place, or leaves its handler, or comes
\* back to its walk from a removal.
Stays(q) ==
  /\ msg'[q].type = msg[q].type /\ msg'[q].src = msg[q].src /\ msg'[q].dst = msg[q].dst
  /\ msg'[q].from = msg[q].from /\ msg'[q].seq = msg[q].seq /\ msg'[q].alive = msg[q].alive
  /\ it'[q] = it[q]
  /\ \/ pc'[q] = pc[q]
     \/ pc[q] # "send" /\ pc'[q] \in {"none", "ended", "remove", "delete", "join"}
     \/ pc[q] = "none" /\ pc'[q] = "idle"
     \/ pc[q] \in {"remove", "delete", "join"} /\ pc'[q] = "relay"

\* Whom q has to find, and what others have made of its message, is as before.
LEMMA StaysFound ==
  ASSUME CompleteInv, NEW q \in Conn, ListGoesOn, Stays(q),
         q \notin wild' => q \notin wild,
         steady'[q] \subseteq steady[q],
         \A c \in steady'[q] :
           msg[q].type \in {"TARGET", "TASKALIVE"} => task'[c] = task[c],
         \A d \in Conn : Got(out, msg[q], d) => Got(out', msg[q], d)
  PROVE  MissesNobody(q)'
<1>1. MissesNobody(q)
    BY DEF CompleteInv, Groundwork
<1>2. Fits(msg[q].type, pc[q])
    BY DEF CompleteInv, Groundwork, HandlerMatches
<1>3. \A d \in Conn : Got(out, msg[q], d) => Got(out', msg'[q], d)
    BY DEF Got, Stays
<1>4. accepted \in Nat /\ it[q] \in Nat
    BY ConnFacts, BoundsAssumption DEF CompleteInv, Groundwork, TypeOK, ListType, ProcType
<1>5. ASSUME NEW c \in steady'[q] \intersect listed', q \notin wild'
      PROVE  /\ BroadcastMade(q, c)' /\ TargetMet(q, c)'
             /\ AnswerMet(q, c)' /\ TableFilled(q, c)'
  <2>1. c \in steady[q] /\ c \in 1..accepted /\ pc[q] # "none" /\ q \notin wild
      BY <1>5 DEF CompleteInv, Groundwork, SteadyAccepted
  <2>2. c \in listed /\ c \in Conn
      BY <1>4, <2>1, <1>5, BoundsAssumption DEF ListGoesOn, CompleteInv, Groundwork, TypeOK, ListType, Conn
  <2>3. sock'[c] = "open" => sock[c] = "open"
      BY <1>4, <2>1, <2>2 DEF ListGoesOn
  <2>4. Passed(q, c)' => Passed(q, c)
      BY <2>1 DEF Passed, Stays
  <2>5. BroadcastMade(q, c) /\ TargetMet(q, c) /\ AnswerMet(q, c) /\ TableFilled(q, c)
      BY <1>1, <2>1, <2>2 DEF MissesNobody
  <2>6. BroadcastMade(q, c)'
    <3>1. SUFFICES ASSUME msg'[q].type \in {"BROADCAST", "SERVERDOWN"}, Passed(q, c)',
                          sock'[c] = "open"
                   PROVE  Got(out', msg'[q], c)
        BY DEF BroadcastMade
    <3>. QED
        BY <1>3, <2>2, <2>3, <2>4, <2>5, <3>1 DEF BroadcastMade, Stays
  <2>7. TargetMet(q, c)'
    <3>1. SUFFICES ASSUME msg'[q].type = "TARGET", pc'[q] \in {"relay", "send", "idle"}, Passed(q, c)',
                          sock'[c] = "open", task'[c] = msg'[q].dst
                   PROVE  Swallowed(q, c)' \/ \E d \in Conn : Got(out', msg'[q], d)
        BY DEF TargetMet
    <3>2. pc[q] = pc'[q]
        BY <1>2, <2>1, <3>1 DEF Stays, Fits
    <3>3. task[c] = msg[q].dst
        BY <1>5, <3>1 DEF Stays
    <3>4. Swallowed(q, c) \/ \E d \in Conn : Got(out, msg[q], d)
        BY <2>3, <2>4, <2>5, <3>1, <3>2, <3>3 DEF TargetMet, Stays
    <3>5. Swallowed(q, c) => Swallowed(q, c)'
        BY <3>2 DEF Swallowed, Stays, ListGoesOn
    <3>. QED
        BY <1>3, <3>4, <3>5
  <2>8. TableFilled(q, c)'
    <3>1. SUFFICES ASSUME pc'[q] = "aliveSend" \/ (pc'[q] = "aliveFill" /\ c <= it'[q]),
                          task'[c] \in 0..(MAXINDEX - 1)
                   PROVE  task'[c] \in msg'[q].alive
        BY DEF TableFilled
    <3>2. pc[q] = pc'[q]
        BY <3>1 DEF Stays
    <3>3. task'[c] = task[c]
        BY <1>2, <1>5, <3>1, <3>2 DEF Fits
    <3>. QED
        BY <2>5, <3>1, <3>2, <3>3 DEF TableFilled, Stays
  <2>9. AnswerMet(q, c)'
    <3>1. SUFFICES ASSUME msg'[q].type = "TASKALIVE", pc'[q] \in {"aliveSend", "send", "idle"},
                          Passed(q, c)', sock'[c] = "open", task'[c] = msg'[q].src
                   PROVE  Swallowed(q, c)' \/ \E d \in Conn : Got(out', msg'[q], d)
        BY DEF AnswerMet
    <3>2. pc[q] = pc'[q]
        BY <1>2, <2>1, <3>1 DEF Stays, Fits
    <3>3. task[c] = msg[q].src
        BY <1>5, <3>1 DEF Stays
    <3>4. Swallowed(q, c) \/ \E d \in Conn : Got(out, msg[q], d)
        BY <2>3, <2>4, <2>5, <3>1, <3>2, <3>3 DEF AnswerMet, Stays
    <3>5. Swallowed(q, c) => Swallowed(q, c)'
        BY <3>2 DEF Swallowed, Stays, ListGoesOn
    <3>. QED
        BY <1>3, <3>4, <3>5
  <2>. QED
      BY <2>6, <2>7, <2>8, <2>9
<1>. QED
    BY <1>5 DEF MissesNobody

-----------------------------------------------------------------------------
(* A thread whose walk moves. *)

\* It disturbs nobody else.
LEMMA OthersFound ==
  ASSUME CompleteInv, NEW p \in Conn, NEW n, NEW w, MoveTo(p, n, w),
         UNCHANGED <<accepted, listed, sock>>, wild \ {p} \subseteq wild',
         NEW q \in Conn, q # p, msg'[q] = msg[q], steady'[q] \subseteq steady[q],
         \A c \in steady'[q] :
           msg[q].type \in {"TARGET", "TASKALIVE"} => task'[c] = task[c],
         \A d \in Conn : Got(out, msg[q], d) => Got(out', msg[q], d)
  PROVE  MissesNobody(q)'
<1>1. ListGoesOn
    BY DEF ListGoesOn
<1>2. Stays(q)
    BY DEF Stays, MoveTo, CompleteInv, Groundwork, TypeOK, ProcType
<1>3. q \notin wild' => q \notin wild
    OBVIOUS
<1>. QED
    BY <1>1, <1>2, <1>3, StaysFound

\* An iterator that has not been astray was not astray before the step.
LEMMA NotWild ==
  ASSUME NEW p \in Conn, NoteStep(p)
  PROVE  /\ wild \ {p} \subseteq wild'
         /\ p \notin wild' => p \notin wild /\ ~Astray(p)
BY DEF NoteStep

LEMMA DispatchFound ==
  ASSUME CompleteInv, NEW p \in Conn, Dispatch(p)
  PROVE  \A q \in Conn : MissesNobody(q)'
<1> DEFINE w == HandlerOf(Head(que[p]))
<1>1. /\ MoveTo(p, 0, w) /\ UNCHANGED <<accepted, listed, task, sock, out>>
      /\ msg' = [msg EXCEPT ![p] = Head(que[p])]
      /\ steady' = [steady EXCEPT ![p] = listed] /\ wild' = wild \ {p}
    BY DEF Dispatch, netVars, listVars
<1>2. w \in {"regScan", "aliveFill", "relay"}
    BY DEF HandlerOf
<1>3. it'[p] = 0 /\ pc'[p] = w
    BY <1>1 DEF MoveTo, CompleteInv, Groundwork, TypeOK, ProcType
<1>4. \A c \in listed : c \in Nat \ {0}
    BY BoundsAssumption DEF CompleteInv, Groundwork, TypeOK, ListType
<1>5. ASSUME NEW c \in listed
      PROVE  /\ BroadcastMade(p, c)' /\ TargetMet(p, c)'
             /\ AnswerMet(p, c)' /\ TableFilled(p, c)'
  <2>1. ~(c <= 0)
      BY <1>4
  <2>2. ~Passed(p, c)'
      BY <1>2, <1>3, <1>4, <2>1 DEF Passed
  <2>3. pc'[p] # "aliveSend" /\ ~(c <= it'[p])
      BY <1>2, <1>3, <2>1
  <2>. QED
      BY <2>2, <2>3 DEF BroadcastMade, TargetMet, AnswerMet, TableFilled
<1>6. MissesNobody(p)'
    BY <1>1, <1>5 DEF MissesNobody
<1>7. ASSUME NEW q \in Conn, q # p PROVE MissesNobody(q)'
  <2>1. msg'[q] = msg[q] /\ steady'[q] = steady[q]
      BY <1>1, <1>7 DEF CompleteInv, Groundwork, TypeOK, ProcType, HistType
  <2>. QED
      BY <1>1, <1>7, <2>1, OthersFound
<1>. QED
    BY <1>6, <1>7

LEMMA RegisterFound ==
  ASSUME CompleteInv, NEW p \in Conn, RegScan(p) \/ RegSet(p)
  PROVE  \A q \in Conn : MissesNobody(q)'
<1>1. msg[p].type = "TASKREG"
    BY DEF CompleteInv, Groundwork, HandlerMatches, Fits, RegScan, RegSet, RegState
<1>2. /\ UNCHANGED <<accepted, listed, sock, out, msg>> /\ NoteStep(p)
      /\ \E n, w : MoveTo(p, n, w) /\ w \notin {"aliveFill", "aliveSend"}
    BY DEF RegScan, RegSet, netVars, listVars
<1>3. pc'[p] \notin {"aliveFill", "aliveSend"}
    BY <1>2 DEF MoveTo, CompleteInv, Groundwork, TypeOK, ProcType
<1>4. MissesNobody(p)'
    BY <1>1, <1>2, <1>3 DEF MissesNobody, BroadcastMade, TargetMet, AnswerMet, TableFilled
<1>5. ASSUME NEW q \in Conn
      PROVE  /\ steady'[q] \subseteq steady[q]
             /\ \A c \in steady'[q] :
                  msg[q].type \in {"TARGET", "TASKALIVE"} => task'[c] = task[c]
  <2>1. CASE RegScan(p)
      BY <2>1 DEF RegScan, listVars
  <2>2. CASE RegSet(p)
    <3>1. PICK n \in NextNodes(p) :
            /\ task' = IF n = p THEN [task EXCEPT ![p] = msg[p].src] ELSE task
            /\ steady' = [k \in Conn |->
                 IF n = p /\ msg[k].type \in {"TARGET", "TASKALIVE"}
                   THEN steady[k] \ {p} ELSE steady[k]]
        BY <2>2 DEF RegSet
    <3>2. steady'[q] = IF n = p /\ msg[q].type \in {"TARGET", "TASKALIVE"}
                         THEN steady[q] \ {p} ELSE steady[q]
        BY <3>1
    <3>3. \A c : c # p => task'[c] = task[c]
        BY <3>1
    <3>. QED
        BY <3>1, <3>2, <3>3
  <2>. QED
      BY <2>1, <2>2
<1>6. ASSUME NEW q \in Conn, q # p PROVE MissesNobody(q)'
  <2>1. PICK n, w : MoveTo(p, n, w)
      BY <1>2
  <2>2. wild \ {p} \subseteq wild'
      BY <1>2, NotWild
  <2>. QED
      BY <1>2, <1>5, <1>6, <2>1, <2>2, OthersFound
<1>. QED
    BY <1>4, <1>6

LEMMA AliveFillFound ==
  ASSUME CompleteInv, NEW p \in Conn, AliveFill(p)
  PROVE  \A q \in Conn : MissesNobody(q)'
<1>1. PICK n \in NextNodes(p) :
        IF n = End
          THEN MoveTo(p, 0, "aliveSend") /\ UNCHANGED msg
          ELSE /\ MoveTo(p, n, "aliveFill")
               /\ msg' = IF task[n] > -1 /\ task[n] < MAXINDEX
                           THEN [msg EXCEPT ![p].alive = @ \union {task[n]}]
                           ELSE msg
    BY DEF AliveFill
<1>2. /\ TypeOK /\ pc[p] = "aliveFill" /\ msg[p].type = "TASKALIVE"
      /\ UNCHANGED <<steady, accepted, listed, task, sock, out>> /\ NoteStep(p)
    BY DEF AliveFill, CompleteInv, Groundwork, HandlerMatches, Fits, netVars, listVars
<1>3. /\ msg[p].alive \subseteq msg'[p].alive
      /\ n # End /\ task[n] \in 0..(MAXINDEX - 1) => task[n] \in msg'[p].alive
    BY <1>1, <1>2, BoundsAssumption DEF TypeOK, ProcType, Message
<1>4. /\ n = End => pc'[p] = "aliveSend"
      /\ n # End => pc'[p] = "aliveFill" /\ it'[p] = n
    BY <1>1, <1>2 DEF MoveTo, TypeOK, ProcType
<1>5. ASSUME NEW c \in steady[p] \intersect listed, p \notin wild'
      PROVE  TableFilled(p, c)'
  <2>1. p \notin wild /\ ~Astray(p)
      BY <1>2, <1>5, NotWild
  <2>2. c <= it[p] \/ (n # End /\ n <= c)
      BY <1>2, <2>1, NextListed
  <2>3. c <= it[p] /\ task[c] \in 0..(MAXINDEX - 1) => task[c] \in msg[p].alive
      BY <1>2, <2>1 DEF CompleteInv, Groundwork, MissesNobody, TableFilled
  <2>4. CASE c <= it[p]
      BY <1>2, <1>3, <2>3, <2>4 DEF TableFilled
  <2>5. CASE n # End /\ n <= c
    <3>1. n \in Nat /\ c \in Nat
        BY <1>2, <2>1, <2>5, NextListed, ListedConn, ConnFacts
    <3>2. pc'[p] = "aliveFill" /\ (c <= it'[p] => c = n)
        BY <1>4, <2>5, <3>1
    <3>. QED
        BY <1>2, <1>3, <2>5, <3>2 DEF TableFilled
  <2>. QED
      BY <2>2, <2>4, <2>5
<1>6. MissesNobody(p)'
  <2>1. msg'[p].type = "TASKALIVE"
      BY <1>2, FillKeeps
  <2>2. ASSUME NEW c \in steady[p] \intersect listed
        PROVE  AnswerMet(p, c)'
    <3>1. CASE n = End
      <4>1. it'[p] = 0 /\ pc'[p] = "aliveSend"
          BY <1>1, <1>2, <3>1 DEF MoveTo, TypeOK, ProcType
      <4>2. c \in Nat \ {0}
          BY <1>2, <2>2, ListedConn, ConnFacts
      <4>. QED
          BY <4>1, <4>2 DEF AnswerMet, Passed
    <3>2. CASE n # End
        BY <1>4, <3>2 DEF AnswerMet
    <3>. QED
        BY <3>1, <3>2
  <2>. QED
      BY <1>2, <1>5, <2>1, <2>2 DEF MissesNobody, BroadcastMade, TargetMet
<1>7. ASSUME NEW q \in Conn, q # p PROVE MissesNobody(q)'
  <2>1. msg'[q] = msg[q]
      BY <1>2, <1>7, FillKeeps
  <2>2. \E k, w : MoveTo(p, k, w)
      BY <1>1
  <2>3. wild \ {p} \subseteq wild'
      BY <1>2, NotWild
  <2>. QED
      BY <1>2, <1>7, <2>1, <2>2, <2>3, OthersFound
<1>. QED
    BY <1>6, <1>7

\* What thread p sends takes nothing away.
LEMMA SentStays ==
  ASSUME TypeOK, NEW p \in Conn, NEW n \in Conn, SendTo(n, msg[p]), NEW k, NEW c \in Conn,
         Got(out, k, c)
  PROVE  Got(out', k, c)
BY SendGot DEF TypeOK, ProcType

\* A walk that sends goes on, and has passed c before.
LEMMA PassedMet ==
  ASSUME CompleteInv, NEW p \in Conn, pc[p] \in {"aliveSend", "relay", "send"},
         NEW c \in steady[p] \intersect listed, p \notin wild, Passed(p, c),
         UNCHANGED <<msg, task, sock>>,
         \A d \in Conn : Got(out, msg[p], d) => Got(out', msg[p], d)
  PROVE  BroadcastMade(p, c)' /\ TargetMet(p, c)' /\ AnswerMet(p, c)'
<1>1. BroadcastMade(p, c) /\ TargetMet(p, c) /\ AnswerMet(p, c)
    BY DEF CompleteInv, Groundwork, MissesNobody
<1>2. c \in Conn
    BY ListedConn DEF CompleteInv, Groundwork
<1>3. /\ msg[p].type = "TARGET" => pc[p] \in {"relay", "send"}
      /\ msg[p].type = "TASKALIVE" => pc[p] \in {"aliveSend", "send"}
    BY DEF CompleteInv, Groundwork, HandlerMatches, Fits
<1>4. ~Swallowed(p, c)
    BY DEF Swallowed
<1>5. BroadcastMade(p, c)'
    BY <1>1, <1>2 DEF BroadcastMade
<1>6. TargetMet(p, c)'
    BY <1>1, <1>3, <1>4 DEF TargetMet
<1>7. AnswerMet(p, c)'
    BY <1>1, <1>3, <1>4 DEF AnswerMet
<1>. QED
    BY <1>5, <1>6, <1>7

\* A send to n is over, and c does not come before n.
LEMMA SentMet ==
  ASSUME CompleteInv, NEW p \in Conn, NEW n \in Conn,
         NEW c \in steady[p] \intersect listed, n <= c,
         UNCHANGED <<msg, task, sock>>, SendTo(n, msg[p]),
         it'[p] = n, pc'[p] = AfterSend(msg[p], n)
  PROVE  BroadcastMade(p, c)' /\ TargetMet(p, c)' /\ AnswerMet(p, c)'
<1>1. TypeOK /\ msg[p] \in Message
    BY DEF CompleteInv, Groundwork, TypeOK, ProcType
<1>2. c \in Conn /\ c \in Nat /\ n \in Nat
    BY <1>1, ListedConn, ConnFacts
<1>3. sock[n] \in {"open", "closed", "reset"}
  <2>1. accepted \in Nat /\ listed \subseteq 1..accepted
      BY <1>1, BoundsAssumption DEF TypeOK, ListType
  <2>2. ~(n > accepted)
      BY <1>2, <2>1
  <2>. QED
      BY <1>1, <2>2 DEF CompleteInv, Groundwork, Connected, TypeOK, NetType
<1>4. sock[n] = "open" => Got(out', msg[p], n)
    BY <1>1, SendGot
<1>5. CASE c = n
    BY <1>2, <1>4, <1>5 DEF BroadcastMade, TargetMet, AnswerMet
<1>6. CASE c # n /\ pc'[p] # "idle"
  <2>1. ~Passed(p, c)'
      BY <1>2, <1>6 DEF Passed
  <2>. QED
      BY <2>1 DEF BroadcastMade, TargetMet, AnswerMet
<1>7. CASE c # n /\ pc'[p] = "idle"
  <2>1. n < c
      BY <1>2, <1>7
  <2>2. msg[p].type \in {"TARGET", "TASKALIVE"}
      BY <1>7 DEF AfterSend
  <2>3. sock[n] # "open" => Swallowed(p, c)'
      BY <1>3, <1>7, <2>1 DEF Swallowed
  <2>. QED
      BY <1>4, <2>2, <2>3 DEF BroadcastMade, TargetMet, AnswerMet
<1>. QED
    BY <1>5, <1>6, <1>7

\* A walk comes to n, sends there or waits in send, and c does not come before n.
LEMMA SendMet ==
  ASSUME CompleteInv, NEW p \in Conn, NEW n \in Conn,
         NEW c \in steady[p] \intersect listed, n <= c,
         UNCHANGED <<msg, task, sock>>, Send(p, n)
  PROVE  BroadcastMade(p, c)' /\ TargetMet(p, c)' /\ AnswerMet(p, c)'
<1>1. \A w : MoveTo(p, n, w) => it'[p] = n /\ pc'[p] = w
    BY DEF MoveTo, CompleteInv, Groundwork, TypeOK, ProcType
<1>2. CASE Blocked(n)
  <2>1. it'[p] = n /\ pc'[p] = "send"
      BY <1>1, <1>2 DEF Send
  <2>2. c \in Nat /\ n \in Nat
      BY ListedConn, ConnFacts DEF CompleteInv, Groundwork
  <2>3. ~Passed(p, c)'
      BY <2>1, <2>2 DEF Passed
  <2>. QED
      BY <2>3 DEF BroadcastMade, TargetMet, AnswerMet
<1>3. CASE ~Blocked(n)
    BY <1>1, <1>3, SentMet DEF Send
<1>. QED
    BY <1>2, <1>3

\* The walk comes to n, finds no number it looks for, and goes on.
LEMMA GoneOnMet ==
  ASSUME CompleteInv, NEW p \in Conn, NEW n \in Conn,
         NEW c \in steady[p] \intersect listed, n <= c,
         UNCHANGED <<msg, task, sock>>, it'[p] = n, pc'[p] \in {"aliveSend", "relay"},
         \/ msg[p].type = "TARGET" /\ task[n] # msg[p].dst
         \/ msg[p].type = "TASKALIVE" /\ task[n] # msg[p].src
  PROVE  BroadcastMade(p, c)' /\ TargetMet(p, c)' /\ AnswerMet(p, c)'
<1>1. c \in Nat /\ n \in Nat
    BY ListedConn, ConnFacts DEF CompleteInv, Groundwork
<1>2. Passed(p, c)' => c = n
    BY <1>1 DEF Passed
<1>. QED
    BY <1>2 DEF BroadcastMade, TargetMet, AnswerMet

\* One turn of a loop that sends, for the client c it has to find.
LEMMA TurnMet ==
  ASSUME CompleteInv, NEW p \in Conn, AliveSend(p) \/ Relay(p),
         NEW c \in steady[p] \intersect listed, p \notin wild'
  PROVE  BroadcastMade(p, c)' /\ TargetMet(p, c)' /\ AnswerMet(p, c)'
<1>1. /\ TypeOK /\ UNCHANGED <<msg, steady, accepted, listed, task, sock>> /\ NoteStep(p)
      /\ pc[p] \in {"aliveSend", "relay"}
    BY DEF AliveSend, Relay, CompleteInv, Groundwork, listVars
<1>2. p \notin wild /\ ~Astray(p)
    BY <1>1, NotWild
<1>3. PICK n \in NextNodes(p) :
        \/ n = End
        \/ n \in Conn /\ Send(p, n)
        \/ /\ n \in Conn /\ \E w \in {"aliveSend", "relay"} : MoveTo(p, n, w)
           /\ \/ msg[p].type = "TARGET" /\ task[n] # msg[p].dst
              \/ msg[p].type = "TASKALIVE" /\ task[n] # msg[p].src
  <2>1. CASE AliveSend(p)
    <3>1. msg[p].type = "TASKALIVE"
        BY <2>1 DEF AliveSend, CompleteInv, Groundwork, HandlerMatches, Fits
    <3>2. PICK n \in NextNodes(p) :
            IF n \in Conn /\ task[n] = msg[p].src
              THEN Send(p, n)
              ELSE MoveTo(p, n, IF n = End THEN "idle" ELSE "aliveSend")
        BY <2>1 DEF AliveSend
    <3>3. n \in Conn \union {End}
        BY <1>1, StepForward
    <3>. QED
        BY <3>1, <3>2, <3>3
  <2>2. CASE Relay(p)
    <3>1. PICK n \in NextNodes(p) :
            \/ n = End
            \/ n # End /\ msg[p].type = "TARGET" /\ RelayTarget(p, n)
            \/ n # End /\ Send(p, n)
        BY <2>2 DEF Relay
    <3>2. n \in Conn \union {End}
        BY <1>1, StepForward
    <3>. QED
        BY <3>1, <3>2 DEF RelayTarget
  <2>. QED
      BY <2>1, <2>2
<1>4. c <= it[p] \/ (n # End /\ n <= c)
    BY <1>1, <1>2, NextListed
<1>5. CASE c <= it[p]
  <2>1. Passed(p, c)
    <3>1. c \in Nat
        BY <1>1, ListedConn, ConnFacts
    <3>2. it[p] \in Nat
        BY <1>1, ConnFacts DEF TypeOK, ProcType
    <3>. QED
        BY <1>1, <1>5, <3>1, <3>2 DEF Passed
  <2>2. \A d \in Conn : Got(out, msg[p], d) => Got(out', msg[p], d)
      BY <1>1, TurnMoves, SentStays
  <2>. QED
      BY <1>1, <1>2, <2>1, <2>2, PassedMet
<1>6. CASE n \in Conn /\ n <= c /\ Send(p, n)
    BY <1>1, <1>6, SendMet
<1>7. CASE /\ n \in Conn /\ n <= c /\ \E w \in {"aliveSend", "relay"} : MoveTo(p, n, w)
           /\ \/ msg[p].type = "TARGET" /\ task[n] # msg[p].dst
              \/ msg[p].type = "TASKALIVE" /\ task[n] # msg[p].src
  <2>1. it'[p] = n /\ pc'[p] \in {"aliveSend", "relay"}
      BY <1>1, <1>7 DEF MoveTo, TypeOK, ProcType
  <2>. QED
      BY <1>1, <1>7, <2>1, GoneOnMet
<1>. QED
    BY <1>3, <1>4, <1>5, <1>6, <1>7

LEMMA TurnFound ==
  ASSUME CompleteInv, NEW p \in Conn, AliveSend(p) \/ Relay(p)
  PROVE  \A q \in Conn : MissesNobody(q)'
<1>1. /\ TypeOK /\ UNCHANGED <<msg, steady, accepted, listed, task, sock>> /\ NoteStep(p)
    BY DEF AliveSend, Relay, CompleteInv, Groundwork, listVars
<1>2. PICK n \in NextNodes(p), w \in {"idle", "aliveSend", "relay", "send", "remove"} :
        /\ MoveTo(p, n, w)
        /\ UNCHANGED out \/ (n \in Conn /\ SendTo(n, msg[p]))
    BY <1>1, TurnMoves
<1>3. pc'[p] = w
    BY <1>1, <1>2 DEF MoveTo, TypeOK, ProcType
<1>4. MissesNobody(p)'
  <2>1. ASSUME NEW c \in steady[p] \intersect listed, p \notin wild'
        PROVE  TableFilled(p, c)'
    <3>1. pc'[p] = "aliveSend" => pc[p] = "aliveSend"
        BY <1>1, <1>2 DEF AliveSend, Relay, RelayTarget, Send, AfterSend, MoveTo, TypeOK, ProcType
    <3>. QED
        BY <1>1, <1>2, <1>3, <2>1, <3>1, NotWild
        DEF CompleteInv, Groundwork, MissesNobody, TableFilled
  <2>. QED
      BY <1>1, <2>1, TurnMet DEF MissesNobody
<1>5. ASSUME NEW q \in Conn, q # p PROVE MissesNobody(q)'
  <2>1. \A d \in Conn : Got(out, msg[q], d) => Got(out', msg[q], d)
      BY <1>1, <1>2, SentStays
  <2>2. wild \ {p} \subseteq wild'
      BY <1>1, NotWild
  <2>. QED
      BY <1>1, <1>2, <1>5, <2>1, <2>2, OthersFound
<1>. QED
    BY <1>4, <1>5

\* A send that had to wait is over.
LEMMA SendReturnsFound ==
  ASSUME CompleteInv, NEW p \in Conn, SendReturns(p)
  PROVE  \A q \in Conn : MissesNobody(q)'
<1>1. /\ TypeOK /\ pc[p] = "send" /\ it[p] \in Conn /\ SendTo(it[p], msg[p])
      /\ UNCHANGED <<it, msg, steady, wild, accepted, listed, task, sock>>
      /\ pc' = [pc EXCEPT ![p] = AfterSend(msg[p], it[p])]
    BY DEF SendReturns, CompleteInv, Groundwork, TypeOK, ProcType, listVars, histVars
<1>2. pc'[p] = AfterSend(msg[p], it[p]) /\ \A q \in Conn \ {p} : pc'[q] = pc[q]
    BY <1>1 DEF TypeOK, ProcType
<1>3. \A q, d \in Conn : Got(out, msg[q], d) => Got(out', msg[q], d)
    BY <1>1, SentStays
<1>4. ASSUME NEW c \in steady[p] \intersect listed, p \notin wild
      PROVE  BroadcastMade(p, c)' /\ TargetMet(p, c)' /\ AnswerMet(p, c)'
  <2>1. c \in Nat /\ it[p] \in Nat
      BY <1>1, ListedConn, ConnFacts
  <2>2. CASE c < it[p]
      BY <1>1, <1>3, <1>4, <2>2, PassedMet DEF Passed
  <2>3. CASE it[p] <= c
      BY <1>1, <1>2, <2>3, SentMet
  <2>. QED
      BY <2>1, <2>2, <2>3
<1>5. MissesNobody(p)'
  <2>1. pc'[p] \notin {"aliveFill", "aliveSend"}
      BY <1>2 DEF AfterSend
  <2>. QED
      BY <1>1, <1>4, <2>1 DEF MissesNobody, TableFilled
<1>6. ASSUME NEW q \in Conn, q # p PROVE MissesNobody(q)'
  <2>1. ListGoesOn
      BY <1>1 DEF ListGoesOn
  <2>2. Stays(q)
      BY <1>1, <1>2, <1>6 DEF Stays
  <2>. QED
      BY <1>1, <1>3, <2>1, <2>2, StaysFound
<1>. QED
    BY <1>5, <1>6

-----------------------------------------------------------------------------
(* Every step. *)

\* The steps that move no walk.
LEMMA BystandersFound ==
  ASSUME CompleteInv, UNCHANGED <<msg, it, task, out, steady, wild>>, ListGoesOn,
         \A q \in Conn : \/ pc'[q] = pc[q]
                         \/ pc[q] # "send" /\ pc'[q] \in {"ended", "delete", "join"}
                         \/ pc[q] = "none" /\ pc'[q] = "idle"
                         \/ pc[q] \in {"remove", "delete", "join"} /\ pc'[q] = "relay"
  PROVE  \A q \in Conn : MissesNobody(q)'
<1>1. \A q \in Conn : Stays(q)
    BY DEF Stays
<1>. QED
    BY <1>1, StaysFound DEF Got

LEMMA ServerStepsFound ==
  ASSUME CompleteInv, StartListenClient \/ Fault \/ UNCHANGED vars
  PROVE  \A q \in Conn : MissesNobody(q)'
<1>1. UNCHANGED <<msg, it, pc, task, out, steady, wild>>
    BY DEF StartListenClient, Fault, vars, netVars, listVars, procVars, histVars
<1>2. ListGoesOn
  <2>1. CASE StartListenClient
    <3>1. /\ accepted \in Nat /\ accepted + 1 \in Conn
          /\ listed' = listed \union {accepted + 1}
          /\ sock' = [sock EXCEPT ![accepted + 1] = "open"]
        BY <2>1, BoundsAssumption DEF StartListenClient, CompleteInv, Groundwork, TypeOK, ListType, Conn
    <3>2. sock[accepted + 1] = "none"
        BY <3>1 DEF CompleteInv, Groundwork, Connected
    <3>. QED
        BY <3>1, <3>2 DEF ListGoesOn, CompleteInv, Groundwork, TypeOK, NetType
  <2>2. CASE Fault \/ UNCHANGED vars
      BY <2>2 DEF Fault, vars, netVars, listVars, ListGoesOn
  <2>. QED
      BY <2>1, <2>2
<1>. QED
    BY <1>1, <1>2, BystandersFound

LEMMA ClientStepsFound ==
  ASSUME CompleteInv, NEW c \in Conn,
         \/ Close(c) \/ Reset(c) \/ StopReading(c) \/ ReadAgain(c)
         \/ StartRecv(c) \/ RxStep(c) \/ \E r : Receive(c, r)
  PROVE  \A q \in Conn : MissesNobody(q)'
<1>1. UNCHANGED <<msg, it, task, out, steady, wild>>
    BY DEF Close, Reset, StopReading, ReadAgain, StartRecv,
           RxStep, RecvClosed, RecvError, RecvDelete, RecvEnd, Receive,
           netVars, listVars, procVars, histVars
<1>2. ListGoesOn
    BY DEF Close, Reset, StopReading, ReadAgain, StartRecv,
           RxStep, RecvClosed, RecvError, RecvDelete, RecvEnd, Receive,
           netVars, listVars, ListGoesOn, CompleteInv, Groundwork, TypeOK, NetType
<1>3. ASSUME NEW q \in Conn
      PROVE  pc'[q] = pc[q] \/ (pc[q] = "none" /\ pc'[q] = "idle")
  <2>1. CASE StartRecv(c)
    <3>1. pc[c] = "none" /\ pc' = [pc EXCEPT ![c] = "idle"]
        BY <2>1 DEF StartRecv, CompleteInv, Groundwork, Started
    <3>. QED
        BY <3>1 DEF CompleteInv, Groundwork, TypeOK, ProcType
  <2>2. CASE ~StartRecv(c)
      BY <2>2 DEF Close, Reset, StopReading, ReadAgain,
                  RxStep, RecvClosed, RecvError, RecvDelete, RecvEnd, Receive, procVars
  <2>. QED
      BY <2>1, <2>2
<1>. QED
    BY <1>1, <1>2, <1>3, BystandersFound

LEMMA RemovalFound ==
  ASSUME CompleteInv, NEW p \in Conn, ProcEnd(p) \/ Remove(p) \/ Delete(p) \/ Join(p)
  PROVE  \A q \in Conn : MissesNobody(q)'
<1>1. UNCHANGED <<msg, it, task, out, steady, wild>>
    BY DEF ProcEnd, Remove, Delete, Join, netVars, listVars, histVars
<1>2. ListGoesOn
    BY DEF ProcEnd, Remove, Delete, Join, netVars, listVars, ListGoesOn
<1>3. ASSUME NEW q \in Conn
      PROVE  \/ pc'[q] = pc[q]
             \/ pc[q] # "send" /\ pc'[q] \in {"ended", "delete", "join"}
             \/ pc[q] \in {"remove", "delete", "join"} /\ pc'[q] = "relay"
    BY DEF ProcEnd, Remove, Delete, Join, CompleteInv, Groundwork, TypeOK, ProcType
<1>. QED
    BY <1>1, <1>2, <1>3, BystandersFound

\* A thread under way goes elsewhere, and no walk has more to find.
LEMMA MoveGround ==
  ASSUME Groundwork, NEW p \in Conn, NEW w, pc' = [pc EXCEPT ![p] = w],
         w # "none", pc[p] # "none", UNCHANGED <<accepted, sock, rx>>,
         \A q \in Conn : steady'[q] \subseteq steady[q] \/ (q = p /\ steady'[q] = listed)
  PROVE  SteadyAccepted' /\ Connected' /\ Started'
<1>1. \A q \in Conn : pc'[q] = "none" <=> pc[q] = "none"
    BY DEF Groundwork, TypeOK, ProcType
<1>2. listed \subseteq 1..accepted
    BY DEF Groundwork, TypeOK, ListType
<1>3. ASSUME NEW q \in Conn
      PROVE  steady'[q] \subseteq 1..accepted /\ (pc'[q] = "none" => steady'[q] = {})
    BY <1>1, <1>2 DEF Groundwork, SteadyAccepted
<1>. QED
    BY <1>1, <1>3 DEF Groundwork, SteadyAccepted, Connected, Started

LEMMA GroundNext ==
  Groundwork /\ [Next]_vars => SteadyAccepted' /\ Connected' /\ Started'
<1> SUFFICES ASSUME Groundwork, [Next]_vars
             PROVE  SteadyAccepted' /\ Connected' /\ Started'
    OBVIOUS
<1>1. CASE StartListenClient
  <2>1. /\ accepted \in Nat /\ accepted + 1 \in Conn /\ accepted' = accepted + 1
        /\ sock' = [sock EXCEPT ![accepted + 1] = "open"]
        /\ UNCHANGED <<rx, pc, steady>>
      BY <1>1, BoundsAssumption
      DEF StartListenClient, Groundwork, TypeOK, ListType, Conn, objVars, procVars, histVars
  <2>2. Connected'
      BY <2>1, ConnFacts DEF Groundwork, Connected, TypeOK, NetType
  <2>. QED
      BY <2>1, <2>2 DEF Groundwork, SteadyAccepted, Started
<1>2. ASSUME NEW c \in Conn, StartRecv(c)
      PROVE  SteadyAccepted' /\ Connected' /\ Started'
    BY <1>2 DEF StartRecv, netVars, listVars, histVars, Groundwork, TypeOK, ObjType, ProcType,
                SteadyAccepted, Connected, Started
<1>3. ASSUME NEW c \in Conn,
             \/ Close(c) \/ Reset(c) \/ StopReading(c) \/ ReadAgain(c)
             \/ RxStep(c) \/ \E r \in Requests[c] : Receive(c, r)
      PROVE  SteadyAccepted' /\ Connected' /\ Started'
  <2>1. /\ UNCHANGED <<pc, steady, accepted>>
        /\ \A d \in Conn : sock'[d] = "none" <=> sock[d] = "none"
        /\ \A d \in Conn : rx'[d] = "none" <=> rx[d] = "none"
      BY <1>3 DEF Close, Reset, StopReading, ReadAgain, RxStep, RecvClosed, RecvError, RecvDelete, RecvEnd, Receive,
                  AfterRecv, netVars, listVars, objVars, procVars, histVars,
                  Groundwork, TypeOK, NetType, ObjType
  <2>. QED
      BY <2>1 DEF Groundwork, SteadyAccepted, Connected, Started
<1>4. ASSUME NEW p \in Conn, ProcStep(p)
      PROVE  SteadyAccepted' /\ Connected' /\ Started'
  <2>1. pc[p] # "none" /\ UNCHANGED <<accepted, sock, rx>>
      BY <1>4 DEF ProcStep, Dispatch, ProcEnd, RegScan, RegSet, AliveFill, AliveSend, Relay,
                  SendReturns, Remove, Delete, Join, netVars, listVars, objVars
  <2>2. \E w : w # "none" /\ pc' = [pc EXCEPT ![p] = w]
    <3>1. CASE Dispatch(p)
        BY <3>1 DEF Dispatch, MoveTo, HandlerOf
    <3>2. CASE RegScan(p) \/ RegSet(p) \/ AliveFill(p)
        BY <3>2 DEF RegScan, RegSet, AliveFill, MoveTo
    <3>3. CASE AliveSend(p) \/ Relay(p)
        BY <3>3, TurnMoves DEF Groundwork, MoveTo
    <3>4. CASE ProcEnd(p) \/ SendReturns(p) \/ Remove(p) \/ Delete(p) \/ Join(p)
        BY <3>4 DEF ProcEnd, SendReturns, AfterSend, Remove, Delete, Join
    <3>. QED
        BY <1>4, <3>1, <3>2, <3>3, <3>4 DEF ProcStep
  <2>3. \A q \in Conn : steady'[q] \subseteq steady[q] \/ (q = p /\ steady'[q] = listed)
    <3>1. CASE Dispatch(p)
        BY <3>1 DEF Dispatch, Groundwork, TypeOK, HistType
    <3>2. CASE RegSet(p)
        BY <3>2 DEF RegSet
    <3>3. CASE ~Dispatch(p) /\ ~RegSet(p)
        BY <1>4, <3>3 DEF ProcStep, ProcEnd, RegScan, AliveFill, AliveSend, Relay,
                          SendReturns, Remove, Delete, Join, histVars
    <3>. QED
        BY <3>1, <3>2, <3>3
  <2>. QED
      BY <2>1, <2>2, <2>3, MoveGround
<1>5. CASE Fault \/ UNCHANGED vars
    BY <1>5 DEF Fault, vars, netVars, listVars, objVars, procVars, histVars,
                Groundwork, SteadyAccepted, Connected, Started
<1>. QED
    BY <1>1, <1>2, <1>3, <1>4, <1>5 DEF Next

LEMMA CompleteNext == CompleteInv /\ [Next]_vars => CompleteInv'
<1> SUFFICES ASSUME CompleteInv, [Next]_vars PROVE CompleteInv'
    OBVIOUS
<1>1. Groundwork'
    BY TypeNext, HandlerNext, GroundNext DEF CompleteInv, Groundwork
<1>2. \A q \in Conn : MissesNobody(q)'
    BY DispatchFound, RegisterFound, AliveFillFound, TurnFound, SendReturnsFound,
       ServerStepsFound, ClientStepsFound, RemovalFound
    DEF Next, ProcStep
<1>. QED
    BY <1>1, <1>2 DEF CompleteInv

-----------------------------------------------------------------------------
(* The theorems. *)

\* CompleteInv holds in every behaviour.
LEMMA CompleteAlways == Spec => []CompleteInv
BY CompleteInit, CompleteNext, PTL DEF Spec

\* As far as its walk has come, a broadcast has reached every open client that
\* was listed when it began and still is, whoever joins, leaves or is removed
\* by other threads meanwhile (SendMessagePort).
THEOREM BroadcastsComplete == Spec => []BroadcastComplete
BY CompleteAlways, NobodyMissed, PTL

\* A TARGET message does not get lost: once its walk has passed an open client
\* that holds the number, somebody has it, or it was swallowed by a client that
\* comes before and whose connection is over (SendMessagePort).
THEOREM TargetsReached == Spec => []TargetReached
BY CompleteAlways, NobodyMissed, PTL

\* An alive request whose second walk has passed an open client that held the
\* number of the requester all along has been answered, or the answer was swallowed
\* by a client that comes before and whose connection is over (GetAliveClient).
THEOREM AnswersReached == Spec => []AnswerReached
BY CompleteAlways, NobodyMissed, PTL

\* The table of an alive answer has the number of every client that kept it
\* through the walk (GetAliveClient).
THEOREM AlivesComplete == Spec => []AliveComplete
BY CompleteAlways, NobodyMissed, PTL

-----------------------------------------------------------------------------
(* The server with the library that sends answers back, AliveLoop. *)

LEMMA ReceiveComplete ==
  ASSUME CompleteInv, NEW c \in Conn, NEW r, Sendable(r), Receive(c, r)
  PROVE  CompleteInv'
<1>1. UNCHANGED <<pc, msg, steady, accepted, sock>>
    BY DEF Receive, listVars, procVars, histVars
<1>2. \A d \in Conn : rx'[d] = "none" <=> rx[d] = "none"
    BY DEF Receive, AfterRecv, CompleteInv, Groundwork, TypeOK, ObjType
<1>3. TypeOK'
    BY ReceiveType DEF CompleteInv, Groundwork
<1>4. Groundwork'
    BY <1>1, <1>2, <1>3
    DEF CompleteInv, Groundwork, HandlerMatches, SteadyAccepted, Connected, Started
<1>5. \A q \in Conn : MissesNobody(q)'
    BY ClientStepsFound
<1>. QED
    BY <1>4, <1>5 DEF CompleteInv

\* Nothing is in the table of an alive request that was not there when it came
\* and that nobody has held since.
NothingMadeUp(p) ==
  pc[p] \in {"aliveFill", "aliveSend"} /\ p \notin wild
    => msg[p].alive \subseteq asked[p] \union since[p]

LoopInv == CompleteInv /\ seen \in [Conn -> Nat] /\ \A p \in Conn : NothingMadeUp(p)

\* A step of the server adds numbers of listed clients at most.
LEMMA TableGrows ==
  ASSUME TypeOK, [Next]_vars, NEW p \in Conn, pc[p] # "idle",
         pc'[p] \in {"aliveFill", "aliveSend"}, p \notin wild'
  PROVE  /\ pc[p] \in {"aliveFill", "aliveSend"} /\ p \notin wild
         /\ msg'[p].alive \subseteq msg[p].alive \union Held'
<1>1. CASE UNCHANGED <<pc, msg, wild>>
    BY <1>1
<1>2. ASSUME NEW q \in Conn, q # p, ProcStep(q)
      PROVE  pc'[p] = pc[p] /\ msg'[p] = msg[p] /\ p \notin wild
  <2>1. pc'[p] = pc[p] /\ p \notin wild
    <3>1. CASE AliveSend(q) \/ Relay(q)
      <4>1. (\E w : pc' = [pc EXCEPT ![q] = w]) /\ wild \ {q} \subseteq wild'
          BY <3>1, TurnMoves, NotWild DEF AliveSend, Relay, MoveTo
      <4>. QED
          BY <1>2, <4>1 DEF TypeOK, ProcType
    <3>2. CASE ~AliveSend(q) /\ ~Relay(q)
        BY <1>2, <3>2
        DEF ProcStep, Dispatch, ProcEnd, RegScan, RegSet, AliveFill, SendReturns,
            Remove, Delete, Join, MoveTo, NoteStep, histVars, TypeOK, ProcType
    <3>. QED
        BY <3>1, <3>2
  <2>2. CASE AliveFill(q)
      BY <1>2, <2>1, <2>2, FillKeeps
  <2>3. CASE ~AliveFill(q)
      BY <1>2, <2>1, <2>3
      DEF ProcStep, Dispatch, ProcEnd, RegScan, RegSet, AliveSend, Relay,
          SendReturns, Remove, Delete, Join, TypeOK, ProcType
  <2>. QED
      BY <2>2, <2>3
<1>3. CASE AliveFill(p)
  <2>1. ~Astray(p) /\ p \notin wild
      BY <1>3, NotWild DEF AliveFill
  <2>2. PICK n \in NextNodes(p) :
          IF n = End
            THEN UNCHANGED msg
            ELSE msg' = IF task[n] > -1 /\ task[n] < MAXINDEX
                          THEN [msg EXCEPT ![p].alive = @ \union {task[n]}]
                          ELSE msg
      BY <1>3 DEF AliveFill
  <2>3. n # End /\ task[n] > -1 => task[n] \in Held'
    <3>1. n # End => n \in listed /\ n \in Conn
        BY <2>1, NextListed
    <3>2. task' = task /\ listed' = listed
        BY <1>3 DEF AliveFill, listVars
    <3>. QED
        BY <3>1, <3>2 DEF Held
  <2>4. msg'[p].alive \subseteq msg[p].alive \union Held'
      BY <2>2, <2>3 DEF TypeOK, ProcType, Message
  <2>. QED
      BY <1>3, <2>1, <2>4 DEF AliveFill
<1>4. CASE AliveSend(p)
    BY <1>4, NotWild DEF AliveSend
<1>5. CASE RegScan(p) \/ RegSet(p) \/ Relay(p) \/ SendReturns(p)
  <2>1. \E w \in {"idle", "regScan", "regSet", "relay", "send", "remove"} :
          pc' = [pc EXCEPT ![p] = w]
      BY <1>5
      DEF RegScan, RegSet, Relay, RelayTarget, Send, SendReturns, AfterSend, MoveTo
  <2>. QED
      BY <2>1 DEF TypeOK, ProcType
<1>6. CASE Dispatch(p) \/ ProcEnd(p) \/ Remove(p) \/ Delete(p) \/ Join(p)
    BY <1>6 DEF Dispatch, ProcEnd, Remove, Delete, Join, TypeOK, ProcType
<1>7. ASSUME NEW c \in Conn, StartRecv(c)
      PROVE  pc'[p] = pc[p] /\ UNCHANGED <<msg, wild>>
    BY <1>7 DEF StartRecv, histVars, TypeOK, ProcType
<1>8. ASSUME NEW c \in Conn,
             \/ Close(c) \/ Reset(c) \/ StopReading(c) \/ ReadAgain(c)
             \/ RxStep(c) \/ \E r \in Requests[c] : Receive(c, r)
      PROVE  UNCHANGED <<pc, msg, wild>>
    BY <1>8 DEF Close, Reset, StopReading, ReadAgain, RxStep, RecvClosed, RecvError, RecvDelete, RecvEnd, Receive,
                procVars, histVars
<1>9. StartListenClient \/ Fault \/ UNCHANGED vars => UNCHANGED <<pc, msg, wild>>
    BY DEF StartListenClient, Fault, vars, procVars, histVars
<1>. QED
    BY <1>1, <1>2, <1>3, <1>4, <1>5, <1>6, <1>7, <1>8, <1>9 DEF Next, ProcStep

\* The history of one step.
LEMMA NothingMadeUpStep ==
  ASSUME NEW p \in Conn, NothingMadeUp(p), NoteHeld,
         \/ pc[p] = "idle"
         \/ pc'[p] \in {"aliveFill", "aliveSend"} /\ p \notin wild'
              => /\ pc[p] \in {"aliveFill", "aliveSend"} /\ p \notin wild
                 /\ msg'[p].alive \subseteq msg[p].alive \union Held'
  PROVE  NothingMadeUp(p)'
<1>1. /\ asked'[p] = IF pc[p] = "idle" THEN msg'[p].alive ELSE asked[p]
      /\ since'[p] = IF pc[p] = "idle" THEN Held' ELSE since[p] \union Held'
    BY DEF NoteHeld
<1>. QED
    BY <1>1 DEF NothingMadeUp

LEMMA LoopInvNext == LoopInv /\ [LoopNext]_loopVars => LoopInv'
<1> SUFFICES ASSUME LoopInv, [LoopNext]_loopVars PROVE LoopInv'
    OBVIOUS
<1>1. TypeOK
    BY DEF LoopInv, CompleteInv, Groundwork
<1>2. CASE Next /\ UNCHANGED seen /\ NoteHeld
  <2>1. CompleteInv'
      BY <1>2, CompleteNext DEF LoopInv
  <2>2. \A p \in Conn : NothingMadeUp(p)'
      BY <1>1, <1>2, TableGrows, NothingMadeUpStep DEF LoopInv
  <2>. QED
      BY <1>2, <2>1, <2>2 DEF LoopInv
<1>3. ASSUME NEW c \in Conn, RecvMessagePort(c), NoteHeld
      PROVE  LoopInv'
  <2>1. seen' \in [Conn -> Nat] /\ seen'[c] \in 1..Len(out[c])
    <3>1. Len(out[c]) \in Nat
        BY <1>1, LenProperties DEF TypeOK, NetType
    <3>. QED
        BY <1>3, <3>1 DEF RecvMessagePort, LoopInv
  <2>2. Sendable(out[c][seen'[c]])
      BY <1>1, <2>1, MessageSendable DEF TypeOK, NetType
  <2>3. CASE Receive(c, out[c][seen'[c]])
    <3>1. CompleteInv'
        BY <2>2, <2>3, ReceiveComplete DEF LoopInv
    <3>2. UNCHANGED <<pc, msg, wild>>
        BY <2>3 DEF Receive, procVars, histVars
    <3>3. \A p \in Conn : NothingMadeUp(p)'
        BY <1>3, <3>2, NothingMadeUpStep DEF LoopInv
    <3>. QED
        BY <2>1, <3>1, <3>3 DEF LoopInv
  <2>4. CASE UNCHANGED vars
    <3>1. CompleteInv'
        BY <2>4, CompleteNext DEF LoopInv
    <3>2. UNCHANGED <<pc, msg, wild>>
        BY <2>4 DEF vars, procVars, histVars
    <3>3. \A p \in Conn : NothingMadeUp(p)'
        BY <1>3, <3>2, NothingMadeUpStep DEF LoopInv
    <3>. QED
        BY <2>1, <3>1, <3>3 DEF LoopInv
  <2>. QED
      BY <1>3, <2>3, <2>4 DEF RecvMessagePort
<1>4. CASE UNCHANGED loopVars
  <2>1. CompleteInv'
      BY <1>4, CompleteNext DEF LoopInv, loopVars
  <2>2. UNCHANGED <<pc, msg, wild, asked, since, seen>>
      BY <1>4 DEF loopVars, vars, procVars, histVars
  <2>. QED
      BY <2>1, <2>2 DEF LoopInv, NothingMadeUp
<1>. QED
    BY <1>2, <1>3, <1>4 DEF LoopNext

LEMMA LoopAlways == LoopSpec => []LoopInv
<1>1. LoopInit => LoopInv
    BY CompleteInit DEF LoopInit, LoopInv, NothingMadeUp, Init
<1>. QED
    BY <1>1, LoopInvNext, PTL DEF LoopSpec

\* The table of an alive answer names only numbers that came with the request or
\* that clients have held since, whatever answers come back as requests
\* (GetAliveClient, RecvMessagePort).
THEOREM AlivesSound == LoopSpec => []AliveSound
<1>1. LoopInv => AliveSound
    BY DEF LoopInv, NothingMadeUp, AliveSound
<1>. QED
    BY <1>1, LoopAlways, PTL

\* Answers reach their clients though they become requests themselves.
THEOREM AnswersReachedInLoop == LoopSpec => []AnswerReached
<1>1. LoopInv => AnswerReached
    BY NobodyMissed DEF LoopInv
<1>. QED
    BY <1>1, LoopAlways, PTL

\* And it still names all it should.
THEOREM AlivesCompleteInLoop == LoopSpec => []AliveComplete
<1>1. LoopInv => AliveComplete
    BY NobodyMissed DEF LoopInv
<1>. QED
    BY <1>1, LoopAlways, PTL

===============================================================================
