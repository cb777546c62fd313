--------------------------- MODULE ServerClassProofs ---------------------------
(* Theorems of ServerClass, for every number of connections, every set of task
   numbers and whatever the peers send: its types, and what holds of the list of
   clients.  RegTask gives a number to one client, unless two registrations
   overlap; a client under destruction is off the list; and nothing is removed,
   freed or misread as long as no connection is reset. *)
EXTENDS ServerClass, SequenceTheorems, TLAPS

-----------------------------------------------------------------------------
(* Facts about the constants and the walk. *)

LEMMA ConnFacts ==
  /\ Conn \subseteq Nat \ {0}
  /\ End \in Nat
  /\ \A c \in Conn : c < End
  /\ Conn \subseteq 0..End
  /\ 0 \in 0..End /\ End \in 0..End
BY BoundsAssumption DEF Conn, End

LEMMA ListedConn == TypeOK => listed \subseteq Conn
BY BoundsAssumption DEF TypeOK, ListType, Conn

\* A walk goes to a connection or to the end, and forward unless it is astray.
LEMMA StepForward ==
  ASSUME TypeOK, NEW p \in Conn, NEW n \in NextNodes(p)
  PROVE  /\ n \in Conn \union {End}
         /\ n \in 0..End
         /\ n # End /\ ~Astray(p) => n > it[p]
<1>1. 1..accepted \subseteq Conn /\ listed \subseteq Conn
    BY ListedConn, BoundsAssumption DEF TypeOK, ListType, Conn
<1>. QED
    BY <1>1, ConnFacts DEF NextNodes

\* A walk that is not astray goes to the next listed client and passes none.
LEMMA NextListed ==
  ASSUME TypeOK, NEW p \in Conn, ~Astray(p), NEW n \in NextNodes(p)
  PROVE  /\ n # End => n \in listed /\ n \in Conn
         /\ \A c \in listed : c <= it[p] \/ (n # End /\ n <= c)
<1> DEFINE after == {k \in listed : k > it[p]}
<1>1. n \in after \union {End} /\ \A k \in after : n <= k
    BY DEF NextNodes
<1>2. /\ listed \subseteq Conn
      /\ \A c \in Conn : c \in Nat /\ c < End
      /\ End \in Nat /\ it[p] \in Nat
  <2>1. listed \subseteq Conn
      BY ListedConn
  <2>2. it[p] \in 0..End
      BY DEF TypeOK, ProcType
  <2>. QED
      BY <2>1, <2>2, ConnFacts
<1>3. ASSUME NEW c \in listed PROVE c <= it[p] \/ (n # End /\ n <= c)
  <2>1. c \in Nat /\ c < End /\ (c <= it[p] \/ c \in after)
      BY <1>2
  <2>2. CASE c \in after
    <3>1. n \in Nat /\ n <= c
        BY <1>1, <1>2, <2>2
    <3>2. n # End
        BY <1>2, <2>1, <3>1
    <3>. QED
        BY <3>1, <3>2
  <2>. QED
      BY <2>1, <2>2
<1>. QED
    BY <1>1, <1>2, <1>3

LEMMA ZeroMsgType == \A p \in Conn : ZeroMsg(p) \in Message
<1>1. 0 \in Tasks
    BY TasksAssumption
<1>2. {} \in SUBSET Tasks
    OBVIOUS
<1>3. "BROADCAST" \in MsgType
    BY DEF MsgType
<1>. QED
    BY <1>1, <1>2, <1>3 DEF ZeroMsg, Message

\* What a client may send, a request or an answer sent back.
Sendable(r) == r.type \in MsgType /\ r.src \in Tasks /\ r.dst \in Tasks /\ r.alive \in SUBSET Tasks

LEMMA RequestSendable == \A c \in Conn : \A r \in Requests[c] : Sendable(r)
BY RequestsAssumption DEF Request, Sendable

LEMMA MessageSendable == \A m \in Message : Sendable(m)
BY DEF Message, Sendable

\* What Receive puts into the queue is a message.
LEMMA ReceivedType ==
  ASSUME NEW c \in Conn, NEW r, Sendable(r), NEW k \in Nat
  PROVE  [type |-> r.type, src |-> r.src, dst |-> r.dst, alive |-> r.alive,
          from |-> c, seq |-> k] \in Message
BY DEF Sendable, Message

-----------------------------------------------------------------------------
(* TypeOK is inductive by itself. *)

LEMMA TypeInit == Init => TypeOK
<1> SUFFICES ASSUME Init PROVE TypeOK
    OBVIOUS
<1>1. NetType
    BY DEF Init, NetType
<1>2. ListType
    BY BoundsAssumption DEF Init, ListType
<1>3. ObjType
    BY DEF Init, ObjType, RxState
<1>4. ProcType
    BY ConnFacts, ZeroMsgType DEF Init, ProcType, PcState, WalkState, RegState
<1>5. HistType
    BY DEF Init, HistType
<1>. QED
    BY <1>1, <1>2, <1>3, <1>4, <1>5 DEF Init, TypeOK

\* A step keeps the type of every group of variables it leaves alone.
LEMMA TypeFrame ==
  ASSUME TypeOK
  PROVE  /\ UNCHANGED netVars  => NetType'
         /\ UNCHANGED listVars => ListType'
         /\ UNCHANGED objVars  => ObjType'
         /\ UNCHANGED procVars => ProcType'
         /\ UNCHANGED histVars => HistType'
         /\ UNCHANGED crashed  => (crashed \in BOOLEAN)'
<1>1. UNCHANGED netVars => NetType'
    BY DEF TypeOK, NetType, netVars
<1>2. UNCHANGED listVars => ListType'
    BY DEF TypeOK, ListType, listVars
<1>3. UNCHANGED objVars => ObjType'
    BY DEF TypeOK, ObjType, objVars
<1>4. UNCHANGED procVars => ProcType'
    BY DEF TypeOK, ProcType, procVars
<1>5. UNCHANGED histVars => HistType'
    BY DEF TypeOK, HistType, histVars
<1>. QED
    BY <1>1, <1>2, <1>3, <1>4, <1>5 DEF TypeOK

\* What the steps of a walk have in common: a thread goes on to destroy a
\* client only when its walk stands on one.
LEMMA MoveType ==
  ASSUME TypeOK, NEW p \in Conn, NEW n \in 0..End, NEW w \in PcState, MoveTo(p, n, w),
         msg' \in [Conn -> Message], off' \subseteq Conn,
         w \in {"send", "remove", "delete", "join"} => n \in Conn
  PROVE  ProcType'
<1>1. it' \in [Conn -> 0..End] /\ pc' \in [Conn -> PcState]
    BY DEF TypeOK, ProcType, MoveTo
<1>2. ASSUME NEW q \in Conn, pc'[q] \in {"send", "remove", "delete", "join"}
      PROVE  it'[q] \in Conn
    BY <1>2 DEF TypeOK, ProcType, MoveTo
<1>. QED
    BY <1>1, <1>2 DEF ProcType

LEMMA NoteType ==
  ASSUME TypeOK, NEW p \in Conn, NoteStep(p)
  PROVE  /\ off' \subseteq Conn /\ wild' \subseteq Conn /\ clash' \subseteq Conn
         /\ strayed' \subseteq Conn \X Nat
<1>1. <<p, msg[p].seq>> \in Conn \X Nat
    BY DEF TypeOK, ProcType, Message
<1>2. strayed' \subseteq Conn \X Nat
    BY <1>1 DEF TypeOK, HistType, NoteStep
<1>3. off' \subseteq Conn /\ wild' \subseteq Conn /\ clash' \subseteq Conn
    BY DEF TypeOK, ProcType, HistType, NoteStep
<1>. QED
    BY <1>2, <1>3

\* Sending keeps the streams sequences of messages.
LEMMA SendType ==
  ASSUME TypeOK, NEW n \in Conn, NEW m \in Message, SendTo(n, m)
  PROVE  out' \in [Conn -> Seq(Message)]
BY DEF TypeOK, NetType, SendTo

\* Where a handler can be after it came to n to send to it.
LEMMA SendMoves ==
  ASSUME NEW p \in Conn, NEW n, Send(p, n)
  PROVE  \E w \in {"idle", "relay", "send", "remove"} :
           MoveTo(p, n, w) /\ (UNCHANGED out \/ SendTo(n, msg[p]))
BY DEF Send, AfterSend

\* One turn of a loop that sends.
LEMMA TurnMoves ==
  ASSUME TypeOK, NEW p \in Conn, AliveSend(p) \/ Relay(p)
  PROVE  \E n \in NextNodes(p), w \in {"idle", "aliveSend", "relay", "send", "remove"} :
           /\ MoveTo(p, n, w) /\ (w \in {"send", "remove"} => n \in Conn)
           /\ UNCHANGED out \/ (n \in Conn /\ SendTo(n, msg[p]))
<1>1. CASE AliveSend(p)
  <2>1. PICK n \in NextNodes(p) :
          \/ n \in Conn /\ Send(p, n)
          \/ MoveTo(p, n, IF n = End THEN "idle" ELSE "aliveSend") /\ UNCHANGED out
      BY <1>1 DEF AliveSend
  <2>. QED
      BY <2>1, SendMoves
<1>2. CASE Relay(p)
  <2>1. PICK n \in NextNodes(p) :
          \/ n = End /\ MoveTo(p, End, "idle") /\ UNCHANGED out
          \/ n # End /\ MoveTo(p, n, "relay") /\ UNCHANGED out
          \/ n # End /\ Send(p, n)
      BY <1>2 DEF Relay, RelayTarget
  <2>2. n # End => n \in Conn
      BY StepForward
  <2>. QED
      BY <2>1, <2>2, SendMoves
<1>. QED
    BY <1>1, <1>2

LEMMA ReceiveType ==
  ASSUME TypeOK, NEW c \in Conn, NEW r, Sendable(r), Receive(c, r)
  PROVE  TypeOK'
<1>1. sent' \in [Conn -> Nat] /\ sent'[c] \in Nat
    BY DEF Receive, TypeOK, NetType
<1>2. NetType'
    BY <1>1 DEF Receive, TypeOK, NetType
<1>3. que' \in [Conn -> Seq(Message)]
    BY <1>1, ReceivedType DEF Receive, TypeOK, ObjType
<1>4. ObjType'
    BY <1>3 DEF Receive, AfterRecv, TypeOK, ObjType, RxState
<1>. QED
    BY <1>2, <1>4, TypeFrame DEF Receive, TypeOK

LEMMA TypeNext == TypeOK /\ [Next]_vars => TypeOK'
<1> SUFFICES ASSUME TypeOK, [Next]_vars PROVE TypeOK'
    OBVIOUS
<1>1. CASE StartListenClient
  <2>1. ListType'
      BY <1>1, BoundsAssumption DEF StartListenClient, TypeOK, ListType
  <2>2. NetType'
      BY <1>1 DEF StartListenClient, TypeOK, NetType
  <2>. QED
      BY <1>1, <2>1, <2>2, TypeFrame DEF StartListenClient, TypeOK
<1>2. CASE Fault
    BY <1>2, TypeFrame DEF Fault, TypeOK
<1>3. ASSUME NEW c \in Conn, Close(c) \/ Reset(c) \/ StopReading(c) \/ ReadAgain(c)
      PROVE  TypeOK'
  <2>1. NetType'
      BY <1>3 DEF Close, Reset, StopReading, ReadAgain, TypeOK, NetType
  <2>. QED
      BY <1>3, <2>1, TypeFrame DEF Close, Reset, StopReading, ReadAgain, TypeOK
<1>4. ASSUME NEW c \in Conn, StartRecv(c)
      PROVE  TypeOK'
  <2>1. ObjType'
      BY <1>4 DEF StartRecv, TypeOK, ObjType, RxState
  <2>2. ProcType'
      BY <1>4 DEF StartRecv, TypeOK, ProcType, PcState
  <2>. QED
      BY <1>4, <2>1, <2>2, TypeFrame DEF StartRecv, TypeOK
<1>5. ASSUME NEW c \in Conn, NEW r \in Requests[c], Receive(c, r)
      PROVE  TypeOK'
    BY <1>5, RequestSendable, ReceiveType
<1>6. ASSUME NEW c \in Conn, RxStep(c)
      PROVE  TypeOK'
  <2>1. ObjType'
      BY <1>6 DEF RxStep, RecvClosed, RecvError, RecvDelete, RecvEnd, AfterRecv,
                  TypeOK, ObjType, RxState
  <2>2. ListType'
      BY <1>6, TypeFrame DEF RxStep, RecvClosed, RecvError, RecvDelete, RecvEnd,
                             TypeOK, ListType
  <2>. QED
      BY <1>6, <2>1, <2>2, TypeFrame
      DEF RxStep, RecvClosed, RecvError, RecvDelete, RecvEnd, TypeOK
<1>7. ASSUME NEW p \in Conn, Dispatch(p)
      PROVE  TypeOK'
  <2>1. Head(que[p]) \in Message /\ Tail(que[p]) \in Seq(Message)
      BY <1>7, HeadTailProperties DEF Dispatch, TypeOK, ObjType
  <2>2. HandlerOf(Head(que[p])) \in PcState
      BY DEF HandlerOf, PcState, WalkState, RegState
  <2>3. ObjType'
      BY <1>7, <2>1 DEF Dispatch, TypeOK, ObjType
  <2>4. msg' \in [Conn -> Message]
      BY <1>7, <2>1 DEF Dispatch, TypeOK, ProcType
  <2>5. ProcType'
    <3>1. off' \subseteq Conn
        BY <1>7 DEF Dispatch, TypeOK, ProcType
    <3>. QED
        BY <1>7, <2>2, <2>4, <3>1, ConnFacts, MoveType DEF Dispatch, HandlerOf
  <2>6. HistType'
    <3>1. listed \subseteq Conn
        BY ListedConn
    <3>. QED
        BY <1>7, <3>1 DEF Dispatch, TypeOK, HistType
  <2>. QED
      BY <1>7, <2>3, <2>5, <2>6, TypeFrame DEF Dispatch, TypeOK
<1>8. ASSUME NEW p \in Conn, ProcEnd(p)
      PROVE  TypeOK'
  <2>1. ProcType'
      BY <1>8 DEF ProcEnd, TypeOK, ProcType, PcState
  <2>. QED
      BY <1>8, <2>1, TypeFrame DEF ProcEnd, TypeOK
<1>9. ASSUME NEW p \in Conn, RegScan(p)
      PROVE  TypeOK'
  <2>1. \E n \in 0..End, w \in {"idle", "regScan", "regSet"} : MoveTo(p, n, w)
    <3>1. \E n \in NextNodes(p) : \/ MoveTo(p, 0, "regSet")
                                  \/ MoveTo(p, n, "idle") \/ MoveTo(p, n, "regScan")
        BY <1>9 DEF RegScan
    <3>. QED
        BY <3>1, StepForward, ConnFacts
  <2>2. ProcType'
      BY <1>9, <2>1, MoveType, NoteType DEF RegScan, TypeOK, ProcType, PcState, WalkState, RegState
  <2>3. HistType'
      BY <1>9, NoteType DEF RegScan, TypeOK, HistType
  <2>. QED
      BY <1>9, <2>2, <2>3, TypeFrame DEF RegScan, TypeOK
<1>10. ASSUME NEW p \in Conn, RegSet(p)
       PROVE  TypeOK'
  <2>1. PICK n \in NextNodes(p) :
          /\ MoveTo(p, n, IF n \in {p, End} THEN "idle" ELSE "regSet")
          /\ task' = IF n = p THEN [task EXCEPT ![p] = msg[p].src] ELSE task
          /\ steady' = [q \in Conn |->
                IF n = p /\ msg[q].type \in {"TARGET", "TASKALIVE"}
                  THEN steady[q] \ {p} ELSE steady[q]]
      BY <1>10 DEF RegSet
  <2>2. n \in 0..End
      BY StepForward
  <2>3. ProcType'
      BY <1>10, <2>1, <2>2, MoveType, NoteType
      DEF RegSet, TypeOK, ProcType, PcState, WalkState, RegState
  <2>4. msg[p].src \in Tasks
      BY DEF TypeOK, ProcType, Message
  <2>5. ListType'
      BY <1>10, <2>1, <2>4 DEF RegSet, TypeOK, ListType
  <2>6. HistType'
    <3>1. steady' \in [Conn -> SUBSET Conn]
        BY <2>1 DEF TypeOK, HistType
    <3>. QED
        BY <1>10, <3>1, NoteType DEF RegSet, HistType
  <2>. QED
      BY <1>10, <2>3, <2>5, <2>6, TypeFrame DEF RegSet, TypeOK
<1>11. ASSUME NEW p \in Conn, AliveFill(p)
       PROVE  TypeOK'
  <2>1. PICK n \in NextNodes(p) :
          IF n = End
            THEN MoveTo(p, 0, "aliveSend") /\ UNCHANGED msg
            ELSE /\ MoveTo(p, n, "aliveFill")
                 /\ msg' = IF task[n] > -1 /\ task[n] < MAXINDEX
                             THEN [msg EXCEPT ![p].alive = @ \union {task[n]}]
                             ELSE msg
      BY <1>11 DEF AliveFill
  <2>2. n \in 0..End /\ (n # End => n \in Conn)
      BY StepForward
  <2>3. CASE n # End /\ task[n] > -1 /\ task[n] < MAXINDEX
    <3>1. task[n] \in Tasks
      <4>1. task[n] \in Tasks \union {-1}
          BY <2>2, <2>3 DEF TypeOK, ListType
      <4>2. task[n] # -1
          BY <2>3
      <4>. QED
          BY <4>1, <4>2
    <3>2. [msg[p] EXCEPT !.alive = @ \union {task[n]}] \in Message
        BY <3>1 DEF TypeOK, ProcType, Message
    <3>3. msg' \in [Conn -> Message]
        BY <2>1, <2>3, <3>2 DEF TypeOK, ProcType
    <3>4. ProcType'
        BY <1>11, <2>1, <2>2, <2>3, <3>3, MoveType, NoteType DEF AliveFill, PcState, WalkState
    <3>5. HistType'
        BY <1>11, NoteType DEF AliveFill, TypeOK, HistType
    <3>. QED
        BY <1>11, <3>4, <3>5, TypeFrame DEF AliveFill, TypeOK
  <2>4. CASE ~(n # End /\ task[n] > -1 /\ task[n] < MAXINDEX)
    <3>1. msg' = msg
        BY <2>1, <2>4
    <3>2. MoveTo(p, n, "aliveFill") \/ MoveTo(p, 0, "aliveSend")
        BY <2>1
    <3>3. ProcType'
        BY <1>11, <2>2, <3>1, <3>2, ConnFacts, MoveType, NoteType
        DEF AliveFill, TypeOK, ProcType, PcState, WalkState
    <3>4. HistType'
        BY <1>11, NoteType DEF AliveFill, TypeOK, HistType
    <3>. QED
        BY <1>11, <3>3, <3>4, TypeFrame DEF AliveFill, TypeOK
  <2>. QED
      BY <2>3, <2>4
<1>12. ASSUME NEW p \in Conn, AliveSend(p) \/ Relay(p)
       PROVE  TypeOK'
  <2>1. PICK n \in NextNodes(p), w \in {"idle", "aliveSend", "relay", "send", "remove"} :
          /\ MoveTo(p, n, w) /\ (w \in {"send", "remove"} => n \in Conn)
          /\ UNCHANGED out \/ (n \in Conn /\ SendTo(n, msg[p]))
      BY <1>12, TurnMoves
  <2>2. n \in 0..End
      BY StepForward
  <2>3. /\ UNCHANGED <<msg, steady, sock, full, sent, listVars, objVars, crashed>>
        /\ NoteStep(p)
      BY <1>12 DEF AliveSend, Relay
  <2>4. out' \in [Conn -> Seq(Message)]
      BY <2>1, SendType DEF TypeOK, NetType, ProcType
  <2>5. NetType'
      BY <2>3, <2>4 DEF TypeOK, NetType
  <2>6. ProcType'
      BY <2>1, <2>2, <2>3, MoveType, NoteType DEF TypeOK, ProcType, PcState, WalkState
  <2>7. HistType'
      BY <2>3, NoteType DEF TypeOK, HistType
  <2>. QED
      BY <2>3, <2>5, <2>6, <2>7, TypeFrame DEF TypeOK
<1>13. ASSUME NEW p \in Conn, Remove(p) \/ Delete(p) \/ Join(p)
       PROVE  TypeOK'
  <2>1. ProcType'
      BY <1>13 DEF Remove, Delete, Join, TypeOK, ProcType, PcState, WalkState
  <2>2. CASE Remove(p)
    <3>1. ListType'
        BY <2>2 DEF Remove, TypeOK, ListType
    <3>. QED
        BY <2>1, <2>2, <3>1, TypeFrame DEF Remove, TypeOK
  <2>3. CASE Delete(p) \/ Join(p)
    <3>1. it[p] \in Conn
        BY <2>3 DEF Delete, Join, TypeOK, ProcType
    <3>2. ObjType'
        BY <2>3, <3>1 DEF Delete, Join, TypeOK, ObjType
    <3>. QED
        BY <2>1, <2>3, <3>2, TypeFrame DEF Delete, Join, TypeOK
  <2>. QED
      BY <1>13, <2>2, <2>3
<1>14. ASSUME NEW p \in Conn, SendReturns(p)
       PROVE  TypeOK'
  <2>1. it[p] \in Conn /\ msg[p] \in Message
      BY <1>14 DEF SendReturns, TypeOK, ProcType
  <2>2. out' \in [Conn -> Seq(Message)]
      BY <1>14, <2>1, SendType DEF SendReturns
  <2>3. NetType'
      BY <1>14, <2>2 DEF SendReturns, TypeOK, NetType
  <2>4. AfterSend(msg[p], it[p]) \in {"idle", "relay", "remove"}
      BY DEF AfterSend
  <2>5. ProcType'
      BY <1>14, <2>1, <2>4 DEF SendReturns, TypeOK, ProcType, PcState, WalkState
  <2>. QED
      BY <1>14, <2>3, <2>5, TypeFrame DEF SendReturns, TypeOK
<1>15. CASE UNCHANGED vars
    BY <1>15, TypeFrame DEF vars, TypeOK
<1>. QED
    BY <1>1, <1>2, <1>3, <1>4, <1>5, <1>6, <1>7, <1>8, <1>9, <1>10, <1>11, <1>12, <1>13, <1>14,
       <1>15
    DEF Next, ProcStep

\* Type correctness: every variable keeps its type in every behaviour.
THEOREM TypeCorrect == Spec => []TypeOK
BY TypeInit, TypeNext, PTL DEF Spec

-----------------------------------------------------------------------------
(* A processing thread is in the handler of the message it has taken. *)

Fits(type, where) ==
  /\ where \in RegState => type = "TASKREG"
  /\ where \in {"aliveFill", "aliveSend"} => type = "TASKALIVE"
  /\ where = "relay" => type \in {"BROADCAST", "TARGET", "SERVERDOWN"}
  /\ where = "send" => type \in {"TASKALIVE", "BROADCAST", "TARGET", "SERVERDOWN"}
  /\ where \in {"remove", "delete", "join"} => type \in {"BROADCAST", "SERVERDOWN"}

HandlerMatches == \A p \in Conn : Fits(msg[p].type, pc[p])

LEMMA HandlerInit == Init => HandlerMatches
BY DEF Init, HandlerMatches, Fits, RegState

\* One thread goes elsewhere, and no message changes its type.
LEMMA HandlerMove ==
  ASSUME TypeOK, HandlerMatches, NEW p \in Conn, NEW w, pc' = [pc EXCEPT ![p] = w],
         \A q \in Conn : msg'[q].type = msg[q].type, Fits(msg[p].type, w)
  PROVE  HandlerMatches'
<1>1. \A q \in Conn : pc'[q] = IF q = p THEN w ELSE pc[q]
    BY DEF TypeOK, ProcType
<1>2. ASSUME NEW q \in Conn PROVE Fits(msg[q].type, pc'[q])
    BY <1>1 DEF HandlerMatches
<1>3. ASSUME NEW q \in Conn PROVE Fits(msg'[q].type, pc'[q])
    BY <1>2
<1>. QED
    BY <1>3 DEF HandlerMatches, Fits

\* The table in the buffer is all of a message that its handler changes.
LEMMA FillKeeps ==
  ASSUME TypeOK, NEW p \in Conn, AliveFill(p), NEW q \in Conn
  PROVE  /\ msg'[q].type = msg[q].type /\ msg'[q].src = msg[q].src
         /\ msg'[q].dst = msg[q].dst
         /\ msg'[q].from = msg[q].from /\ msg'[q].seq = msg[q].seq
         /\ q # p => msg'[q] = msg[q]
<1>1. msg' = msg \/ \E t : msg' = [msg EXCEPT ![p].alive = @ \union {t}]
    BY DEF AliveFill
<1>. QED
    BY <1>1 DEF TypeOK, ProcType, Message

LEMMA HandlerNext == TypeOK /\ HandlerMatches /\ [Next]_vars => HandlerMatches'
<1> SUFFICES ASSUME TypeOK, HandlerMatches, [Next]_vars PROVE HandlerMatches'
    OBVIOUS
<1>1. CASE UNCHANGED <<pc, msg>>
    BY <1>1 DEF HandlerMatches, Fits
<1>2. ASSUME NEW p \in Conn, Dispatch(p)
      PROVE  HandlerMatches'
  <2> DEFINE m == Head(que[p])
  <2>1. m \in Message
      BY <1>2, HeadTailProperties DEF Dispatch, TypeOK, ObjType
  <2>2. m.type \in MsgType
      BY <2>1 DEF Message
  <2>3. Fits(m.type, HandlerOf(m))
      BY <2>2 DEF Fits, HandlerOf, RegState, MsgType
  <2>4. \A q \in Conn : /\ msg'[q] = (IF q = p THEN m ELSE msg[q])
                        /\ pc'[q] = (IF q = p THEN HandlerOf(m) ELSE pc[q])
      BY <1>2 DEF Dispatch, MoveTo, TypeOK, ProcType
  <2>5. ASSUME NEW q \in Conn PROVE Fits(msg'[q].type, pc'[q])
      BY <2>3, <2>4 DEF HandlerMatches
  <2>. QED
      BY <2>5 DEF HandlerMatches, Fits
<1>3. ASSUME NEW p \in Conn, StartRecv(p) \/ ProcEnd(p) \/ Remove(p) \/ Delete(p) \/ Join(p)
      PROVE  HandlerMatches'
  <2>1. UNCHANGED msg
      BY <1>3 DEF StartRecv, ProcEnd, Remove, Delete, Join
  <2>2. \E w \in {"idle", "ended", "relay", "delete", "join"} :
          /\ pc' = [pc EXCEPT ![p] = w]
          /\ w \notin {"idle", "ended"} => pc[p] \in {"remove", "delete", "join"}
      BY <1>3 DEF StartRecv, ProcEnd, Remove, Delete, Join
  <2>3. PICK w \in {"idle", "ended", "relay", "delete", "join"} :
          /\ pc' = [pc EXCEPT ![p] = w]
          /\ w \notin {"idle", "ended"} => pc[p] \in {"remove", "delete", "join"}
      BY <2>2
  <2>4. Fits(msg[p].type, pc[p])
      BY DEF HandlerMatches
  <2>5. Fits(msg[p].type, w)
      BY <2>3, <2>4 DEF Fits, RegState
  <2>. QED
      BY <2>1, <2>3, <2>5, HandlerMove
<1>4. ASSUME NEW p \in Conn, RegScan(p) \/ RegSet(p) \/ AliveFill(p) \/ AliveSend(p)
      PROVE  HandlerMatches'
  <2>1. Fits(msg[p].type, pc[p])
      BY DEF HandlerMatches
  <2>2. CASE RegScan(p) \/ RegSet(p)
    <3>1. \E w \in {"idle", "regScan", "regSet"} : pc' = [pc EXCEPT ![p] = w]
        BY <2>2 DEF RegScan, RegSet, MoveTo
    <3>2. UNCHANGED msg /\ pc[p] \in RegState
        BY <2>2 DEF RegScan, RegSet, RegState
    <3>3. \A w \in {"idle", "regScan", "regSet"} : Fits(msg[p].type, w)
        BY <2>1, <3>2 DEF Fits
    <3>. QED
        BY <3>1, <3>2, <3>3, HandlerMove
  <2>3. CASE AliveFill(p) \/ AliveSend(p)
    <3>1. msg[p].type = "TASKALIVE"
        BY <2>1, <2>3 DEF Fits, AliveFill, AliveSend
    <3>2. \E w \in {"idle", "aliveFill", "aliveSend", "send"} : pc' = [pc EXCEPT ![p] = w]
        BY <2>3, <3>1 DEF AliveFill, AliveSend, Send, AfterSend, MoveTo
    <3>3. \A q \in Conn : msg'[q].type = msg[q].type
        BY <2>3, FillKeeps DEF AliveSend
    <3>4. \A w \in {"idle", "aliveFill", "aliveSend", "send"} : Fits(msg[p].type, w)
        BY <3>1 DEF Fits, RegState
    <3>. QED
        BY <3>2, <3>3, <3>4, HandlerMove
  <2>. QED
      BY <1>4, <2>2, <2>3
<1>5. ASSUME NEW p \in Conn, Relay(p)
      PROVE  HandlerMatches'
  <2>1. Fits(msg[p].type, "relay") /\ UNCHANGED msg
      BY <1>5 DEF HandlerMatches, Relay
  <2>2. \E w \in {"idle", "relay", "send", "remove"} :
          pc' = [pc EXCEPT ![p] = w] /\ (w = "remove" => msg[p].type # "TARGET")
      BY <1>5 DEF Relay, RelayTarget, Send, AfterSend, MoveTo
  <2>3. \A w \in {"idle", "relay", "send", "remove"} :
          (w = "remove" => msg[p].type # "TARGET") => Fits(msg[p].type, w)
      BY <2>1 DEF Fits, RegState
  <2>. QED
      BY <2>1, <2>2, <2>3, HandlerMove
<1>8. ASSUME NEW p \in Conn, SendReturns(p)
      PROVE  HandlerMatches'
  <2>1. Fits(msg[p].type, "send") /\ UNCHANGED msg
      BY <1>8 DEF HandlerMatches, SendReturns
  <2>2. pc' = [pc EXCEPT ![p] = AfterSend(msg[p], it[p])]
      BY <1>8 DEF SendReturns
  <2>3. Fits(msg[p].type, AfterSend(msg[p], it[p]))
      BY <2>1 DEF Fits, AfterSend, RegState
  <2>. QED
      BY <2>1, <2>2, <2>3, HandlerMove
<1>6. ASSUME NEW c \in Conn, \/ Close(c) \/ Reset(c) \/ StopReading(c) \/ ReadAgain(c)
                             \/ RxStep(c) \/ \E r \in Requests[c] : Receive(c, r)
      PROVE  UNCHANGED <<pc, msg>>
    BY <1>6 DEF Close, Reset, StopReading, ReadAgain, Receive, RxStep, RecvClosed, RecvError,
                RecvDelete, RecvEnd,
                procVars
<1>7. StartListenClient \/ Fault \/ UNCHANGED vars => UNCHANGED <<pc, msg>>
    BY DEF StartListenClient, Fault, vars, procVars
<1>. QED
    BY <1>1, <1>2, <1>3, <1>4, <1>5, <1>6, <1>7, <1>8 DEF Next, ProcStep


-----------------------------------------------------------------------------
(* What has been sent. *)

\* Reached, for any streams.
Got(o, m, c) == \E i \in 1..Len(o[c]) : o[c][i].from = m.from /\ o[c][i].seq = m.seq

\* What is sent to an open connection is there afterwards, and nothing else is new.
LEMMA SendGot ==
  ASSUME TypeOK, NEW n \in Conn, NEW m \in Message, SendTo(n, m), NEW k, NEW c \in Conn
  PROVE  Got(out', k, c) <=>
           \/ Got(out, k, c)
           \/ c = n /\ sock[n] = "open" /\ k.from = m.from /\ k.seq = m.seq
<1>1. CASE sock[n] # "open" \/ c # n
    BY <1>1 DEF SendTo, Got, TypeOK, NetType
<1>2. CASE sock[n] = "open" /\ c = n
  <2>1. out[n] \in Seq(Message) /\ out'[n] = Append(out[n], m)
      BY <1>2 DEF SendTo, TypeOK, NetType
  <2>2. /\ Len(out[n]) \in Nat /\ Len(out'[n]) = Len(out[n]) + 1
        /\ \A i \in 1..Len(out[n]) : out'[n][i] = out[n][i]
        /\ out'[n][Len(out[n]) + 1] = m
      BY <2>1, AppendProperties
  <2>3. Got(out', k, n) <=> Got(out, k, n) \/ (m.from = k.from /\ m.seq = k.seq)
    <3>1. 1..Len(out'[n]) = 1..Len(out[n]) \union {Len(out[n]) + 1}
        BY <2>2
    <3>. QED
        BY <2>2, <3>1 DEF Got
  <2>. QED
      BY <1>2, <2>3
<1>. QED
    BY <1>1, <1>2

-----------------------------------------------------------------------------
(* Registration: the inductive invariant, as long as none has clashed. *)

\* One registration at a time.
Alone ==
  \A p, q \in Conn : pc[p] \in RegState /\ pc[q] \in RegState => p = q

\* No listed client up to the iterator of the first loop has the number, and
\* no listed client at all has it once the second loop has been entered.
Scanned ==
  \A p \in Conn : \A c \in listed :
    pc[p] = "regSet" \/ (pc[p] = "regScan" /\ c <= it[p]) => task[c] # msg[p].src

FutureUnregistered == \A c \in Conn : c > accepted => task[c] = -1

Unique == \A c, d \in listed : c # d /\ task[c] # -1 => task[c] # task[d]

Registered == Alone /\ Scanned /\ FutureUnregistered /\ Unique

RegInv == TypeOK /\ (clash = {} => Registered)

-----------------------------------------------------------------------------

LEMMA NoSuchTask == -1 \notin Tasks
<1>1. Tasks \subseteq UnsignedShort
    BY TasksAssumption
<1>2. -1 \notin UnsignedShort
    BY DEF UnsignedShort
<1>. QED
    BY <1>1, <1>2

LEMMA RegInit == Init => Registered
BY DEF Init, Registered, Alone, Scanned, FutureUnregistered, Unique, RegState

\* A step that registers nobody and starts or advances no registration.
LEMMA Calm ==
  ASSUME RegInv, clash = {}, listed' \subseteq listed, UNCHANGED <<accepted, task>>,
         \A q \in Conn : pc'[q] \in RegState =>
           pc'[q] = pc[q] /\ it'[q] = it[q] /\ msg'[q].src = msg[q].src
  PROVE  Registered'
<1>1. Registered
    BY DEF RegInv
<1>2. Alone'
    BY <1>1 DEF Registered, Alone
<1>3. Scanned'
    BY <1>1 DEF Registered, Scanned, RegState
<1>4. FutureUnregistered' /\ Unique'
    BY <1>1 DEF Registered, FutureUnregistered, Unique
<1>. QED
    BY <1>2, <1>3, <1>4 DEF Registered

\* A registration that advances without a clash does so from a listed client,
\* or from the beginning, to the next listed client.
LEMMA RegAdvance ==
  ASSUME RegInv, NEW p \in Conn, NEW n \in NextNodes(p), pc[p] \in RegState,
         NoteStep(p), clash' = {}
  PROVE  /\ clash = {}
         /\ n # End => n \in listed
         /\ \A c \in listed : c <= it[p] \/ n <= c
<1>1. ~Astray(p) /\ clash = {}
    BY DEF NoteStep
<1>2. /\ n # End => n \in listed
      /\ \A c \in listed : c <= it[p] \/ (n # End /\ n <= c)
    BY <1>1, NextListed DEF RegInv
<1>. QED
    BY <1>1, <1>2

-----------------------------------------------------------------------------
(* What the steps of a registration do. *)

LEMMA BeginRegistration ==
  ASSUME RegInv, NEW p \in Conn, Dispatch(p), clash' = {}
  PROVE  Registered'
<1>1. /\ it' = [it EXCEPT ![p] = 0] /\ pc' = [pc EXCEPT ![p] = HandlerOf(Head(que[p]))]
      /\ msg' = [msg EXCEPT ![p] = Head(que[p])]
      /\ UNCHANGED <<accepted, listed, task>>
      /\ clash = {}
    BY DEF Dispatch, MoveTo, listVars
<1>2. CASE Head(que[p]).type = "TASKREG"
  <2>1. Registered /\ \A q \in Conn : pc[q] \notin RegState
      BY <1>2 DEF Dispatch, RegInv
  <2>2. \A q \in Conn : pc'[q] \in RegState => q = p
      BY <1>1, <2>1 DEF RegInv, TypeOK, ProcType
  <2>3. pc'[p] = "regScan" /\ it'[p] = 0
      BY <1>1, <1>2 DEF HandlerOf, RegInv, TypeOK, ProcType
  <2>4. \A c \in listed : ~(c <= 0)
      BY ConnFacts DEF RegInv, TypeOK, ListType, Conn
  <2>5. Scanned'
      BY <1>1, <2>2, <2>3, <2>4 DEF Scanned, RegState
  <2>6. Alone'
      BY <2>2 DEF Alone
  <2>. QED
      BY <1>1, <2>1, <2>5, <2>6 DEF Registered, FutureUnregistered, Unique
<1>3. CASE Head(que[p]).type # "TASKREG"
  <2>1. HandlerOf(Head(que[p])) \notin RegState
      BY <1>3 DEF HandlerOf, RegState
  <2>2. \A q \in Conn : pc'[q] \in RegState =>
          pc'[q] = pc[q] /\ it'[q] = it[q] /\ msg'[q].src = msg[q].src
      BY <1>1, <2>1 DEF RegInv, TypeOK, ProcType
  <2>. QED
      BY <1>1, <2>2, Calm
<1>. QED
    BY <1>2, <1>3

LEMMA ScanRegistration ==
  ASSUME RegInv, NEW p \in Conn, RegScan(p), clash' = {}
  PROVE  Registered'
<1>1. pc[p] = "regScan" /\ pc[p] \in RegState /\ NoteStep(p)
      /\ UNCHANGED <<msg, accepted, listed, task>>
    BY DEF RegScan, RegState, listVars
<1>2. PICK n \in NextNodes(p) :
        IF n = End
          THEN MoveTo(p, 0, "regSet")
          ELSE MoveTo(p, n, IF task[n] = msg[p].src THEN "idle" ELSE "regScan")
    BY DEF RegScan
<1>3. /\ clash = {}
      /\ n # End => n \in listed
      /\ \A c \in listed : c <= it[p] \/ n <= c
    BY <1>1, RegAdvance
<1>4. Registered
    BY <1>3 DEF RegInv
<1>5. \A q \in Conn : q # p => pc'[q] \notin RegState
    BY <1>1, <1>2, <1>4 DEF MoveTo, RegInv, TypeOK, ProcType, Registered, Alone
<1>6. \A c \in listed : c \in Nat /\ c < End /\ End \in Nat /\ n \in Nat
    BY StepForward, ConnFacts DEF RegInv, TypeOK, ListType, Conn
<1>7. \A c \in listed : c <= it[p] => task[c] # msg[p].src
    BY <1>1, <1>4, ConnFacts DEF Registered, Scanned
<1>8. ASSUME NEW c \in listed, pc'[p] = "regSet" \/ (pc'[p] = "regScan" /\ c <= it'[p])
      PROVE  task[c] # msg[p].src
  <2>1. CASE n = End
      BY <1>3, <1>6, <1>7, <2>1
  <2>2. CASE n # End
    <3>1. task[n] # msg[p].src /\ it'[p] = n
        BY <1>2, <1>8, <2>2 DEF MoveTo, RegInv, TypeOK, ProcType
    <3>2. c <= n
        BY <1>2, <1>8, <2>2, <3>1 DEF MoveTo, RegInv, TypeOK, ProcType
    <3>3. c <= it[p] \/ c = n
        BY <1>3, <1>6, <3>2
    <3>. QED
        BY <1>7, <3>1, <3>3
  <2>. QED
      BY <2>1, <2>2
<1>9. Scanned'
    BY <1>1, <1>5, <1>8 DEF Scanned, RegState
<1>10. Alone'
    BY <1>5 DEF Alone
<1>. QED
    BY <1>1, <1>4, <1>9, <1>10 DEF Registered, FutureUnregistered, Unique

LEMMA SetRegistration ==
  ASSUME RegInv, NEW p \in Conn, RegSet(p), clash' = {}
  PROVE  Registered'
<1>1. pc[p] = "regSet" /\ pc[p] \in RegState /\ NoteStep(p)
      /\ UNCHANGED <<msg, accepted, listed>>
    BY DEF RegSet, RegState
<1>2. PICK n \in NextNodes(p) :
        /\ MoveTo(p, n, IF n \in {p, End} THEN "idle" ELSE "regSet")
        /\ task' = IF n = p THEN [task EXCEPT ![p] = msg[p].src] ELSE task
    BY DEF RegSet
<1>3. clash = {} /\ (n # End => n \in listed)
    BY <1>1, RegAdvance
<1>4. Registered
    BY <1>3 DEF RegInv
<1>5. \A q \in Conn : q # p => pc'[q] \notin RegState
    BY <1>1, <1>2, <1>4 DEF MoveTo, RegInv, TypeOK, ProcType, Registered, Alone
<1>6. \A c \in listed : task[c] # msg[p].src
    BY <1>1, <1>4 DEF Registered, Scanned
<1>7. p # End /\ listed \subseteq Conn
    BY ConnFacts, BoundsAssumption DEF RegInv, TypeOK, ListType, Conn
<1>8. CASE n = p
  <2>1. p \in listed /\ pc'[p] = "idle" /\ \A q \in Conn : pc'[q] \notin RegState
      BY <1>2, <1>3, <1>5, <1>7, <1>8 DEF MoveTo, RegInv, TypeOK, ProcType, RegState
  <2>2. \A c \in Conn : task'[c] = IF c = p THEN msg[p].src ELSE task[c]
      BY <1>2, <1>8 DEF RegInv, TypeOK, ListType
  <2>3. Alone' /\ Scanned'
      BY <2>1 DEF Alone, Scanned, RegState
  <2>4. Unique'
      BY <1>1, <1>4, <1>6, <1>7, <2>1, <2>2 DEF Registered, Unique
  <2>5. p <= accepted
      BY <2>1 DEF RegInv, TypeOK, ListType
  <2>6. ~(p > accepted)
      BY <2>5, ConnFacts, BoundsAssumption DEF RegInv, TypeOK, ListType, Conn
  <2>7. FutureUnregistered'
      BY <1>1, <1>4, <2>2, <2>6 DEF Registered, FutureUnregistered
  <2>. QED
      BY <2>3, <2>4, <2>7 DEF Registered
<1>9. CASE n # p
  <2>1. UNCHANGED task
      BY <1>2, <1>9
  <2>2. Alone'
      BY <1>5 DEF Alone
  <2>3. Scanned'
      BY <1>1, <1>5, <1>6, <2>1 DEF Scanned, RegState
  <2>. QED
      BY <1>1, <1>4, <2>1, <2>2, <2>3 DEF Registered, FutureUnregistered, Unique
<1>. QED
    BY <1>8, <1>9

-----------------------------------------------------------------------------
LEMMA RegNext == RegInv /\ [Next]_vars /\ clash' = {} => Registered'
<1> SUFFICES ASSUME RegInv, [Next]_vars, clash' = {} PROVE Registered'
    OBVIOUS
<1>1. CASE StartListenClient
  <2>1. /\ accepted' = accepted + 1 /\ listed' = listed \union {accepted + 1}
        /\ UNCHANGED <<task, pc, it, msg>> /\ clash = {}
      BY <1>1 DEF StartListenClient, procVars, histVars
  <2>2. Registered
      BY <2>1 DEF RegInv
  <2>3. accepted + 1 \in Conn /\ accepted \in Nat /\ accepted + 1 > accepted
      BY <1>1, BoundsAssumption DEF StartListenClient, RegInv, TypeOK, ListType, Conn
  <2>4. task[accepted + 1] = -1
      BY <2>2, <2>3 DEF Registered, FutureUnregistered
  <2>5. \A p \in Conn : msg[p].src # -1
      BY NoSuchTask DEF RegInv, TypeOK, ProcType, Message
  <2>6. Alone' /\ Scanned'
      BY <2>1, <2>2, <2>4, <2>5 DEF Registered, Alone, Scanned
  <2>7. FutureUnregistered'
    <3>1. \A c \in Conn : c > accepted + 1 => c > accepted
        BY <2>3, ConnFacts
    <3>. QED
        BY <2>1, <2>2, <3>1 DEF Registered, FutureUnregistered
  <2>8. Unique'
      BY <2>1, <2>2, <2>4 DEF Registered, Unique
  <2>. QED
      BY <2>6, <2>7, <2>8 DEF Registered
<1>2. CASE Fault \/ UNCHANGED vars
    BY <1>2, Calm DEF Fault, vars, listVars, procVars, histVars
<1>3. ASSUME NEW c \in Conn, Close(c) \/ Reset(c) \/ StopReading(c) \/ ReadAgain(c)
      PROVE  Registered'
    BY <1>3, Calm DEF Close, Reset, StopReading, ReadAgain, listVars, procVars, histVars
<1>4. ASSUME NEW c \in Conn, StartRecv(c)
      PROVE  Registered'
    BY <1>4, Calm DEF StartRecv, listVars, histVars, RegInv, TypeOK, ProcType, RegState
<1>5. ASSUME NEW c \in Conn, NEW r \in Requests[c], Receive(c, r)
      PROVE  Registered'
    BY <1>5, Calm DEF Receive, listVars, procVars, histVars
<1>6. ASSUME NEW c \in Conn, RecvClosed(c) \/ RecvDelete(c) \/ RecvEnd(c)
      PROVE  Registered'
    BY <1>6, Calm DEF RecvClosed, RecvDelete, RecvEnd, listVars, procVars, histVars
<1>7. ASSUME NEW c \in Conn, RecvError(c)
      PROVE  Registered'
    BY <1>7, Calm DEF RecvError, procVars, histVars
<1>8. ASSUME NEW p \in Conn, Dispatch(p)
      PROVE  Registered'
    BY <1>8, BeginRegistration
<1>9. ASSUME NEW p \in Conn, RegScan(p)
      PROVE  Registered'
    BY <1>9, ScanRegistration
<1>10. ASSUME NEW p \in Conn, RegSet(p)
       PROVE  Registered'
    BY <1>10, SetRegistration
<1>11. ASSUME NEW p \in Conn,
              \/ ProcEnd(p) \/ AliveFill(p) \/ AliveSend(p) \/ Relay(p) \/ SendReturns(p)
              \/ Remove(p) \/ Delete(p) \/ Join(p)
       PROVE  Registered'
  <2>1. listed' \subseteq listed /\ UNCHANGED <<accepted, task>>
      BY <1>11 DEF ProcEnd, AliveFill, AliveSend, Relay, SendReturns, Remove, Delete, Join, listVars
  <2>2. clash = {}
      BY <1>11 DEF ProcEnd, AliveFill, AliveSend, Relay, SendReturns, Remove, Delete, Join,
                   NoteStep, histVars
  <2>3. /\ \A q \in Conn : q # p => pc'[q] = pc[q] /\ it'[q] = it[q]
        /\ pc'[p] \notin RegState
      BY <1>11 DEF ProcEnd, AliveFill, AliveSend, Relay, RelayTarget, Send, AfterSend,
                   SendReturns, MoveTo, Remove,
                   Delete, Join, RegState, RegInv, TypeOK, ProcType
  <2>4. msg' = msg \/ \E t : msg' = [msg EXCEPT ![p].alive = @ \union {t}]
      BY <1>11 DEF ProcEnd, AliveFill, AliveSend, Relay, SendReturns, Remove, Delete, Join
  <2>5. \A q \in Conn : msg'[q].src = msg[q].src
      BY <2>4 DEF RegInv, TypeOK, ProcType, Message
  <2>. QED
      BY <2>1, <2>2, <2>3, <2>5, Calm
<1>. QED
    BY <1>1, <1>2, <1>3, <1>4, <1>5, <1>6, <1>7, <1>8, <1>9, <1>10, <1>11
    DEF Next, RxStep, ProcStep

\* As long as no two registrations overlap, and none walks over an erased node,
\* no two listed clients hold one task number: the first loop of RegTask has
\* seen every client before the second one sets the number.
THEOREM NumbersUnique == Spec => []UniqueUnlessClash
<1>1. Init => RegInv
    BY TypeInit, RegInit DEF RegInv
<1>2. RegInv /\ [Next]_vars => RegInv'
    BY TypeNext, RegNext DEF RegInv
<1>3. RegInv => UniqueUnlessClash
    BY DEF RegInv, Registered, Unique, UniqueUnlessClash
<1>. QED
    BY <1>1, <1>2, <1>3, PTL DEF Spec


-----------------------------------------------------------------------------
(* DestroyedOnlyUnlisted by itself is not inductive: the next client accepted
   must not be one that is under destruction already.  Hence nobody names a
   client that has not been accepted. *)
NamesAccepted ==
  /\ freed \subseteq 1..accepted
  /\ \A p \in Conn : it[p] \in Conn => it[p] <= accepted
  /\ \A c \in Conn : rx[c] # "none" => c <= accepted

TeardownInv == TypeOK /\ NamesAccepted /\ DestroyedOnlyUnlisted

LEMMA TeardownInit == Init => NamesAccepted /\ DestroyedOnlyUnlisted
BY DEF Init, NamesAccepted, DestroyedOnlyUnlisted, Conn, End

\* Where a walk goes has been accepted.
LEMMA StepAccepted ==
  ASSUME TypeOK, NEW p \in Conn, NEW n \in NextNodes(p), n \in Conn
  PROVE  n <= accepted
<1>1. n # End
    BY ConnFacts
<1>2. CASE Astray(p)
    BY <1>1, <1>2 DEF NextNodes
<1>3. CASE ~Astray(p)
  <2>1. n \in listed
      BY <1>1, <1>3 DEF NextNodes
  <2>2. accepted \in Nat
      BY BoundsAssumption DEF TypeOK, ListType
  <2>. QED
      BY <2>1, <2>2 DEF TypeOK, ListType
<1>. QED
    BY <1>2, <1>3

\* A step of a walk changes no object and no list, and destroys nobody.
LEMMA WalkTeardown ==
  ASSUME TeardownInv, NEW p \in Conn, NEW n \in NextNodes(p) \union {0},
         NEW w \in WalkState \union {"idle", "send", "remove"},
         MoveTo(p, n, w), UNCHANGED <<accepted, listed, rx, freed>>
  PROVE  NamesAccepted' /\ DestroyedOnlyUnlisted'
<1>1. ASSUME NEW q \in Conn, it'[q] \in Conn
      PROVE  it'[q] <= accepted
    BY <1>1, StepAccepted, ConnFacts DEF TeardownInv, TypeOK, ProcType, NamesAccepted, MoveTo
<1>2. NamesAccepted'
    BY <1>1 DEF TeardownInv, NamesAccepted
<1>3. ASSUME NEW q \in Conn, pc'[q] \in {"delete", "join"}
      PROVE  it'[q] \notin listed
    BY <1>3 DEF TeardownInv, TypeOK, ProcType, DestroyedOnlyUnlisted, MoveTo, WalkState, RegState
<1>4. DestroyedOnlyUnlisted'
    BY <1>3 DEF TeardownInv, DestroyedOnlyUnlisted
<1>. QED
    BY <1>2, <1>4

LEMMA TeardownNext == TeardownInv /\ [Next]_vars => NamesAccepted' /\ DestroyedOnlyUnlisted'
<1> SUFFICES ASSUME TeardownInv, [Next]_vars
             PROVE  NamesAccepted' /\ DestroyedOnlyUnlisted'
    OBVIOUS
<1> USE DEF TeardownInv
<1>1. CASE StartListenClient
  <2>1. accepted' = accepted + 1 /\ listed' = listed \union {accepted + 1}
        /\ accepted \in Nat /\ UNCHANGED <<rx, freed, pc, it>>
      BY <1>1 DEF StartListenClient, objVars, procVars, TypeOK, ListType
  <2>2. NamesAccepted'
    <3>1. freed' \subseteq 1..accepted'
        BY <2>1 DEF NamesAccepted
    <3>2. ASSUME NEW k \in Conn, k <= accepted PROVE k <= accepted'
        BY <2>1, <3>2, ConnFacts
    <3>. QED
        BY <2>1, <3>1, <3>2 DEF NamesAccepted
  <2>3. \A c \in Conn : c <= accepted => c # accepted + 1
      BY <2>1, ConnFacts
  <2>4. listed' \intersect freed' = {}
      BY <2>1 DEF NamesAccepted, DestroyedOnlyUnlisted
  <2>5. ASSUME NEW p \in Conn, pc[p] \in {"delete", "join"}
        PROVE  it[p] \notin listed'
    <3>1. it[p] \in Conn /\ it[p] \notin listed
        BY <2>5 DEF TypeOK, ProcType, DestroyedOnlyUnlisted
    <3>. QED
        BY <2>1, <2>3, <3>1 DEF NamesAccepted
  <2>6. \A c \in Conn : rx[c] \in {"delete", "join"} => c \notin listed'
      BY <2>1, <2>3 DEF NamesAccepted, DestroyedOnlyUnlisted
  <2>. QED
      BY <2>1, <2>2, <2>4, <2>5, <2>6 DEF DestroyedOnlyUnlisted
<1>2. CASE Fault \/ UNCHANGED vars
    BY <1>2 DEF Fault, vars, listVars, objVars, procVars, NamesAccepted, DestroyedOnlyUnlisted
<1>3. ASSUME NEW c \in Conn, Close(c) \/ Reset(c) \/ StopReading(c) \/ ReadAgain(c)
      PROVE  NamesAccepted' /\ DestroyedOnlyUnlisted'
    BY <1>3 DEF Close, Reset, StopReading, ReadAgain, listVars, objVars, procVars, NamesAccepted,
                DestroyedOnlyUnlisted
<1>4. ASSUME NEW c \in Conn, StartRecv(c)
      PROVE  NamesAccepted' /\ DestroyedOnlyUnlisted'
  <2>1. NamesAccepted'
      BY <1>4, ConnFacts DEF StartRecv, listVars, TypeOK, ObjType, NamesAccepted
  <2>2. DestroyedOnlyUnlisted'
      BY <1>4 DEF StartRecv, listVars, TypeOK, ObjType, ProcType, DestroyedOnlyUnlisted
  <2>. QED
      BY <2>1, <2>2
<1>5. ASSUME NEW c \in Conn, (\E r \in Requests[c] : Receive(c, r)) \/ RecvClosed(c)
                             \/ RecvEnd(c)
      PROVE  NamesAccepted' /\ DestroyedOnlyUnlisted'
  <2>1. /\ UNCHANGED <<accepted, listed, freed, pc, it>>
        /\ \E x \in {"run", "stopproc", "ended"} : rx' = [rx EXCEPT ![c] = x]
        /\ rx[c] # "none"
      BY <1>5 DEF Receive, RecvClosed, RecvEnd, AfterRecv, listVars, procVars
  <2>. QED
      BY <2>1 DEF TypeOK, ObjType, NamesAccepted, DestroyedOnlyUnlisted
<1>6. ASSUME NEW c \in Conn, RecvError(c)
      PROVE  NamesAccepted' /\ DestroyedOnlyUnlisted'
    BY <1>6 DEF RecvError, procVars, TypeOK, ObjType, NamesAccepted, DestroyedOnlyUnlisted
<1>7. ASSUME NEW c \in Conn, RecvDelete(c)
      PROVE  NamesAccepted' /\ DestroyedOnlyUnlisted'
  <2>1. c \in 1..accepted /\ c \notin listed
      BY <1>7, ConnFacts DEF RecvDelete, TypeOK, ListType, NamesAccepted, DestroyedOnlyUnlisted
  <2>. QED
      BY <1>7, <2>1 DEF RecvDelete, listVars, procVars, TypeOK, ObjType, NamesAccepted,
                        DestroyedOnlyUnlisted
<1>8. ASSUME NEW p \in Conn, Dispatch(p)
      PROVE  NamesAccepted' /\ DestroyedOnlyUnlisted'
    BY <1>8, WalkTeardown DEF Dispatch, HandlerOf, WalkState, RegState, listVars
<1>9. ASSUME NEW p \in Conn, ProcEnd(p)
      PROVE  NamesAccepted' /\ DestroyedOnlyUnlisted'
    BY <1>9 DEF ProcEnd, listVars, objVars, TypeOK, ProcType, NamesAccepted,
                DestroyedOnlyUnlisted
<1>10. ASSUME NEW p \in Conn, RegScan(p) \/ RegSet(p) \/ AliveFill(p)
       PROVE  NamesAccepted' /\ DestroyedOnlyUnlisted'
  <2>1. UNCHANGED <<accepted, listed, rx, freed>>
      BY <1>10 DEF RegScan, RegSet, AliveFill, listVars, objVars
  <2>2. \E n \in NextNodes(p) \union {0}, w \in {"idle", "regScan", "regSet", "aliveFill", "aliveSend"} :
          MoveTo(p, n, w)
      BY <1>10 DEF RegScan, RegSet, AliveFill
  <2>. QED
      BY <2>1, <2>2, WalkTeardown DEF WalkState, RegState
<1>11. ASSUME NEW p \in Conn, AliveSend(p) \/ Relay(p)
       PROVE  NamesAccepted' /\ DestroyedOnlyUnlisted'
  <2>1. UNCHANGED <<accepted, listed, rx, freed>>
      BY <1>11 DEF AliveSend, Relay, listVars, objVars
  <2>2. \E n \in NextNodes(p), w \in {"idle", "aliveSend", "relay", "send", "remove"} :
          MoveTo(p, n, w)
      BY <1>11, TurnMoves
  <2>. QED
      BY <2>1, <2>2, WalkTeardown DEF WalkState
<1>12. ASSUME NEW p \in Conn, Remove(p)
       PROVE  NamesAccepted' /\ DestroyedOnlyUnlisted'
    BY <1>12 DEF Remove, objVars, TypeOK, ProcType, NamesAccepted, DestroyedOnlyUnlisted
<1>13. ASSUME NEW p \in Conn, Delete(p) \/ Join(p)
       PROVE  NamesAccepted' /\ DestroyedOnlyUnlisted'
  <2>1. it[p] \in 1..accepted /\ it[p] \notin listed
      BY <1>13, ConnFacts DEF Delete, Join, TypeOK, ListType, ProcType, NamesAccepted,
                              DestroyedOnlyUnlisted
  <2>2. /\ UNCHANGED <<accepted, listed, rx, it>>
        /\ freed' \subseteq freed \union {it[p]}
        /\ \E w \in {"join", "relay"} : pc' = [pc EXCEPT ![p] = w]
      BY <1>13 DEF Delete, Join, listVars
  <2>3. NamesAccepted'
      BY <2>1, <2>2 DEF NamesAccepted
  <2>4. \A q \in Conn : pc'[q] \in {"delete", "join"} => q = p \/ pc[q] \in {"delete", "join"}
      BY <2>2 DEF TypeOK, ProcType
  <2>5. listed' \intersect freed' = {}
      BY <2>1, <2>2 DEF DestroyedOnlyUnlisted
  <2>. QED
      BY <2>1, <2>2, <2>3, <2>4, <2>5 DEF DestroyedOnlyUnlisted
<1>14. ASSUME NEW p \in Conn, SendReturns(p)
       PROVE  NamesAccepted' /\ DestroyedOnlyUnlisted'
  <2>1. /\ UNCHANGED <<accepted, listed, rx, freed, it>>
        /\ pc' = [pc EXCEPT ![p] = AfterSend(msg[p], it[p])]
      BY <1>14 DEF SendReturns, listVars, objVars
  <2>2. AfterSend(msg[p], it[p]) \notin {"delete", "join"}
      BY DEF AfterSend
  <2>. QED
      BY <2>1, <2>2 DEF TypeOK, ProcType, NamesAccepted, DestroyedOnlyUnlisted
<1>. QED
    BY <1>1, <1>2, <1>3, <1>4, <1>5, <1>6, <1>7, <1>8, <1>9, <1>10, <1>11, <1>12, <1>13, <1>14
    DEF Next, RxStep, ProcStep

\* A client that is being freed, or whose receiving thread is waited for, is no
\* longer in the list, however many threads remove clients at a time.
THEOREM DestroyedUnlisted == Spec => []DestroyedOnlyUnlisted
<1>1. Init => TeardownInv
    BY TypeInit, TeardownInit DEF TeardownInv
<1>2. TeardownInv /\ [Next]_vars => TeardownInv'
    BY TypeNext, TeardownNext DEF TeardownInv
<1>3. TeardownInv => DestroyedOnlyUnlisted
    BY DEF TeardownInv
<1>. QED
    BY <1>1, <1>2, <1>3, PTL DEF Spec

-----------------------------------------------------------------------------
(* QuietIsSafe: without a reset every thread is in its loop, no thread has
   reached RemoveClient and every walk stands on a listed client. *)
Undisturbed ==
  /\ ~crashed /\ freed = {} /\ listed = 1..accepted /\ wild = {}
  /\ \A c \in Conn : rx[c] \in {"none", "run"} /\ (rx[c] = "run" => c \in running)
  /\ \A p \in Conn : pc[p] \notin {"remove", "delete", "join"} /\ (pc[p] # "none" => p \in running)
  /\ \A p \in Conn : ~Astray(p)

\* A connection not accepted yet has no transport that could be reset.
FutureQuiet == \A c \in Conn : c > accepted => sock[c] = "none"

QuietInv == TypeOK /\ FutureQuiet /\ (Quiet => Undisturbed)

LEMMA QuietInit == Init => FutureQuiet /\ Undisturbed
BY ConnFacts DEF Init, FutureQuiet, Undisturbed, Astray

LEMMA FutureNext == TypeOK /\ FutureQuiet /\ [Next]_vars => FutureQuiet'
<1> SUFFICES ASSUME TypeOK, FutureQuiet, [Next]_vars PROVE FutureQuiet'
    OBVIOUS
<1>1. CASE StartListenClient
  <2>1. /\ accepted \in Nat /\ accepted' = accepted + 1
        /\ sock' = [sock EXCEPT ![accepted + 1] = "open"]
      BY <1>1, BoundsAssumption DEF StartListenClient, TypeOK, ListType
  <2>2. ASSUME NEW c \in Conn, c > accepted'
        PROVE  c > accepted /\ c # accepted + 1
      BY <2>1, <2>2, ConnFacts
  <2>. QED
      BY <2>1, <2>2 DEF FutureQuiet, TypeOK, NetType
<1>2. ASSUME NEW d \in Conn, Close(d) \/ Reset(d)
      PROVE  FutureQuiet'
  <2>1. accepted' = accepted /\ sock[d] # "none" /\ \E x : sock' = [sock EXCEPT ![d] = x]
      BY <1>2 DEF Close, Reset, StopReading, ReadAgain, listVars
  <2>. QED
      BY <2>1 DEF FutureQuiet, TypeOK, NetType
<1>3. CASE UNCHANGED <<accepted, sock>>
    BY <1>3 DEF FutureQuiet
<1>4. ASSUME NEW c \in Conn, \/ StopReading(c) \/ ReadAgain(c) \/ StartRecv(c) \/ RxStep(c)
                             \/ \E r \in Requests[c] : Receive(c, r)
      PROVE  UNCHANGED <<accepted, sock>>
    BY <1>4 DEF StopReading, ReadAgain, StartRecv, Receive, RxStep, RecvClosed, RecvError,
                RecvDelete, RecvEnd,
                netVars, listVars
<1>5. ASSUME NEW p \in Conn, ProcStep(p)
      PROVE  UNCHANGED <<accepted, sock>>
    BY <1>5 DEF ProcStep, Dispatch, ProcEnd, RegScan, RegSet, AliveFill, AliveSend, Relay,
                SendReturns,
                Remove, Delete, Join, netVars, listVars
<1>6. Fault \/ UNCHANGED vars => UNCHANGED <<accepted, sock>>
    BY DEF Fault, vars, netVars, listVars
<1>. QED
    BY <1>1, <1>2, <1>3, <1>4, <1>5, <1>6 DEF Next

\* In an undisturbed server a walk leads to a listed client or to the end.
LEMMA UndisturbedStep ==
  ASSUME Undisturbed, NEW p \in Conn, NEW n \in NextNodes(p)
  PROVE  n \in Conn => n \in listed
<1>1. ~Astray(p)
    BY DEF Undisturbed
<1>. QED
    BY <1>1, ConnFacts DEF NextNodes

LEMMA QuietWalk ==
  ASSUME TypeOK, Undisturbed, NEW p \in Conn, NEW n \in NextNodes(p) \union {0},
         NEW w \in WalkState \union {"idle", "send"},
         pc[p] # "none",
         MoveTo(p, n, w), UNCHANGED <<accepted, listed, rx, running, freed, crashed>>,
         wild' \subseteq wild, off' \subseteq off
  PROVE  Undisturbed'
<1>1. n \in Conn => n \in listed
    BY UndisturbedStep, ConnFacts
<1>2. \A q \in Conn : ~Astray(q)'
    BY <1>1 DEF TypeOK, ProcType, Undisturbed, Astray, MoveTo
<1>3. \A q \in Conn : pc'[q] \notin {"remove", "delete", "join"} /\ (pc'[q] # "none" => q \in running)
    BY DEF TypeOK, ProcType, Undisturbed, MoveTo, WalkState, RegState
<1>. QED
    BY <1>2, <1>3 DEF Undisturbed

LEMMA QuietNext == QuietInv /\ [Next]_vars => QuietInv'
<1> SUFFICES ASSUME QuietInv, [Next]_vars, Quiet' PROVE Undisturbed'
    BY TypeNext, FutureNext DEF QuietInv
<1>1. CASE StartListenClient
  <2>1. /\ accepted \in Nat /\ accepted' = accepted + 1 /\ listed' = listed \union {accepted + 1}
        /\ sock' = [sock EXCEPT ![accepted + 1] = "open"]
        /\ accepted + 1 \in Conn
        /\ UNCHANGED <<rx, running, freed, pc, it, off, wild, crashed>>
      BY <1>1, BoundsAssumption
      DEF StartListenClient, objVars, procVars, histVars, QuietInv, TypeOK, ListType, Conn
  <2>2. sock[accepted + 1] = "none"
      BY <2>1 DEF QuietInv, FutureQuiet
  <2>3. Quiet
      BY <2>1, <2>2 DEF Quiet, QuietInv, TypeOK, NetType
  <2>4. listed' = 1..accepted'
      BY <2>1, <2>3 DEF QuietInv, Undisturbed
  <2>5. \A p \in Conn : ~Astray(p)'
      BY <2>1, <2>3 DEF QuietInv, Undisturbed, Astray
  <2>. QED
      BY <2>1, <2>3, <2>4, <2>5 DEF QuietInv, Undisturbed
<1>2. ASSUME NEW d \in Conn, Close(d) \/ Reset(d) \/ StopReading(d) \/ ReadAgain(d)
      PROVE  Undisturbed'
  <2>1. Quiet
      BY <1>2 DEF Close, Reset, StopReading, ReadAgain, Quiet, QuietInv, TypeOK, NetType
  <2>2. UNCHANGED <<accepted, listed, rx, running, freed, pc, it, off, wild, crashed>>
      BY <1>2 DEF Close, Reset, StopReading, ReadAgain, listVars, objVars, procVars, histVars
  <2>3. Undisturbed
      BY <2>1 DEF QuietInv
  <2>. QED
      BY <2>2, <2>3 DEF Undisturbed, Astray
<1>3. UNCHANGED sock => Undisturbed
    BY DEF Quiet, QuietInv
<1>4. CASE Fault
  <2>1. Undisturbed
      BY <1>3, <1>4 DEF Fault, netVars
  <2>. QED
      BY <1>4, <2>1 DEF Fault, NodeFault, ObjFault, Undisturbed
<1>5. ASSUME NEW c \in Conn, StartRecv(c)
      PROVE  Undisturbed'
  <2>1. Undisturbed
      BY <1>3, <1>5 DEF StartRecv, netVars
  <2>2. \A p \in Conn : ~Astray(p)'
      BY <1>5, <2>1 DEF StartRecv, listVars, Undisturbed, Astray
  <2>. QED
      BY <1>5, <2>1, <2>2
      DEF StartRecv, listVars, histVars, QuietInv, TypeOK, ObjType, ProcType, Undisturbed
<1>6. ASSUME NEW c \in Conn, (\E r \in Requests[c] : Receive(c, r)) \/ RecvClosed(c)
      PROVE  Undisturbed'
  <2>1. /\ UNCHANGED <<accepted, listed, running, freed, pc, it, off, wild, crashed>>
        /\ rx[c] = "run"
        /\ rx' = [rx EXCEPT ![c] = AfterRecv(c)]
        /\ Undisturbed
    <3>1. UNCHANGED sock
        BY <1>6 DEF Receive, RecvClosed, netVars
    <3>. QED
        BY <1>3, <1>6, <3>1 DEF Receive, RecvClosed, listVars, procVars, histVars
  <2>2. rx' = rx
      BY <2>1 DEF AfterRecv, Undisturbed, QuietInv, TypeOK, ObjType
  <2>. QED
      BY <2>1, <2>2 DEF Undisturbed, Astray
<1>7. ASSUME NEW c \in Conn, RecvError(c) \/ RecvDelete(c) \/ RecvEnd(c)
      PROVE  FALSE
  <2>1. Undisturbed
      BY <1>3, <1>7 DEF RecvError, RecvDelete, RecvEnd, netVars
  <2>2. sock[c] # "reset"
      BY <1>7 DEF RecvError, RecvDelete, RecvEnd, netVars, Quiet
  <2>. QED
      BY <1>7, <2>1, <2>2 DEF RecvError, RecvDelete, RecvEnd, Undisturbed
<1>8. ASSUME NEW p \in Conn, ProcEnd(p) \/ Remove(p) \/ Delete(p) \/ Join(p)
      PROVE  FALSE
  <2>1. Undisturbed
      BY <1>3, <1>8 DEF ProcEnd, Remove, Delete, Join, netVars
  <2>. QED
      BY <1>8, <2>1 DEF ProcEnd, Remove, Delete, Join, Undisturbed
<1>9. ASSUME NEW p \in Conn, Dispatch(p)
      PROVE  Undisturbed'
  <2>1. Undisturbed
      BY <1>3, <1>9 DEF Dispatch, netVars
  <2>. QED
      BY <1>9, <2>1, QuietWalk DEF Dispatch, HandlerOf, WalkState, RegState, listVars, QuietInv
<1>10. ASSUME NEW p \in Conn, RegScan(p) \/ RegSet(p) \/ AliveFill(p) \/ AliveSend(p) \/ Relay(p)
       PROVE  Undisturbed'
  <2>1. /\ UNCHANGED <<accepted, listed, rx, running, freed, crashed, sock>>
        /\ pc[p] # "none" /\ NoteStep(p)
      BY <1>10 DEF RegScan, RegSet, AliveFill, AliveSend, Relay, netVars, listVars, objVars
  <2>2. Undisturbed
      BY <1>3, <2>1
  <2>3. wild' \subseteq wild /\ off' \subseteq off
      BY <2>1, <2>2 DEF NoteStep, Undisturbed
  <2>4. \E n \in NextNodes(p) \union {0}, w \in WalkState \union {"idle", "send"} : MoveTo(p, n, w)
    <3>1. CASE RegScan(p) \/ RegSet(p) \/ AliveFill(p)
        BY <3>1 DEF RegScan, RegSet, AliveFill, WalkState, RegState
    <3>2. CASE AliveSend(p) \/ Relay(p)
      <4>1. \A n \in Conn : sock[n] # "reset"
          BY <2>1 DEF Quiet
      <4>2. PICK n \in NextNodes(p) :
              \/ n = End /\ MoveTo(p, n, "idle")
              \/ n # End /\ MoveTo(p, n, "aliveSend")
              \/ n # End /\ MoveTo(p, n, "relay")
              \/ n \in Conn /\ Send(p, n)
        <5>1. \A n \in NextNodes(p) : n # End => n \in Conn
            BY StepForward DEF QuietInv
        <5>. QED
            BY <3>2, <5>1 DEF AliveSend, Relay, RelayTarget
      <4>. QED
          BY <4>1, <4>2 DEF Send, AfterSend, WalkState
    <3>. QED
        BY <1>10, <3>1, <3>2
  <2>. QED
      BY <2>1, <2>2, <2>3, <2>4, QuietWalk DEF QuietInv
<1>12. ASSUME NEW p \in Conn, SendReturns(p)
       PROVE  Undisturbed'
  <2>1. /\ UNCHANGED <<accepted, listed, rx, running, freed, crashed, sock, it, off, wild>>
        /\ pc[p] = "send" /\ pc' = [pc EXCEPT ![p] = AfterSend(msg[p], it[p])]
      BY <1>12 DEF SendReturns, listVars, objVars, histVars
  <2>2. Undisturbed
      BY <1>3, <2>1
  <2>3. sock[it[p]] # "reset"
      BY <2>1 DEF Quiet, QuietInv, TypeOK, ProcType
  <2>4. AfterSend(msg[p], it[p]) \in {"idle", "relay"}
      BY <2>3 DEF AfterSend
  <2>5. \A q \in Conn : ~Astray(q)'
      BY <2>1, <2>2 DEF Undisturbed, Astray
  <2>. QED
      BY <2>1, <2>2, <2>4, <2>5 DEF Undisturbed, QuietInv, TypeOK, ProcType
<1>11. CASE UNCHANGED vars
  <2>1. Undisturbed
      BY <1>3, <1>11 DEF vars, netVars
  <2>. QED
      BY <1>11, <2>1 DEF vars, listVars, objVars, procVars, histVars, Undisturbed, Astray
<1>. QED
    BY <1>1, <1>2, <1>4, <1>5, <1>6, <1>7, <1>8, <1>9, <1>10, <1>11, <1>12
    DEF Next, RxStep, ProcStep

\* Without a reset connection nothing is ever removed from the list, freed or
\* read after it was erased, however threads and registrations interleave.
THEOREM QuietSafe == Spec => []QuietIsSafe
<1>1. Init => QuietInv
    BY TypeInit, QuietInit DEF QuietInv
<1>2. QuietInv => QuietIsSafe
    BY DEF QuietInv, QuietIsSafe, Undisturbed
<1>. QED
    BY <1>1, QuietNext, <1>2, PTL DEF Spec

-----------------------------------------------------------------------------
(* Every registration of a listed client is answered: the second loop of RegTask
   has not come to the client itself while it is under way. *)

SelfAhead == \A p \in listed : pc[p] = "regSet" /\ p \notin wild => it[p] < p

\* A client has no processing thread before it was accepted and started.
Unstarted == \A c \in Conn : c > accepted \/ rx[c] = "none" => pc[c] = "none"

AnsweredInv == TypeOK /\ Unstarted /\ SelfAhead

\* A thread is moved by its own steps and its start only.
LEMMA StandsStill ==
  ASSUME TypeOK, [Next]_vars, NEW p \in Conn, ~ProcStep(p), ~StartRecv(p)
  PROVE  pc'[p] = pc[p] /\ it'[p] = it[p] /\ (p \in wild' <=> p \in wild)
<1>1. CASE UNCHANGED <<pc, it, wild>>
    BY <1>1
<1>2. ASSUME NEW q \in Conn, q # p, ProcStep(q)
      PROVE  pc'[p] = pc[p] /\ it'[p] = it[p] /\ (p \in wild' <=> p \in wild)
  <2>1. CASE AliveSend(q) \/ Relay(q)
    <3>1. NoteStep(q) /\ \E n, w : MoveTo(q, n, w)
        BY <2>1, TurnMoves DEF AliveSend, Relay
    <3>. QED
        BY <1>2, <3>1 DEF MoveTo, NoteStep, TypeOK, ProcType
  <2>2. CASE ~AliveSend(q) /\ ~Relay(q)
      BY <1>2, <2>2 DEF ProcStep, Dispatch, ProcEnd, RegScan, RegSet, AliveFill, SendReturns,
                        Remove, Delete, Join, MoveTo, NoteStep, histVars, TypeOK, ProcType
  <2>. QED
      BY <2>1, <2>2
<1>3. ASSUME NEW q \in Conn, q # p, StartRecv(q)
      PROVE  pc'[p] = pc[p] /\ UNCHANGED <<it, wild>>
    BY <1>3 DEF StartRecv, histVars, TypeOK, ProcType
<1>4. ASSUME NEW c \in Conn,
             \/ Close(c) \/ Reset(c) \/ StopReading(c) \/ ReadAgain(c) \/ RxStep(c)
             \/ \E r \in Requests[c] : Receive(c, r)
      PROVE  UNCHANGED <<pc, it, wild>>
    BY <1>4 DEF Close, Reset, StopReading, ReadAgain, RxStep, RecvClosed, RecvError, RecvDelete,
                RecvEnd, Receive,
                procVars, histVars
<1>5. StartListenClient \/ Fault \/ UNCHANGED vars => UNCHANGED <<pc, it, wild>>
    BY DEF StartListenClient, Fault, vars, procVars, histVars
<1>. QED
    BY <1>1, <1>2, <1>3, <1>4, <1>5 DEF Next

\* What a step of a registration does while the walk has its own client ahead.
LEMMA RegStepAhead ==
  ASSUME TypeOK, SelfAhead, NEW p \in listed, p \in Conn, RegScan(p) \/ RegSet(p), p \notin wild'
  PROVE  /\ pc'[p] = "regSet" => it'[p] < p
         /\ pc'[p] = "idle" => \E c \in listed : task'[c] = msg[p].src
<1>1. ~Astray(p) /\ p \notin wild
    BY DEF RegScan, RegSet, NoteStep
<1>2. p \in Nat \ {0} /\ End \in Nat /\ p < End /\ it[p] \in Nat
    BY ConnFacts DEF TypeOK, ProcType
<1>3. CASE RegScan(p)
  <2>1. PICK n \in NextNodes(p) :
          IF n = End
            THEN MoveTo(p, 0, "regSet")
            ELSE MoveTo(p, n, IF task[n] = msg[p].src THEN "idle" ELSE "regScan")
      BY <1>3 DEF RegScan
  <2>2. n # End => n \in listed
      BY <1>1, NextListed
  <2>3. task' = task
      BY <1>3 DEF RegScan, listVars
  <2>4. CASE n = End
    <3>1. pc'[p] = "regSet" /\ it'[p] = 0
        BY <2>1, <2>4 DEF MoveTo, TypeOK, ProcType
    <3>. QED
        BY <1>2, <3>1
  <2>5. CASE n # End
    <3>1. pc'[p] = IF task[n] = msg[p].src THEN "idle" ELSE "regScan"
        BY <2>1, <2>5 DEF MoveTo, TypeOK, ProcType
    <3>. QED
        BY <2>2, <2>3, <2>5, <3>1
  <2>. QED
      BY <2>4, <2>5
<1>4. CASE RegSet(p)
  <2>1. PICK n \in NextNodes(p) :
          /\ MoveTo(p, n, IF n \in {p, End} THEN "idle" ELSE "regSet")
          /\ task' = IF n = p THEN [task EXCEPT ![p] = msg[p].src] ELSE task
      BY <1>4 DEF RegSet
  <2>2. it[p] < p
      BY <1>1, <1>4 DEF SelfAhead, RegSet
  <2>3. n # End /\ n <= p /\ n \in Nat
    <3>1. n # End /\ n <= p
        BY <1>1, <1>2, <2>2, NextListed
    <3>2. n \in Conn
        BY <3>1, StepForward
    <3>. QED
        BY <3>1, <3>2, ConnFacts
  <2>4. CASE n = p
      BY <2>1, <2>4 DEF MoveTo, TypeOK, ProcType, ListType
  <2>5. CASE n # p
    <3>1. pc'[p] = "regSet" /\ it'[p] = n
        BY <2>1, <2>3, <2>5 DEF MoveTo, TypeOK, ProcType
    <3>. QED
        BY <1>2, <2>3, <2>5, <3>1
  <2>. QED
      BY <2>4, <2>5
<1>. QED
    BY <1>3, <1>4

\* No other step of a thread begins or ends a registration.
LEMMA RegStepOnly ==
  ASSUME TypeOK, NEW p \in Conn, ProcStep(p), ~RegScan(p), ~RegSet(p)
  PROVE  pc[p] \notin RegState /\ pc'[p] # "regSet"
BY DEF ProcStep, Dispatch, ProcEnd, AliveFill, AliveSend, Relay, RelayTarget, Send, AfterSend,
       SendReturns,
       Remove, Delete, Join, MoveTo, HandlerOf, RegState, TypeOK, ProcType

LEMMA UnstartedNext ==
  ASSUME TypeOK, Unstarted, [Next]_vars
  PROVE  Unstarted'
<1>1. accepted \in Nat /\ accepted' \in Nat /\ accepted <= accepted'
  <2>1. accepted \in Nat /\ accepted' \in Nat
      BY TypeNext, BoundsAssumption DEF TypeOK, ListType
  <2>2. accepted' = accepted \/ accepted' = accepted + 1
      BY DEF Next, ProcStep, RxStep, StartListenClient, Fault, Close, Reset, StopReading,
             ReadAgain, StartRecv, Receive,
             RecvClosed, RecvError, RecvDelete, RecvEnd, Dispatch, ProcEnd, RegScan, RegSet,
             AliveFill, AliveSend, Relay, SendReturns, Remove, Delete, Join, vars, listVars
  <2>. QED
      BY <2>1, <2>2
<1>2. ASSUME NEW c \in Conn, rx'[c] = "none"
      PROVE  rx[c] = "none" /\ ~StartRecv(c)
  <2>1. ~StartRecv(c)
      BY <1>2 DEF StartRecv, TypeOK, ObjType
  <2>2. \A q \in Conn : ProcStep(q) => UNCHANGED rx
      BY DEF ProcStep, Dispatch, ProcEnd, RegScan, RegSet, AliveFill, AliveSend, Relay,
             SendReturns, Remove, Delete, Join, objVars
  <2>. QED
      BY <1>2, <2>1, <2>2
      DEF Next, RxStep, StartListenClient, Fault, Close, Reset, StopReading, ReadAgain,
          StartRecv, Receive, RecvClosed, RecvError, RecvDelete, RecvEnd, AfterRecv, vars,
          objVars, TypeOK, ObjType
<1>3. ASSUME NEW c \in Conn, c > accepted' \/ rx'[c] = "none"
      PROVE  pc'[c] = "none"
  <2>1. c \in Nat /\ (c > accepted' => c > accepted /\ c # accepted)
      BY <1>1, ConnFacts
  <2>2. pc[c] = "none" /\ ~StartRecv(c)
      BY <1>2, <1>3, <2>1 DEF Unstarted, StartRecv
  <2>3. ~ProcStep(c)
      BY <2>2 DEF ProcStep, Dispatch, ProcEnd, RegScan, RegSet, AliveFill, AliveSend, Relay,
                  SendReturns,
                  Remove, Delete, Join
  <2>. QED
      BY <2>2, <2>3, StandsStill
<1>. QED
    BY <1>3 DEF Unstarted

LEMMA SelfAheadNext ==
  ASSUME AnsweredInv, [Next]_vars
  PROVE  SelfAhead'
<1> USE DEF AnsweredInv
<1>1. SUFFICES ASSUME NEW p \in listed', pc'[p] = "regSet", p \notin wild'
               PROVE  it'[p] < p
    BY DEF SelfAhead
<1>2. p \in Conn
  <2>1. ListType'
      BY TypeNext DEF TypeOK
  <2>. QED
      BY <2>1, BoundsAssumption DEF ListType, Conn
<1>3. p \in listed \/ pc[p] = "none"
  <2>1. CASE StartListenClient
    <3>1. accepted \in Nat /\ listed' = listed \union {accepted + 1}
        BY <2>1, BoundsAssumption DEF StartListenClient, TypeOK, ListType
    <3>. QED
        BY <1>2, <3>1 DEF Unstarted
  <2>2. CASE ~StartListenClient
    <3>1. listed' \subseteq listed
        BY <2>2
        DEF Next, ProcStep, RxStep, Fault, Close, Reset, StopReading, ReadAgain, StartRecv,
            Receive, RecvClosed, RecvError,
            RecvDelete, RecvEnd, Dispatch, ProcEnd, RegScan, RegSet, AliveFill, AliveSend, Relay,
            SendReturns,
            Remove, Delete, Join, vars, listVars
    <3>. QED
        BY <3>1
  <2>. QED
      BY <2>1, <2>2
<1>4. CASE RegScan(p) \/ RegSet(p)
  <2>1. pc[p] # "none"
      BY <1>4 DEF RegScan, RegSet
  <2>. QED
      BY <1>1, <1>2, <1>3, <1>4, <2>1, RegStepAhead
<1>5. CASE ~RegScan(p) /\ ~RegSet(p)
  <2>1. ~ProcStep(p)
      BY <1>1, <1>2, <1>5, RegStepOnly
  <2>2. ~StartRecv(p)
      BY <1>1, <1>2 DEF StartRecv, TypeOK, ProcType
  <2>3. pc[p] = "regSet" /\ it'[p] = it[p] /\ p \notin wild
      BY <1>1, <1>2, <2>1, <2>2, StandsStill
  <2>. QED
      BY <1>3, <2>3 DEF SelfAhead
<1>. QED
    BY <1>4, <1>5

\* RegTask returns only with the number given to the client or held by another
\* listed one, unless its walk has stood on an erased node.
THEOREM RegistrationsAnswered == Spec => RegistrationAnswered
<1>1. Init => AnsweredInv
    BY TypeInit DEF Init, AnsweredInv, Unstarted, SelfAhead
<1>2. AnsweredInv /\ [Next]_vars => AnsweredInv'
    BY TypeNext, UnstartedNext, SelfAheadNext DEF AnsweredInv
<1>3. AnsweredInv /\ [Next]_vars
        => [\A p \in listed : pc[p] \in RegState /\ pc'[p] = "idle" /\ p \notin wild'
              => \E c \in listed : task'[c] = msg[p].src]_vars
  <2> SUFFICES ASSUME AnsweredInv, [Next]_vars,
                      NEW p \in listed, pc[p] \in RegState, pc'[p] = "idle", p \notin wild'
               PROVE  \E c \in listed : task'[c] = msg[p].src
      OBVIOUS
  <2>1. p \in Conn
      BY ListedConn DEF AnsweredInv
  <2>2. ~StartRecv(p)
      BY <2>1 DEF AnsweredInv, Unstarted, StartRecv, RegState
  <2>3. ProcStep(p)
      BY <2>1, <2>2, StandsStill DEF AnsweredInv, RegState
  <2>4. RegScan(p) \/ RegSet(p)
      BY <2>1, <2>3, RegStepOnly DEF AnsweredInv
  <2>. QED
      BY <2>1, <2>4, RegStepAhead DEF AnsweredInv
<1>. QED
    BY <1>1, <1>2, <1>3, PTL DEF Spec, RegistrationAnswered

===============================================================================
