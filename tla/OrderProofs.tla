------------------------------ MODULE OrderProofs ------------------------------
(* Order and multiplicity of what the clients get, for every number of
   connections and messages. *)
EXTENDS AliveLoop, ServerClassProofs

-----------------------------------------------------------------------------
(* The inductive invariant.  A queue holds the last messages of its client,
   without a gap; the processing thread has the one before them.  Whatever
   reached a client is of an earlier message than the one its source has in
   service, or of that one, and then its walk has come past the client or has
   been led astray. *)
Own(p) ==
  /\ msg[p].from = p /\ msg[p].seq = sent[p] - Len(que[p])
  /\ \A i \in 1..Len(que[p]) :
       que[p][i].from = p /\ que[p][i].seq = sent[p] - Len(que[p]) + i

OwnMessages == \A p \in Conn : Own(p)

\* Where a processing thread is while nothing of its message was sent yet.
Unsent == {"regScan", "regSet", "aliveFill"}

\* The walk of p has come to c, and if it is there has sent already.
Came(p, c) == pc[p] \notin Unsent /\ c <= it[p] /\ (c = it[p] => pc[p] # "send")

Behind(m, c) ==
  \/ m.seq < msg[m.from].seq
  \/ m.seq = msg[m.from].seq /\ (m.from \in wild \/ Came(m.from, c))

AllBehind == \A c \in Conn : \A i \in 1..Len(out[c]) : Behind(out[c][i], c)

\* The message of a walk that was led astray is noted as such.
Strays == \A p \in wild : <<p, msg[p].seq>> \in strayed

OrderInv == TypeOK /\ OwnMessages /\ AllBehind /\ Strays /\ SourceOrder

-----------------------------------------------------------------------------
(* Elements of the queues and streams. *)

LEMMA OutElement ==
  ASSUME TypeOK, NEW c \in Conn, NEW i \in 1..Len(out[c])
  PROVE  /\ out[c][i] \in Message
         /\ out[c][i].from \in Conn
         /\ out[c][i].seq \in Nat
<1>1. out[c] \in Seq(Message)
    BY DEF TypeOK, NetType
<1>2. out[c][i] \in Message
    BY <1>1
<1>. QED
    BY <1>2 DEF Message

LEMMA MsgElement ==
  ASSUME TypeOK, NEW p \in Conn
  PROVE  msg[p].seq \in Nat /\ it[p] \in Nat /\ msg[p] \in Message
BY ConnFacts DEF TypeOK, ProcType, Message

\* A stream that grows by one message.
LEMMA AppendElement ==
  ASSUME NEW s \in Seq(Message), NEW m \in Message, NEW t, t = Append(s, m)
  PROVE  /\ Len(s) \in Nat
         /\ Len(t) = Len(s) + 1
         /\ \A i \in 1..Len(s) : t[i] = s[i]
         /\ t[Len(s) + 1] = m
BY AppendProperties

-----------------------------------------------------------------------------
(* What the steps do to the order. *)

LEMMA OrderInit == Init => OwnMessages /\ AllBehind /\ Strays /\ SourceOrder
<1> SUFFICES ASSUME Init PROVE OwnMessages /\ AllBehind /\ Strays /\ SourceOrder
    OBVIOUS
<1>1. \A c \in Conn : que[c] = <<>> /\ out[c] = <<>> /\ sent[c] = 0 /\ msg[c] = ZeroMsg(c)
    BY DEF Init
<1>2. OwnMessages
  <2>1. \A c \in Conn : Len(que[c]) = 0
      BY <1>1, EmptySeq
  <2>2. ASSUME NEW c \in Conn PROVE msg[c].from = c /\ msg[c].seq = 0
    <3>1. ZeroMsg(c).from = c /\ ZeroMsg(c).seq = 0
        BY DEF ZeroMsg
    <3>. QED
        BY <1>1, <3>1
  <2>. QED
      BY <1>1, <2>1, <2>2 DEF OwnMessages, Own
<1>3. Strays
    BY DEF Init, Strays
<1>. QED
    BY <1>1, <1>2, <1>3 DEF AllBehind, SourceOrder

\* The history of a step of a walk.
LEMMA NoteStrays ==
  ASSUME OrderInv, NEW p \in Conn, NoteStep(p), \A q \in Conn : msg'[q].seq = msg[q].seq
  PROVE  /\ wild \subseteq wild' /\ strayed \subseteq strayed' /\ Strays'
         /\ Astray(p) => p \in wild'
<1>1. wild \subseteq Conn
    BY DEF OrderInv, TypeOK, HistType
<1>2. wild \subseteq wild' /\ strayed \subseteq strayed' /\ (Astray(p) => p \in wild')
    BY DEF NoteStep
<1>3. ASSUME NEW q \in wild' PROVE <<q, msg'[q].seq>> \in strayed'
    BY <1>1, <1>3 DEF OrderInv, Strays, NoteStep
<1>. QED
    BY <1>2, <1>3 DEF Strays

\* How a walk may move: before anything was sent anywhere, then forward, or to
\* where it is, unless it is led astray.
Onward(p, n, w) ==
  \/ pc[p] \in Unsent
  \/ w \notin Unsent /\ (n > it[p] \/ (n = it[p] /\ w # "send"))
  \/ p \in wild'

\* A message that is behind its source stays behind while the walk of p moves on.
LEMMA MoveBehind ==
  ASSUME OrderInv, NEW p \in Conn, NEW n \in Nat, NEW w, MoveTo(p, n, w), Onward(p, n, w),
         \A q \in Conn : msg'[q].seq = msg[q].seq, wild \subseteq wild',
         NEW c \in Conn, NEW m, m.from \in Conn, m.seq \in Nat, Behind(m, c)
  PROVE  Behind(m, c)'
<1>1. CASE m.from # p
    BY <1>1 DEF OrderInv, TypeOK, ProcType, MoveTo, Behind, Came
<1>2. CASE m.from = p
  <2>1. it[p] \in Nat /\ it'[p] = n /\ pc'[p] = w /\ c \in Nat
      BY MsgElement, ConnFacts DEF OrderInv, TypeOK, ProcType, MoveTo
  <2>2. msg'[p].seq = msg[p].seq
      OBVIOUS
  <2>3. CASE m.seq < msg[p].seq \/ p \in wild'
      BY <1>2, <2>2, <2>3 DEF Behind
  <2>4. CASE m.seq = msg[p].seq /\ Came(p, c) /\ p \notin wild'
    <3>1. Came(p, c)'
        BY <2>1, <2>4 DEF Came, Onward
    <3>. QED
        BY <1>2, <2>2, <2>4, <3>1 DEF Behind
  <2>. QED
      BY <1>2, <2>3, <2>4 DEF Behind
<1>. QED
    BY <1>1, <1>2

\* Two messages k and m of one source in order, with the messages of S led astray.
InOrder(k, m, S) == k.seq < m.seq \/ (k.seq = m.seq /\ <<k.from, k.seq>> \in S)

\* They stay in order as the history grows.
LEMMA OrderKept ==
  ASSUME OrderInv, strayed \subseteq strayed',
         NEW c \in Conn, NEW i \in 1..Len(out[c]), NEW j \in 1..Len(out[c]),
         i < j, out[c][i].from = out[c][j].from
  PROVE  InOrder(out[c][i], out[c][j], strayed')
BY DEF OrderInv, SourceOrder, InOrder

\* The walk of p moves on without sending.
LEMMA MoveOrder ==
  ASSUME OrderInv, NEW p \in Conn, NEW n \in Nat, NEW w, MoveTo(p, n, w), Onward(p, n, w),
         UNCHANGED out,
         \A q \in Conn : msg'[q].seq = msg[q].seq,
         wild \subseteq wild', strayed \subseteq strayed'
  PROVE  AllBehind' /\ SourceOrder'
<1>1. ASSUME NEW c \in Conn, NEW i \in 1..Len(out[c])
      PROVE  Behind(out[c][i], c)'
  <2> DEFINE m == out[c][i]
  <2>1. m.from \in Conn /\ m.seq \in Nat /\ Behind(m, c)
      BY OutElement DEF OrderInv, AllBehind
  <2>2. \A k : k.from \in Conn /\ k.seq \in Nat /\ Behind(k, c) => Behind(k, c)'
      BY MoveBehind
  <2>. QED
      BY <2>1, <2>2 DEF Behind
<1>2. SourceOrder'
    BY OrderKept DEF SourceOrder, InOrder
<1>. QED
    BY <1>1, <1>2 DEF AllBehind

\* The walk of p comes to n, or has waited there, and sends its message.
LEMMA SendOrder ==
  ASSUME OrderInv, NEW p \in Conn, NEW n \in Conn, NEW w, MoveTo(p, n, w),
         pc[p] \notin Unsent, w \notin Unsent, w # "send", UNCHANGED msg,
         n > it[p] \/ (n = it[p] /\ pc[p] = "send") \/ p \in wild',
         wild \subseteq wild', strayed \subseteq strayed', Strays',
         out' = [out EXCEPT ![n] = Append(@, msg[p])]
  PROVE  AllBehind' /\ SourceOrder'
<1>1. msg[p] \in Message /\ msg[p].from = p /\ msg[p].seq \in Nat
      /\ it[p] \in Nat /\ it'[p] = n /\ pc'[p] = w /\ n \in Nat
    BY MsgElement, ConnFacts DEF OrderInv, OwnMessages, Own, TypeOK, ProcType, MoveTo
<1>2. ASSUME NEW c \in Conn, NEW m, m.from \in Conn, m.seq \in Nat, Behind(m, c)
      PROVE  Behind(m, c)'
  <2>1. (\A q \in Conn : msg'[q].seq = msg[q].seq) /\ n \in Nat /\ Onward(p, n, w)
      BY <1>1 DEF Onward
  <2>. QED
      BY <1>2, <2>1, MoveBehind
<1>3. /\ \A c \in Conn : c # n => out'[c] = out[c]
      /\ Len(out[n]) \in Nat
      /\ Len(out'[n]) = Len(out[n]) + 1
      /\ \A i \in 1..Len(out[n]) : out'[n][i] = out[n][i]
      /\ out'[n][Len(out[n]) + 1] = msg[p]
  <2>1. out[n] \in Seq(Message) /\ out'[n] = Append(out[n], msg[p])
      BY DEF OrderInv, TypeOK, NetType
  <2>2. \A c \in Conn : c # n => out'[c] = out[c]
      BY DEF OrderInv, TypeOK, NetType
  <2>. QED
      BY <1>1, <2>1, <2>2, AppendElement
<1>4. \A k : k = msg[p] => Behind(k, n)'
    BY <1>1 DEF Behind, Came
<1>5. ASSUME NEW c \in Conn, NEW i \in 1..Len(out'[c])
      PROVE  Behind(out[c][i], c)'
  <2> DEFINE m == out'[c][i]
  <2>2. CASE c # n \/ i \in 1..Len(out[n])
    <3>1. i \in 1..Len(out[c]) /\ m = out[c][i]
        BY <1>3, <2>2
    <3>2. out[c][i].from \in Conn /\ out[c][i].seq \in Nat /\ Behind(out[c][i], c)
        BY <3>1, OutElement DEF OrderInv, AllBehind
    <3>. QED
        BY <1>2, <3>1, <3>2 DEF Behind
  <2>3. CASE c = n /\ i = Len(out[n]) + 1
      BY <1>3, <1>4, <2>3 DEF Behind
  <2>. QED
      BY <1>3, <2>2, <2>3
<1>6. ASSUME NEW i \in 1..Len(out[n]), out[n][i].from = p
      PROVE  \/ out[n][i].seq < msg[p].seq
             \/ out[n][i].seq = msg[p].seq /\ <<p, msg[p].seq>> \in strayed'
  <2>1. Behind(out[n][i], n)
      BY DEF OrderInv, AllBehind
  <2>2. p \in wild' => <<p, msg[p].seq>> \in strayed'
      BY DEF Strays
  <2>3. Came(p, n) => p \in wild'
      BY <1>1 DEF Came
  <2>. QED
      BY <1>1, <1>6, <2>1, <2>2, <2>3 DEF Behind
<1>7. ASSUME NEW c \in Conn, NEW i \in 1..Len(out'[c]), NEW j \in 1..Len(out'[c]),
             i < j, out'[c][i].from = out'[c][j].from
      PROVE  InOrder(out'[c][i], out'[c][j], strayed')
  <2>1. CASE c # n
      BY <1>3, <1>7, <2>1, OrderKept
  <2>2. CASE c = n /\ j \in 1..Len(out[n])
    <3>1. i \in 1..Len(out[n])
        BY <1>3, <1>7, <2>2
    <3>. QED
        BY <1>3, <1>7, <2>2, <3>1, OrderKept
  <2>3. CASE c = n /\ j = Len(out[n]) + 1
    <3>1. i \in 1..Len(out[n])
        BY <1>3, <1>7, <2>3
    <3>2. /\ out'[c][i] = out[n][i] /\ out'[c][j] = msg[p]
          /\ out[n][i].from = p
        BY <1>1, <1>3, <1>7, <2>3, <3>1
    <3>3. InOrder(out[n][i], msg[p], strayed')
        BY <1>6, <3>1, <3>2 DEF InOrder
    <3>. QED
        BY <3>2, <3>3
  <2>. QED
      BY <1>3, <2>1, <2>2, <2>3
<1>8. AllBehind'
    BY <1>5 DEF AllBehind
<1>9. SourceOrder'
    BY <1>7 DEF SourceOrder, InOrder
<1>. QED
    BY <1>8, <1>9

\* What is received goes to the end of the queue, with the next number.
LEMMA ReceiveOwn ==
  ASSUME TypeOK, OwnMessages, NEW c \in Conn, NEW r, Sendable(r), Receive(c, r)
  PROVE  OwnMessages'
<1> DEFINE m == [type |-> r.type, src |-> r.src, dst |-> r.dst, alive |-> r.alive,
                 from |-> c, seq |-> sent'[c]]
<1>1. /\ sent'[c] = sent[c] + 1 /\ sent[c] \in Nat
      /\ que'[c] = Append(que[c], m) /\ que[c] \in Seq(Message)
      /\ \A q \in Conn : q # c => que'[q] = que[q] /\ sent'[q] = sent[q]
      /\ msg' = msg
    BY DEF Receive, procVars, TypeOK, NetType, ObjType
<1>2. m \in Message
    BY <1>1, ReceivedType
<1>3. /\ Len(que[c]) \in Nat
      /\ Len(que'[c]) = Len(que[c]) + 1
      /\ \A i \in 1..Len(que[c]) : que'[c][i] = que[c][i]
      /\ que'[c][Len(que[c]) + 1] = m
    BY <1>1, <1>2, AppendElement
<1>4. m.from = c /\ m.seq = sent[c] + 1
    BY <1>1
<1>5. msg'[c].from = c /\ msg'[c].seq = sent'[c] - Len(que'[c])
    BY <1>1, <1>3 DEF OwnMessages, Own
<1>6. ASSUME NEW i \in 1..Len(que'[c])
      PROVE  que'[c][i].from = c /\ que'[c][i].seq = sent'[c] - Len(que'[c]) + i
  <2>1. CASE i \in 1..Len(que[c])
      BY <1>1, <1>3, <2>1 DEF OwnMessages, Own
  <2>2. CASE i = Len(que[c]) + 1
      BY <1>1, <1>3, <1>4, <2>2
  <2>. QED
      BY <1>3, <2>1, <2>2
<1>7. Own(c)'
    BY <1>5, <1>6 DEF Own
<1>8. \A q \in Conn : q # c => (Own(q) => Own(q)')
    BY <1>1 DEF Own
<1>. QED
    BY <1>7, <1>8 DEF OwnMessages

\* Only Receive and Dispatch touch the queues and the numbers.
LEMMA OwnNext ==
  ASSUME TypeOK, OwnMessages, [Next]_vars
  PROVE  OwnMessages'
<1>1. ASSUME NEW c \in Conn, NEW r \in Requests[c], Receive(c, r)
      PROVE  OwnMessages'
    BY <1>1, RequestSendable, ReceiveOwn
<1>2. ASSUME NEW p \in Conn, Dispatch(p)
      PROVE  OwnMessages'
  <2>1. /\ que'[p] = Tail(que[p]) /\ que[p] \in Seq(Message) /\ que[p] # <<>>
        /\ msg'[p] = Head(que[p])
        /\ \A q \in Conn : q # p => que'[q] = que[q] /\ msg'[q] = msg[q]
        /\ sent' = sent /\ sent[p] \in Nat
      BY <1>2 DEF Dispatch, netVars, TypeOK, NetType, ObjType, ProcType
  <2>2. Len(que[p]) \in Nat \ {0} /\ Head(que[p]) = que[p][1]
      BY <2>1, EmptySeq
  <2>3. /\ Len(que'[p]) = Len(que[p]) - 1
        /\ \A i \in 1..Len(que'[p]) : que'[p][i] = que[p][i + 1]
      BY <2>1, HeadTailProperties
  <2>4. msg'[p].from = p /\ msg'[p].seq = sent'[p] - Len(que'[p])
      BY <2>1, <2>2, <2>3 DEF OwnMessages, Own
  <2>5. ASSUME NEW i \in 1..Len(que'[p])
        PROVE  que'[p][i].from = p /\ que'[p][i].seq = sent'[p] - Len(que'[p]) + i
    <3>1. i + 1 \in 1..Len(que[p]) /\ que'[p][i] = que[p][i + 1]
        BY <2>2, <2>3
    <3>2. que[p][i + 1].from = p /\ que[p][i + 1].seq = sent[p] - Len(que[p]) + (i + 1)
        BY <3>1 DEF OwnMessages, Own
    <3>3. /\ i \in Nat /\ Len(que[p]) \in Nat /\ sent[p] \in Nat
          /\ Len(que'[p]) = Len(que[p]) - 1 /\ sent'[p] = sent[p]
        BY <2>1, <2>2, <2>3
    <3>4. sent'[p] - Len(que'[p]) + i = sent[p] - Len(que[p]) + (i + 1)
        BY <3>3
    <3>. QED
        BY <3>1, <3>2, <3>4
  <2>7. Own(p)'
      BY <2>4, <2>5 DEF Own
  <2>8. \A q \in Conn : q # p => (Own(q) => Own(q)')
      BY <2>1 DEF Own
  <2>. QED
      BY <2>7, <2>8 DEF OwnMessages
<1>3. CASE /\ UNCHANGED <<que, sent>>
           /\ \A q \in Conn : msg'[q].seq = msg[q].seq /\ msg'[q].from = msg[q].from
    BY <1>3 DEF OwnMessages, Own
<1>4. ASSUME NEW p \in Conn, AliveFill(p)
      PROVE  /\ UNCHANGED <<que, sent>>
             /\ \A q \in Conn : msg'[q].seq = msg[q].seq /\ msg'[q].from = msg[q].from
  <2>1. msg' = msg \/ \E t : msg' = [msg EXCEPT ![p].alive = @ \union {t}]
      BY <1>4 DEF AliveFill
  <2>. QED
      BY <1>4, <2>1 DEF AliveFill, netVars, objVars, TypeOK, ProcType, Message
<1>5. ASSUME NEW p \in Conn, \/ ProcEnd(p) \/ RegScan(p) \/ RegSet(p) \/ AliveSend(p) \/ Relay(p)
                             \/ SendReturns(p) \/ Remove(p) \/ Delete(p) \/ Join(p)
      PROVE  UNCHANGED <<que, sent, msg>>
    BY <1>5 DEF ProcEnd, RegScan, RegSet, AliveSend, Relay, SendReturns, Remove, Delete, Join,
                netVars, objVars
<1>6. ASSUME NEW c \in Conn, \/ Close(c) \/ Reset(c) \/ StopReading(c) \/ ReadAgain(c)
                             \/ StartRecv(c) \/ RxStep(c)
      PROVE  UNCHANGED <<que, sent, msg>>
    BY <1>6 DEF Close, Reset, StopReading, ReadAgain, StartRecv,
                RxStep, RecvClosed, RecvError, RecvDelete, RecvEnd, netVars, objVars, procVars
<1>7. StartListenClient \/ Fault \/ UNCHANGED vars => UNCHANGED <<que, sent, msg>>
    BY DEF StartListenClient, Fault, vars, netVars, objVars, procVars
<1>. QED
    BY <1>1, <1>2, <1>3, <1>4, <1>5, <1>6, <1>7 DEF Next, ProcStep

\* One turn of a loop that sends, with what it may have sent.
LEMMA TurnShape ==
  ASSUME TypeOK, NEW p \in Conn, AliveSend(p) \/ Relay(p)
  PROVE  \E n \in NextNodes(p), w \in {"idle", "aliveSend", "relay", "send", "remove"} :
           /\ MoveTo(p, n, w) /\ (w \in {"send", "remove"} => n \in Conn)
           /\ \/ UNCHANGED out
              \/ n \in Conn /\ w = AfterSend(msg[p], n) /\ w # "send" /\ SendTo(n, msg[p])
<1>1. PICK n \in NextNodes(p) :
        \/ /\ \E w \in {"idle", "aliveSend", "relay"} : MoveTo(p, n, w)
           /\ UNCHANGED out
        \/ n \in Conn /\ Send(p, n)
  <2>1. CASE AliveSend(p)
      BY <2>1 DEF AliveSend
  <2>2. CASE Relay(p)
    <3>1. \A n \in NextNodes(p) : n # End => n \in Conn
        BY StepForward
    <3>. QED
        BY <2>2, <3>1 DEF Relay, RelayTarget
  <2>. QED
      BY <2>1, <2>2
<1>2. AfterSend(msg[p], n) \in {"idle", "relay", "remove"}
    BY DEF AfterSend
<1>. QED
    BY <1>1, <1>2 DEF Send

LEMMA OrderNext ==
  ASSUME OrderInv, [Next]_vars
  PROVE  AllBehind' /\ Strays' /\ SourceOrder'
<1> USE DEF OrderInv
<1>1. CASE UNCHANGED <<out, msg, it, pc, wild, strayed>>
    BY <1>1 DEF AllBehind, Behind, Came, Strays, SourceOrder
<1>2. ASSUME NEW p \in Conn, UNCHANGED <<out, msg, it, wild, strayed>>,
             \E w : w \notin Unsent /\ w # "send" /\ pc' = [pc EXCEPT ![p] = w]
      PROVE  AllBehind' /\ Strays' /\ SourceOrder'
  <2>1. PICK w : w \notin Unsent /\ w # "send" /\ pc' = [pc EXCEPT ![p] = w]
      BY <1>2
  <2>2. MoveTo(p, it[p], w) /\ it[p] \in Nat
      BY <1>2, <2>1, MsgElement DEF MoveTo, TypeOK, ProcType
  <2>3. Onward(p, it[p], w)
      BY <2>1 DEF Onward
  <2>4. Strays'
      BY <1>2 DEF Strays
  <2>. QED
      BY <1>2, <2>2, <2>3, <2>4, MoveOrder
<1>3. ASSUME NEW p \in Conn, Dispatch(p)
      PROVE  AllBehind' /\ Strays' /\ SourceOrder'
  <2>1. /\ msg'[p].seq = msg[p].seq + 1
        /\ \A q \in Conn : q # p => msg'[q] = msg[q] /\ it'[q] = it[q] /\ pc'[q] = pc[q]
        /\ UNCHANGED <<out, strayed>> /\ wild' = wild \ {p}
    <3>1. OwnMessages'
        BY OwnNext
    <3>2. /\ sent' = sent /\ que'[p] = Tail(que[p]) /\ que[p] \in Seq(Message) /\ que[p] # <<>>
          /\ sent[p] \in Nat
        BY <1>3 DEF Dispatch, netVars, TypeOK, NetType, ObjType
    <3>3. Len(que'[p]) = Len(que[p]) - 1 /\ Len(que[p]) \in Nat
        BY <3>2, HeadTailProperties
    <3>4. msg'[p].seq = sent[p] - Len(que'[p]) /\ msg[p].seq = sent[p] - Len(que[p])
        BY <3>1, <3>2 DEF OwnMessages, Own
    <3>5. msg'[p].seq = msg[p].seq + 1
        BY <3>2, <3>3, <3>4
    <3>. QED
        BY <1>3, <3>5 DEF Dispatch, MoveTo, netVars, TypeOK, ProcType
  <2>2. ASSUME NEW c \in Conn, NEW m, m.from \in Conn, m.seq \in Nat, Behind(m, c)
        PROVE  Behind(m, c)'
      BY <2>1, <2>2, MsgElement DEF Behind, Came
  <2>3. ASSUME NEW c \in Conn, NEW i \in 1..Len(out[c])
        PROVE  Behind(out[c][i], c)'
    <3>1. out[c][i].from \in Conn /\ out[c][i].seq \in Nat /\ Behind(out[c][i], c)
        BY OutElement DEF AllBehind
    <3>. QED
        BY <2>1, <2>2, <3>1 DEF Behind
  <2>4. Strays'
    <3>1. wild \subseteq Conn
        BY DEF TypeOK, HistType
    <3>. QED
        BY <2>1, <3>1 DEF Strays
  <2>. QED
      BY <2>1, <2>3, <2>4 DEF AllBehind, SourceOrder
<1>4. ASSUME NEW p \in Conn, RegScan(p) \/ RegSet(p) \/ AliveFill(p)
      PROVE  AllBehind' /\ Strays' /\ SourceOrder'
  <2>1. UNCHANGED out /\ pc[p] \in Unsent /\ NoteStep(p)
      BY <1>4 DEF RegScan, RegSet, AliveFill, netVars, Unsent
  <2>2. \E n \in NextNodes(p) \union {0}, w \in PcState : MoveTo(p, n, w)
      BY <1>4 DEF RegScan, RegSet, AliveFill, PcState, WalkState, RegState
  <2>3. \E n \in Nat : \E w : MoveTo(p, n, w)
      BY <2>2, StepForward, ConnFacts
  <2>4. \A q \in Conn : msg'[q].seq = msg[q].seq
    <3>1. msg' = msg \/ \E t : msg' = [msg EXCEPT ![p].alive = @ \union {t}]
        BY <1>4 DEF RegScan, RegSet, AliveFill
    <3>. QED
        BY <3>1 DEF TypeOK, ProcType, Message
  <2>5. \A n, w : Onward(p, n, w)
      BY <2>1 DEF Onward
  <2>. QED
      BY <2>1, <2>3, <2>4, <2>5, NoteStrays, MoveOrder
<1>5. ASSUME NEW p \in Conn, AliveSend(p) \/ Relay(p)
      PROVE  AllBehind' /\ Strays' /\ SourceOrder'
  <2>1. PICK n \in NextNodes(p), w \in {"idle", "aliveSend", "relay", "send", "remove"} :
          /\ MoveTo(p, n, w) /\ (w = "send" => n \in Conn)
          /\ UNCHANGED out \/ (n \in Conn /\ w # "send" /\ SendTo(n, msg[p]))
      BY <1>5, TurnShape
  <2>2. pc[p] \notin Unsent /\ w \notin Unsent /\ UNCHANGED msg /\ NoteStep(p)
      BY <1>5 DEF AliveSend, Relay, Unsent
  <2>3. wild \subseteq wild' /\ strayed \subseteq strayed' /\ Strays'
        /\ (Astray(p) => p \in wild')
      BY <2>2, NoteStrays
  <2>4. n \in Nat /\ (n > it[p] \/ (n = it[p] /\ w # "send" /\ n \notin Conn) \/ p \in wild')
    <3>1. it[p] \in 0..End /\ End \in Nat /\ n \in 0..End
        BY ConnFacts, StepForward DEF TypeOK, ProcType
    <3>2. CASE n = End
        BY <2>1, <3>1, <3>2, ConnFacts
    <3>3. CASE n # End
        BY <2>3, <3>1, <3>3, StepForward
    <3>. QED
        BY <3>2, <3>3
  <2>5. Onward(p, n, w)
      BY <2>2, <2>4 DEF Onward
  <2>6. CASE UNCHANGED out
      BY <2>1, <2>2, <2>3, <2>4, <2>5, <2>6, MoveOrder
  <2>7. CASE n \in Conn /\ w # "send" /\ out' = [out EXCEPT ![n] = Append(@, msg[p])]
      BY <2>1, <2>2, <2>3, <2>4, <2>7, SendOrder
  <2>. QED
      BY <2>1, <2>6, <2>7 DEF SendTo
<1>6. ASSUME NEW p \in Conn, SendReturns(p)
      PROVE  AllBehind' /\ Strays' /\ SourceOrder'
  <2> DEFINE w == AfterSend(msg[p], it[p])
  <2>1. /\ pc[p] = "send" /\ pc' = [pc EXCEPT ![p] = w] /\ SendTo(it[p], msg[p])
        /\ UNCHANGED <<msg, it, wild, strayed>> /\ it[p] \in Conn
      BY <1>6 DEF SendReturns, histVars, TypeOK, ProcType
  <2>2. w \notin Unsent /\ w # "send"
      BY DEF AfterSend, Unsent
  <2>3. CASE UNCHANGED out
      BY <1>2, <2>1, <2>2, <2>3
  <2>4. CASE out' = [out EXCEPT ![it[p]] = Append(@, msg[p])]
    <3>1. MoveTo(p, it[p], w) /\ Strays' /\ pc[p] \notin Unsent
        BY <2>1 DEF MoveTo, TypeOK, ProcType, Strays, Unsent
    <3>. QED
        BY <2>1, <2>2, <2>4, <3>1, SendOrder
  <2>. QED
      BY <2>1, <2>3, <2>4 DEF SendTo
<1>7. ASSUME NEW p \in Conn, ProcEnd(p) \/ Remove(p) \/ Delete(p) \/ Join(p) \/ StartRecv(p)
      PROVE  /\ UNCHANGED <<out, msg, it, wild, strayed>>
             /\ \E w : w \notin Unsent /\ w # "send" /\ pc' = [pc EXCEPT ![p] = w]
    BY <1>7 DEF ProcEnd, Remove, Delete, Join, StartRecv, netVars, histVars, Unsent
<1>8. ASSUME NEW c \in Conn, \/ Close(c) \/ Reset(c) \/ StopReading(c) \/ ReadAgain(c) \/ RxStep(c)
                             \/ \E r \in Requests[c] : Receive(c, r)
      PROVE  UNCHANGED <<out, msg, it, pc, wild, strayed>>
    BY <1>8 DEF Close, Reset, StopReading, ReadAgain, Receive, RxStep, RecvClosed, RecvError,
                RecvDelete, RecvEnd, netVars, procVars, histVars
<1>9. StartListenClient \/ Fault \/ UNCHANGED vars
        => UNCHANGED <<out, msg, it, pc, wild, strayed>>
    BY DEF StartListenClient, Fault, vars, netVars, procVars, histVars
<1>. QED
    BY <1>1, <1>2, <1>3, <1>4, <1>5, <1>6, <1>7, <1>8, <1>9 DEF Next, ProcStep

\* Whatever the list goes through under the walks, the messages of one client
\* reach another in the order they were sent, and none of them twice but one whose
\* own walk has stood on an erased node.
THEOREM SourceOrdered == Spec => []SourceOrder
<1>1. Init => OrderInv
    BY TypeInit, OrderInit DEF OrderInv
<1>2. OrderInv /\ [Next]_vars => OrderInv'
    BY TypeNext, OwnNext, OrderNext DEF OrderInv
<1>3. OrderInv => SourceOrder
    BY DEF OrderInv
<1>. QED
    BY <1>1, <1>2, <1>3, PTL DEF Spec

-----------------------------------------------------------------------------
(* Whom a message reaches.  The inductive invariant: what reached anybody of the
   message a thread has in service is of the type of that message, and a message
   for one client has reached somebody only once its handler has returned. *)

Resting == {"none", "idle", "ended"}

Taken == \A p \in Conn : pc[p] \notin Resting => msg[p].seq > 0

SentKinds ==
  \A c \in Conn : \A i \in 1..Len(out[c]) :
    /\ out[c][i].type # "TASKREG"
    /\ out[c][i].seq = msg[out[c][i].from].seq => out[c][i].type = msg[out[c][i].from].type

ForOne == {"TARGET", "TASKALIVE"}

SentOnce ==
  \A p, c \in Conn :
    msg[p].type \in ForOne /\ Got(out, msg[p], c) => pc[p] \in {"idle", "ended"}

KindInv == /\ OrderInv /\ QuietInv /\ HandlerMatches
           /\ Taken /\ SentKinds /\ SentOnce /\ SingleReceiver

\* The three kinds of step there are for the messages.  Thread p takes the next;
DispatchStep(p) ==
  /\ Dispatch(p)
  /\ msg'[p] \in Message /\ msg'[p].seq = msg[p].seq + 1 /\ msg'[p].from = p
  /\ \A q \in Conn : q # p => msg'[q] = msg[q] /\ pc'[q] = pc[q]
  /\ UNCHANGED <<out, sock>> /\ pc[p] = "idle" /\ pc'[p] \notin Resting
  /\ wild' = wild \ {p}

\* thread p sends its message to n;
SendStep(p, n) ==
  /\ pc[p] \in {"relay", "aliveSend", "send"}
  /\ Got(out, msg[p], n) => p \in wild'
  /\ wild' = wild \/ (~Quiet /\ wild' = wild \union {p})
  /\ out' = [out EXCEPT ![n] = Append(@, msg[p])]
  /\ UNCHANGED <<msg, sock>>
  /\ \A q \in Conn : q # p => pc'[q] = pc[q]
  /\ msg[p].type \in ForOne => pc'[p] = "idle"

\* or nothing is taken and nothing sent; a connection may be lost, or a walk be led
\* astray when one has been.
QuietStep ==
  /\ UNCHANGED out
  /\ \A q \in Conn : /\ msg'[q].from = msg[q].from /\ msg'[q].seq = msg[q].seq
                     /\ msg'[q].type = msg[q].type
                     /\ pc[q] \in Resting => pc'[q] \in Resting
                     /\ pc[q] \in {"idle", "ended"} => pc'[q] \in {"idle", "ended"}
  /\ Quiet' => Quiet
  /\ wild' = wild \/ (~Quiet /\ \E p \in Conn : wild' = wild \union {p})

LEMMA TakeShape ==
  ASSUME OrderInv, [Next]_vars, NEW p \in Conn, Dispatch(p)
  PROVE  DispatchStep(p)
<1> USE DEF OrderInv
<1>1. OwnMessages'
    BY OwnNext
<1>2. /\ sent' = sent /\ sent[p] \in Nat
      /\ que'[p] = Tail(que[p]) /\ que[p] \in Seq(Message) /\ que[p] # <<>>
    BY DEF Dispatch, netVars, TypeOK, NetType, ObjType
<1>3. Len(que'[p]) = Len(que[p]) - 1 /\ Len(que[p]) \in Nat /\ Head(que[p]) \in Message
    BY <1>2, HeadTailProperties
<1>4. msg'[p].seq = sent'[p] - Len(que'[p]) /\ msg[p].seq = sent[p] - Len(que[p])
      /\ msg'[p].from = p
    BY <1>1 DEF OwnMessages, Own
<1>5. msg'[p].seq = msg[p].seq + 1
    BY <1>2, <1>3, <1>4
<1>6. HandlerOf(Head(que[p])) \notin Resting
    BY DEF HandlerOf, Resting
<1>7. /\ msg'[p] = Head(que[p]) /\ pc[p] = "idle" /\ pc'[p] = HandlerOf(Head(que[p]))
      /\ \A q \in Conn : q # p => msg'[q] = msg[q] /\ pc'[q] = pc[q]
      /\ UNCHANGED <<out, sock>> /\ wild' = wild \ {p}
    BY DEF Dispatch, MoveTo, netVars, TypeOK, ProcType
<1>. QED
    BY <1>3, <1>4, <1>5, <1>6, <1>7 DEF DispatchStep

\* A walk is led astray only once a connection has been lost.
LEMMA StrayLoses ==
  ASSUME QuietInv, NEW p \in Conn, NoteStep(p)
  PROVE  wild' = wild \/ (~Quiet /\ wild' = wild \union {p})
<1>1. Astray(p) => ~Quiet
    BY DEF QuietInv, Undisturbed
<1>. QED
    BY <1>1 DEF NoteStep

LEMMA SendShape ==
  ASSUME OrderInv, QuietInv, HandlerMatches, NEW p \in Conn,
         AliveSend(p) \/ Relay(p) \/ SendReturns(p)
  PROVE  QuietStep \/ \E n \in Conn : SendStep(p, n)
<1>1. PICK n \in Nat, w \in {"idle", "aliveSend", "relay", "send", "remove"} :
        /\ pc' = [pc EXCEPT ![p] = w]
        /\ \/ UNCHANGED out
           \/ n \in Conn /\ w = AfterSend(msg[p], n) /\ SendTo(n, msg[p])
        /\ n \in Conn => n > it[p] \/ (n = it[p] /\ pc[p] = "send") \/ p \in wild'
  <2>1. CASE AliveSend(p) \/ Relay(p)
    <3>1. PICK n \in NextNodes(p), w \in {"idle", "aliveSend", "relay", "send", "remove"} :
            /\ MoveTo(p, n, w)
            /\ UNCHANGED out \/ (n \in Conn /\ w = AfterSend(msg[p], n) /\ SendTo(n, msg[p]))
        BY <2>1, TurnShape DEF OrderInv
    <3>2. NoteStep(p)
        BY <2>1 DEF AliveSend, Relay
    <3>3. n \in Nat /\ (n \in Conn => n > it[p] \/ p \in wild')
        BY <3>2, StepForward, ConnFacts DEF OrderInv, NoteStep
    <3>. QED
        BY <3>1, <3>3 DEF MoveTo
  <2>2. CASE SendReturns(p)
    <3>1. it[p] \in Conn /\ it[p] \in Nat
        BY <2>2, MsgElement DEF SendReturns, OrderInv, TypeOK, ProcType
    <3>2. AfterSend(msg[p], it[p]) \in {"idle", "relay", "remove"}
        BY DEF AfterSend
    <3>. QED
        BY <2>2, <3>1, <3>2 DEF SendReturns
  <2>. QED
      BY <2>1, <2>2
<1>2. /\ pc[p] \in {"relay", "aliveSend", "send"} /\ UNCHANGED <<msg, sock>>
      /\ wild' = wild \/ (~Quiet /\ wild' = wild \union {p})
    BY StrayLoses DEF AliveSend, Relay, SendReturns, histVars
<1>3. /\ pc'[p] = w
      /\ \A q \in Conn : q # p => pc'[q] = pc[q]
    BY <1>1 DEF OrderInv, TypeOK, ProcType
<1>4. CASE UNCHANGED out
  <2>1. Quiet' => Quiet
      BY <1>2 DEF Quiet
  <2>. QED
      BY <1>2, <1>3, <1>4, <2>1 DEF QuietStep, Resting
<1>5. CASE n \in Conn /\ sock[n] = "open" /\ w = AfterSend(msg[p], n) /\ SendTo(n, msg[p])
  <2>1. Got(out, msg[p], n) => p \in wild'
    <3>1. SUFFICES ASSUME NEW i \in 1..Len(out[n]),
                          out[n][i].from = msg[p].from, out[n][i].seq = msg[p].seq
                   PROVE  p \in wild'
        BY DEF Got
    <3>2. Behind(out[n][i], n) /\ msg[p].from = p
        BY <1>5 DEF OrderInv, AllBehind, OwnMessages, Own
    <3>3. n \in Nat /\ it[p] \in Nat /\ msg[p].seq \in Nat
        BY <1>1, MsgElement DEF OrderInv
    <3>4. p \in wild => p \in wild'
        BY <1>2
    <3>5. Came(p, n) => p \in wild'
        BY <1>1, <1>5, <3>3 DEF Came
    <3>. QED
        BY <3>1, <3>2, <3>3, <3>4, <3>5 DEF Behind
  <2>2. out' = [out EXCEPT ![n] = Append(@, msg[p])]
      BY <1>5 DEF SendTo
  <2>3. msg[p].type \in ForOne => w = "idle"
      BY <1>5 DEF AfterSend, ForOne
  <2>. QED
      BY <1>2, <1>3, <1>5, <2>1, <2>2, <2>3 DEF SendStep
<1>. QED
    BY <1>1, <1>4, <1>5 DEF SendTo

LEMMA QuietShape ==
  ASSUME OrderInv, QuietInv, [Next]_vars,
         \A p \in Conn : ~Dispatch(p) /\ ~AliveSend(p) /\ ~Relay(p) /\ ~SendReturns(p)
  PROVE  QuietStep
<1>1. ASSUME NEW p \in Conn,
             RegScan(p) \/ RegSet(p) \/ AliveFill(p) \/ Remove(p) \/ Delete(p) \/ Join(p)
      PROVE  QuietStep
  <2>1. pc[p] \notin Resting /\ UNCHANGED <<out, sock>>
      BY <1>1 DEF RegScan, RegSet, AliveFill, Remove, Delete, Join, netVars, Resting
  <2>2. \A q \in Conn : q # p => pc'[q] = pc[q]
      BY <1>1 DEF RegScan, RegSet, AliveFill, Remove, Delete, Join, MoveTo,
                  OrderInv, TypeOK, ProcType
  <2>3. \A q \in Conn : /\ msg'[q].from = msg[q].from /\ msg'[q].seq = msg[q].seq
                        /\ msg'[q].type = msg[q].type
      BY <1>1, FillKeeps DEF OrderInv, RegScan, RegSet, Remove, Delete, Join
  <2>4. wild' = wild \/ (~Quiet /\ wild' = wild \union {p})
      BY <1>1, StrayLoses DEF RegScan, RegSet, AliveFill, Remove, Delete, Join, histVars
  <2>5. Quiet' => Quiet
      BY <2>1 DEF Quiet
  <2>. QED
      BY <2>1, <2>2, <2>3, <2>4, <2>5 DEF QuietStep, Resting
<1>2. ASSUME NEW c \in Conn, StartRecv(c) \/ ProcEnd(c)
      PROVE  QuietStep
    BY <1>2 DEF StartRecv, ProcEnd, netVars, histVars, OrderInv, TypeOK, ProcType, QuietStep,
                Resting, Quiet
<1>3. ASSUME NEW c \in Conn, Close(c) \/ Reset(c)
      PROVE  QuietStep
  <2>1. UNCHANGED <<out, msg, pc, wild>>
      BY <1>3 DEF Close, Reset, procVars, histVars
  <2>2. Quiet' => Quiet
      BY <1>3 DEF Close, Reset, Quiet, OrderInv, TypeOK, NetType
  <2>. QED
      BY <2>1, <2>2 DEF QuietStep
<1>4. ASSUME NEW c \in Conn, \/ StopReading(c) \/ ReadAgain(c) \/ RxStep(c)
                             \/ \E r \in Requests[c] : Receive(c, r)
      PROVE  QuietStep
  <2>1. UNCHANGED <<out, msg, pc, wild, sock>>
      BY <1>4 DEF StopReading, ReadAgain, RxStep, RecvClosed, RecvError, RecvDelete, RecvEnd,
                  Receive, netVars, procVars, histVars
  <2>. QED
      BY <2>1 DEF QuietStep, Quiet
<1>5. CASE StartListenClient
  <2>1. UNCHANGED <<out, msg, pc, wild>>
      BY <1>5 DEF StartListenClient, procVars, histVars
  <2>2. Quiet' => Quiet
    <3>1. /\ accepted + 1 \in Conn /\ accepted + 1 > accepted
          /\ sock' = [sock EXCEPT ![accepted + 1] = "open"]
        BY <1>5, BoundsAssumption DEF StartListenClient, OrderInv, TypeOK, ListType, Conn
    <3>2. sock[accepted + 1] = "none"
        BY <3>1 DEF QuietInv, FutureQuiet
    <3>. QED
        BY <3>1, <3>2 DEF Quiet, OrderInv, TypeOK, NetType
  <2>. QED
      BY <2>1, <2>2 DEF QuietStep
<1>6. Fault \/ UNCHANGED vars => QuietStep
    BY DEF Fault, vars, netVars, procVars, histVars, QuietStep, Quiet
<1>. QED
    BY <1>1, <1>2, <1>3, <1>4, <1>5, <1>6 DEF Next, ProcStep

LEMMA StepShape ==
  ASSUME OrderInv, QuietInv, HandlerMatches, [Next]_vars
  PROVE  \/ QuietStep
         \/ \E p \in Conn : DispatchStep(p) \/ \E n \in Conn : SendStep(p, n)
BY TakeShape, SendShape, QuietShape

LEMMA KindInit == Init => HandlerMatches /\ Taken /\ SentKinds /\ SentOnce /\ SingleReceiver
<1> SUFFICES ASSUME Init PROVE Taken /\ SentKinds /\ SentOnce /\ SingleReceiver
    BY HandlerInit
<1>1. \A c \in Conn : out[c] = <<>> /\ pc[c] = "none"
    BY DEF Init
<1>2. \A c \in Conn : 1..Len(out[c]) = {}
    BY <1>1
<1>. QED
    BY <1>1, <1>2 DEF Taken, SentKinds, SentOnce, SingleReceiver, Resting, Got, Reached

LEMMA KindQuiet ==
  ASSUME KindInv, QuietStep
  PROVE  Taken' /\ SentKinds' /\ SentOnce' /\ SingleReceiver'
<1>1. Taken'
    BY DEF KindInv, QuietStep, Taken
<1>2. SentKinds'
  <2>1. ASSUME NEW c \in Conn, NEW i \in 1..Len(out[c])
        PROVE  /\ out[c][i].type # "TASKREG"
               /\ out[c][i].seq = msg'[out[c][i].from].seq
                    => out[c][i].type = msg'[out[c][i].from].type
      BY OutElement DEF KindInv, OrderInv, QuietStep, SentKinds
  <2>. QED
      BY <2>1 DEF QuietStep, SentKinds
<1>3. SentOnce'
  <2>1. ASSUME NEW p \in Conn, NEW c \in Conn, msg'[p].type \in ForOne, Got(out', msg'[p], c)
        PROVE  pc'[p] \in {"idle", "ended"}
    <3>1. msg[p].type \in ForOne /\ Got(out, msg[p], c)
        BY <2>1 DEF QuietStep, Got
    <3>. QED
        BY <3>1 DEF KindInv, SentOnce, QuietStep
  <2>. QED
      BY <2>1 DEF SentOnce, Got
<1>4. SingleReceiver'
    BY DEF KindInv, QuietStep, SingleReceiver, Reached
<1>. QED
    BY <1>1, <1>2, <1>3, <1>4

\* Of a message that was just taken nobody has anything.
LEMMA FreshUnsent ==
  ASSUME OrderInv, NEW p \in Conn, DispatchStep(p), NEW c \in Conn
  PROVE  ~Got(out, msg'[p], c)
<1> SUFFICES ASSUME NEW i \in 1..Len(out[c]),
                    out[c][i].from = p, out[c][i].seq = msg[p].seq + 1
             PROVE  FALSE
    BY DEF Got, DispatchStep
<1>1. Behind(out[c][i], c) /\ msg[p].seq \in Nat
    BY MsgElement DEF OrderInv, AllBehind
<1>. QED
    BY <1>1 DEF Behind

LEMMA KindTake ==
  ASSUME KindInv, NEW p \in Conn, DispatchStep(p)
  PROVE  Taken' /\ SentKinds' /\ SentOnce' /\ SingleReceiver'
<1> USE DEF KindInv
<1>1. Taken'
    BY MsgElement DEF OrderInv, DispatchStep, Taken
<1>2. SentKinds'
  <2>1. ASSUME NEW c \in Conn, NEW i \in 1..Len(out[c])
        PROVE  /\ out[c][i].type # "TASKREG"
               /\ out[c][i].seq = msg'[out[c][i].from].seq
                    => out[c][i].type = msg'[out[c][i].from].type
    <3>1. out[c][i].from \in Conn /\ out[c][i].seq \in Nat
        BY OutElement DEF OrderInv
    <3>2. CASE out[c][i].from = p
        BY <3>2, FreshUnsent DEF DispatchStep, Got, SentKinds
    <3>3. CASE out[c][i].from # p
        BY <3>1, <3>3 DEF DispatchStep, SentKinds
    <3>. QED
        BY <3>2, <3>3
  <2>. QED
      BY <2>1 DEF DispatchStep, SentKinds
<1>3. SentOnce'
  <2>1. ASSUME NEW q \in Conn, NEW c \in Conn, msg'[q].type \in ForOne, Got(out', msg'[q], c)
        PROVE  pc'[q] \in {"idle", "ended"}
    <3>1. Got(out, msg'[q], c)
        BY <2>1 DEF DispatchStep
    <3>2. q # p
        BY <3>1, FreshUnsent
    <3>. QED
        BY <2>1, <3>1, <3>2 DEF DispatchStep, SentOnce
  <2>. QED
      BY <2>1 DEF SentOnce, Got
<1>4. SingleReceiver'
    BY DEF DispatchStep, SingleReceiver, Reached
<1>. QED
    BY <1>1, <1>2, <1>3, <1>4

\* A stream after a message was sent.
LEMMA SentElements ==
  ASSUME OrderInv, NEW p \in Conn, NEW n \in Conn, SendStep(p, n)
  PROVE  \A c \in Conn :
           /\ \A i \in 1..Len(out'[c]) :
                \/ i \in 1..Len(out[c]) /\ out'[c][i] = out[c][i]
                \/ c = n /\ out'[c][i] = msg[p]
           /\ \A k : Got(out', k, c) <=>
                       Got(out, k, c) \/ (c = n /\ k.from = msg[p].from /\ k.seq = msg[p].seq)
<1>1. out[n] \in Seq(Message) /\ out'[n] = Append(out[n], msg[p]) /\ msg[p] \in Message
      /\ \A c \in Conn : c # n => out'[c] = out[c]
    BY MsgElement DEF OrderInv, TypeOK, NetType, SendStep
<1>2. /\ Len(out[n]) \in Nat /\ Len(out'[n]) = Len(out[n]) + 1
      /\ \A i \in 1..Len(out[n]) : out'[n][i] = out[n][i]
      /\ out'[n][Len(out[n]) + 1] = msg[p]
    BY <1>1, AppendElement
<1>3. 1..Len(out'[n]) = 1..Len(out[n]) \union {Len(out[n]) + 1}
    BY <1>2
<1>. QED
    BY <1>1, <1>2, <1>3 DEF Got

LEMMA KindSend ==
  ASSUME KindInv, NEW p \in Conn, NEW n \in Conn, SendStep(p, n)
  PROVE  Taken' /\ SentKinds' /\ SentOnce' /\ SingleReceiver'
<1> USE DEF KindInv
<1>1. msg[p].from = p /\ msg' = msg
    BY DEF OrderInv, OwnMessages, Own, SendStep
<1>2. Taken'
    BY DEF SendStep, Taken, Resting
<1>3. msg[p].type # "TASKREG"
  <2>1. pc[p] \in {"relay", "aliveSend", "send"} /\ Fits(msg[p].type, pc[p])
      BY DEF SendStep, HandlerMatches
  <2>. QED
      BY <2>1 DEF Fits
<1>4. SentKinds'
  <2>1. OrderInv /\ SentKinds
      OBVIOUS
  <2>2. ASSUME NEW c \in Conn, NEW i \in 1..Len(out'[c])
        PROVE  /\ out'[c][i].type # "TASKREG"
               /\ out'[c][i].seq = msg[out'[c][i].from].seq
                    => out'[c][i].type = msg[out'[c][i].from].type
    <3>1. CASE i \in 1..Len(out[c]) /\ out'[c][i] = out[c][i]
        BY <2>1, <3>1 DEF SentKinds
    <3>2. CASE out'[c][i] = msg[p]
        BY <1>1, <1>3, <3>2
    <3>. HIDE DEF KindInv
    <3>. QED
        BY <2>1, <2>2, <3>1, <3>2, SentElements
  <2>. QED
      BY <1>1, <2>2 DEF SentKinds
<1>5. SentOnce'
  <2>1. ASSUME NEW q \in Conn, NEW c \in Conn, msg[q].type \in ForOne, Got(out', msg[q], c)
        PROVE  pc'[q] \in {"idle", "ended"}
    <3>1. CASE q = p
        BY <2>1, <3>1 DEF SendStep
    <3>2. CASE q # p
      <4>1. msg[q].from = q
          BY DEF OrderInv, OwnMessages, Own
      <4>2. Got(out, msg[q], c)
          BY <1>1, <2>1, <3>2, <4>1, SentElements
      <4>. QED
          BY <2>1, <3>2, <4>2 DEF SendStep, SentOnce
    <3>. QED
        BY <3>1, <3>2
  <2>. QED
      BY <1>1, <2>1 DEF SentOnce, Got
<1>6. SingleReceiver'
  <2>1. msg[p].type \in ForOne => \A c \in Conn : ~Got(out, msg[p], c)
      BY DEF SendStep, SentOnce
  <2>2. ASSUME NEW c \in Conn, NEW d \in Conn, NEW i \in 1..Len(out'[c]), c # d,
               out'[c][i].type \in ForOne, Got(out', out'[c][i], d)
        PROVE  FALSE
    <3>1. CASE i \in 1..Len(out[c]) /\ out'[c][i] = out[c][i]
      <4>1. ~Got(out, out[c][i], d)
          BY <2>2, <3>1 DEF SingleReceiver, Reached, Got, ForOne
      <4>2. out[c][i].from = p /\ out[c][i].seq = msg[p].seq
          BY <1>1, <2>2, <3>1, <4>1, SentElements
      <4>3. Got(out, msg[p], c) /\ out[c][i].type = msg[p].type
          BY <1>1, <3>1, <4>2 DEF Got, SentKinds
      <4>. QED
          BY <2>1, <2>2, <3>1, <4>3
    <3>2. CASE c = n /\ out'[c][i] = msg[p]
      <4>1. Got(out, msg[p], d)
          BY <2>2, <3>2, SentElements
      <4>. QED
          BY <2>1, <2>2, <3>2, <4>1
    <3>. QED
        BY <2>2, <3>1, <3>2, SentElements
  <2>. QED
      BY <1>4, <2>2 DEF SingleReceiver, Reached, Got, ForOne, SentKinds
<1>. QED
    BY <1>2, <1>4, <1>5, <1>6

LEMMA KindNext ==
  ASSUME KindInv, [Next]_vars
  PROVE  KindInv'
<1>1. OrderInv' /\ HandlerMatches'
    BY TypeNext, OwnNext, OrderNext, HandlerNext DEF KindInv, OrderInv
<1>3. QuietInv'
    BY QuietNext DEF KindInv
<1>2. Taken' /\ SentKinds' /\ SentOnce' /\ SingleReceiver'
    BY StepShape, KindQuiet, KindTake, KindSend DEF KindInv
<1>. QED
    BY <1>1, <1>2, <1>3 DEF KindInv

\* KindInv holds in every behaviour.
LEMMA KindAlways == Spec => []KindInv
<1>1. Init => KindInv
    BY TypeInit, OrderInit, QuietInit, KindInit DEF KindInv, OrderInv, QuietInv
<1>. QED
    BY <1>1, KindNext, PTL DEF Spec

\* A TARGET message and an alive answer have one receiver at most, whatever
\* numbers the clients take or give up during the walk, and a TASKREG none
\* (the breaks of SendMessagePort and GetAliveClient).
THEOREM ReceiverSingle == Spec => []SingleReceiver
<1>1. KindInv => SingleReceiver
    BY DEF KindInv
<1>. QED
    BY <1>1, KindAlways, PTL

-----------------------------------------------------------------------------
(* The server implements MessageRelay: a Dispatch serves the next message, a send
   to an open connection hands it out, a reset may lose the first connection, a
   step from an erased node loosens its thread, and every other step stutters. *)

ViewServing == [p \in Conn |-> msg[p].seq]
ViewKind    == [p \in Conn |-> KindOf(msg[p])]
ViewGiven   == [p \in Conn |-> {c \in Conn : Reached(msg[p], c)}]
ViewOf(s)   == [i \in 1..Len(s) |-> <<s[i].from, s[i].seq>>]
ViewStream  == [c \in Conn |-> ViewOf(out[c])]

\* The view of a stream grows with the stream.
LEMMA ViewAppend ==
  ASSUME NEW s \in Seq(Message), NEW m \in Message
  PROVE  ViewOf(Append(s, m)) = Append(ViewOf(s), <<m.from, m.seq>>)
<1> DEFINE t == Append(s, m)  v == ViewOf(s)  e == <<m.from, m.seq>>
<1>1. /\ Len(s) \in Nat /\ Len(t) = Len(s) + 1
      /\ \A i \in 1..Len(s) : t[i] = s[i]
      /\ t[Len(s) + 1] = m
    BY AppendProperties
<1>2. v \in Seq(Conn \X Nat) /\ Len(v) = Len(s) /\ e \in Conn \X Nat
  <2>1. \A i \in 1..Len(s) : s[i] \in Message
      OBVIOUS
  <2>. QED
      BY <1>1, <2>1 DEF ViewOf, Message
<1>3. /\ Append(v, e) \in Seq(Conn \X Nat) /\ Len(Append(v, e)) = Len(s) + 1
      /\ \A i \in 1..Len(s) : Append(v, e)[i] = v[i]
      /\ Append(v, e)[Len(s) + 1] = e
    BY <1>2, AppendProperties
<1>4. ViewOf(t) \in Seq(Conn \X Nat) /\ Len(ViewOf(t)) = Len(s) + 1
  <2>1. \A i \in 1..Len(t) : t[i] \in Message
      BY AppendProperties
  <2>. QED
      BY <1>1, <2>1 DEF ViewOf, Message
<1>5. \A i \in 1..(Len(s) + 1) : ViewOf(t)[i] = Append(v, e)[i]
  <2>1. 1..(Len(s) + 1) = 1..Len(s) \union {Len(s) + 1}
      BY <1>1
  <2>. QED
      BY <1>1, <1>3, <2>1 DEF ViewOf
<1>. HIDE DEF t, v, e
<1>6. ViewOf(t) = Append(v, e)
    BY <1>3, <1>4, <1>5, SeqEqual
<1>. QED
    BY <1>6 DEF t, v, e

LEMMA ViewInit == Init => RelayView!Init
<1> SUFFICES ASSUME Init PROVE RelayView!Init
    OBVIOUS
<1>1. \A p \in Conn : msg[p] = ZeroMsg(p) /\ out[p] = <<>>
    BY DEF Init
<1>2. \A p \in Conn : msg[p].seq = 0 /\ msg[p].type = "BROADCAST"
  <2>1. \A p \in Conn : ZeroMsg(p).seq = 0 /\ ZeroMsg(p).type = "BROADCAST"
      BY DEF ZeroMsg
  <2>. QED
      BY <1>1, <2>1
<1>3. ViewServing = [p \in Conn |-> 0] /\ ViewKind = [p \in Conn |-> "ALL"]
    BY <1>2 DEF ViewServing, ViewKind, KindOf
<1>4. ViewGiven = [p \in Conn |-> {}]
    BY <1>1 DEF ViewGiven, Reached
<1>5. ViewStream = [c \in Conn |-> <<>>]
    BY <1>1 DEF ViewStream, ViewOf
<1>6. Quiet /\ wild = {}
    BY DEF Init, Quiet
<1>. QED
    BY <1>3, <1>4, <1>5, <1>6
    DEF RelayView!Init, ViewServing, ViewKind, ViewGiven, ViewStream, ViewOf

LEMMA ViewQuiet ==
  ASSUME KindInv, QuietStep
  PROVE  [RelayView!Next]_(RelayView!vars)
<1>1. ViewServing' = ViewServing
    BY DEF QuietStep, ViewServing
<1>2. ViewKind' = ViewKind
    BY DEF QuietStep, ViewKind, KindOf
<1>3. ViewGiven' = ViewGiven
    BY DEF QuietStep, ViewGiven, Reached
<1>4. ViewStream' = ViewStream
    BY DEF QuietStep, ViewStream, ViewOf
<1>5. CASE wild' = wild /\ (Quiet' <=> Quiet)
    BY <1>1, <1>2, <1>3, <1>4, <1>5
    DEF RelayView!vars, ViewServing, ViewKind, ViewGiven, ViewStream, ViewOf
<1>6. CASE wild' = wild /\ ~Quiet'
  <2>1. RelayView!Lose
      BY <1>1, <1>2, <1>3, <1>4, <1>6
      DEF RelayView!Lose, ViewServing, ViewKind, ViewGiven, ViewStream, ViewOf
  <2>. QED
      BY <2>1 DEF RelayView!Next
<1>7. ASSUME ~Quiet, ~Quiet', NEW p \in Conn, wild' = wild \union {p}
      PROVE  RelayView!Next
  <2>1. RelayView!Loosen(p)
      BY <1>1, <1>2, <1>3, <1>4, <1>7
      DEF RelayView!Loosen, RelayView!MayLoosen, ViewServing, ViewKind, ViewGiven, ViewStream,
          ViewOf
  <2>. QED
      BY <2>1 DEF RelayView!Next
<1>. QED
    BY <1>5, <1>6, <1>7 DEF QuietStep

LEMMA ViewTake ==
  ASSUME KindInv, NEW p \in Conn, DispatchStep(p)
  PROVE  RelayView!Next
<1>1. \A q \in Conn : q # p => msg'[q] = msg[q]
    BY DEF DispatchStep
<1>2. ViewServing' = [ViewServing EXCEPT ![p] = @ + 1]
    BY <1>1 DEF DispatchStep, ViewServing
<1>3. ViewKind' = [ViewKind EXCEPT ![p] = KindOf(msg'[p])]
    BY <1>1 DEF ViewKind, KindOf
<1>4. ViewGiven' = [ViewGiven EXCEPT ![p] = {}]
  <2>1. \A c \in Conn : ~Got(out, msg'[p], c)
      BY FreshUnsent DEF KindInv
  <2>2. \A q \in Conn : q # p => \A c \in Conn : Reached(msg[q], c)' <=> Reached(msg[q], c)
      BY <1>1 DEF DispatchStep, Reached
  <2>3. \A c \in Conn : ~Reached(msg[p], c)'
      BY <2>1 DEF DispatchStep, Reached, Got
  <2>. QED
      BY <2>2, <2>3 DEF ViewGiven
<1>5. ViewStream' = ViewStream
    BY DEF DispatchStep, ViewStream, ViewOf
<1>6. KindOf(msg'[p]) \in {"ALL", "ONE", "NONE"}
    BY DEF KindOf
<1>8. (Quiet' <=> Quiet) /\ wild' = wild \ {p}
    BY DEF DispatchStep, Quiet
<1>7. \A k : k = KindOf(msg'[p]) => RelayView!Serve(p, k)
    BY <1>2, <1>3, <1>4, <1>5, <1>8
    DEF RelayView!Serve, ViewServing, ViewKind, ViewGiven, ViewStream, ViewOf
<1>. QED
    BY <1>6, <1>7 DEF RelayView!Next, RelayView!Kind

LEMMA ViewSend ==
  ASSUME KindInv, NEW p \in Conn, NEW n \in Conn, SendStep(p, n)
  PROVE  RelayView!Next
<1> USE DEF KindInv
<1>1. msg[p].from = p /\ msg[p] \in Message /\ msg' = msg
    BY MsgElement DEF OrderInv, OwnMessages, Own, SendStep
<1>2. ViewServing[p] > 0
    BY DEF ViewServing, Taken, SendStep, Resting
<1>3. ViewKind[p] = "ALL" \/ (ViewKind[p] = "ONE" /\ ViewGiven[p] = {})
  <2>1. msg[p].type # "TASKREG"
      BY DEF SendStep, HandlerMatches, Fits
  <2>2. msg[p].type \in ForOne => \A c \in Conn : ~Got(out, msg[p], c)
      BY DEF SendStep, SentOnce
  <2>. QED
      BY <2>1, <2>2 DEF ViewKind, KindOf, ViewGiven, ForOne, Reached, Got
<1>4. n \in ViewGiven[p] => p \in wild'
    BY DEF SendStep, ViewGiven, Reached, Got
<1>5. ViewGiven' = [ViewGiven EXCEPT ![p] = @ \union {n}]
  <2>1. \A q \in Conn : q # p => msg[q].from # msg[p].from
      BY DEF OrderInv, OwnMessages, Own
  <2>2. \A q \in Conn : \A c \in Conn : Got(out', msg[q], c) <=>
          Got(out, msg[q], c) \/ (c = n /\ q = p)
      BY <2>1, SentElements
  <2>3. \A q \in Conn : \A c \in Conn : Reached(msg[q], c)' <=>
          Reached(msg[q], c) \/ (c = n /\ q = p)
      BY <1>1, <2>2 DEF Reached, Got
  <2>4. \A q \in Conn :
          ViewGiven'[q] = IF q = p THEN ViewGiven[q] \union {n} ELSE ViewGiven[q]
      BY <2>3 DEF ViewGiven
  <2>5. /\ ViewGiven = [q \in Conn |-> ViewGiven[q]]
        /\ ViewGiven' = [q \in Conn |-> ViewGiven'[q]]
      BY DEF ViewGiven
  <2>. QED
      BY <2>4, <2>5
<1>6. ViewStream' = [ViewStream EXCEPT ![n] = Append(@, <<p, ViewServing[p]>>)]
  <2>1. out[n] \in Seq(Message) /\ out' = [out EXCEPT ![n] = Append(@, msg[p])]
        /\ out \in [Conn -> Seq(Message)]
      BY DEF SendStep, OrderInv, TypeOK, NetType
  <2>2. ViewOf(out'[n]) = Append(ViewOf(out[n]), <<p, msg[p].seq>>)
      BY <1>1, <2>1, ViewAppend
  <2>3. \A c \in Conn : c # n => out'[c] = out[c]
      BY <2>1
  <2>. QED
      BY <2>2, <2>3 DEF ViewStream, ViewServing
<1>7. ViewServing' = ViewServing /\ ViewKind' = ViewKind
    BY <1>1 DEF ViewServing, ViewKind, KindOf
<1>9. (Quiet' <=> Quiet) /\ (wild' = wild \/ (~Quiet /\ wild' = wild \union {p}))
    BY DEF SendStep, Quiet
<1>8. RelayView!Hand(p, n)
    BY <1>2, <1>3, <1>4, <1>5, <1>6, <1>7, <1>9
    DEF RelayView!Hand, RelayView!MayLoosen, ViewServing, ViewKind, ViewGiven, ViewStream, ViewOf
<1>. QED
    BY <1>8 DEF RelayView!Next

LEMMA ViewNext ==
  ASSUME KindInv, [Next]_vars
  PROVE  [RelayView!Next]_(RelayView!vars)
<1>1. \/ QuietStep
      \/ \E p \in Conn : DispatchStep(p) \/ \E n \in Conn : SendStep(p, n)
    BY StepShape DEF KindInv
<1>. QED
    BY <1>1, ViewQuiet, ViewTake, ViewSend

\* Seen through RelayView, every behaviour of the server is one of MessageRelay:
\* per source one message after the other, each to whom it is for, and to nobody
\* twice unless a connection was lost and the walk of that message led astray.
THEOREM RelayImplemented == Spec => RelaysMessages
BY ViewNext, ViewInit, KindAlways, PTL DEF Spec, RelaysMessages, RelayView!Spec

-----------------------------------------------------------------------------
(* The server with the library that sends answers back, AliveLoop: receiving an
   answer is receiving a message, and shows nothing to the others. *)

LEMMA QuietReceive ==
  ASSUME QuietInv, TypeOK', NEW c \in Conn, NEW r, Receive(c, r)
  PROVE  QuietInv'
<1>1. /\ UNCHANGED <<accepted, listed, running, freed, pc, it, off, wild, crashed, sock>>
      /\ rx[c] = "run" /\ rx' = [rx EXCEPT ![c] = AfterRecv(c)]
    BY DEF Receive, listVars, procVars, histVars
<1>2. FutureQuiet'
    BY <1>1 DEF QuietInv, FutureQuiet
<1>3. ASSUME Undisturbed PROVE Undisturbed'
  <2>1. rx' = rx
      BY <1>1, <1>3 DEF AfterRecv, Undisturbed, QuietInv, TypeOK, ObjType
  <2>. QED
      BY <1>1, <1>3, <2>1 DEF Undisturbed, Astray
<1>. QED
    BY <1>1, <1>2, <1>3 DEF QuietInv, Quiet

LEMMA ReceiveQuiet ==
  ASSUME KindInv, NEW c \in Conn, NEW r, Sendable(r), Receive(c, r)
  PROVE  KindInv' /\ QuietStep
<1>1. UNCHANGED <<pc, msg, it, out>>
    BY DEF Receive, procVars
<1>2. QuietStep
    BY <1>1 DEF Receive, histVars, QuietStep, Quiet
<1>7. QuietInv'
    BY ReceiveType, QuietReceive DEF KindInv, OrderInv
<1>3. TypeOK'
    BY ReceiveType DEF KindInv, OrderInv
<1>4. OwnMessages'
    BY ReceiveOwn DEF KindInv, OrderInv
<1>5. AllBehind' /\ Strays' /\ SourceOrder' /\ HandlerMatches'
    BY <1>1 DEF Receive, histVars, KindInv, OrderInv, AllBehind, Behind, Came, Strays, SourceOrder,
                HandlerMatches
<1>6. Taken' /\ SentKinds' /\ SentOnce' /\ SingleReceiver'
    BY <1>2, KindQuiet DEF KindInv
<1>. QED
    BY <1>2, <1>3, <1>4, <1>5, <1>6, <1>7 DEF KindInv, OrderInv

LoopKindInv == KindInv /\ seen \in [Conn -> Nat]

LEMMA LoopKindNext ==
  ASSUME LoopKindInv, [LoopNext]_loopVars
  PROVE  LoopKindInv' /\ ([Next]_vars \/ QuietStep)
<1>1. CASE Next /\ UNCHANGED seen
    BY <1>1, KindNext DEF LoopKindInv
<1>2. ASSUME NEW c \in Conn, RecvMessagePort(c)
      PROVE  LoopKindInv' /\ ([Next]_vars \/ QuietStep)
  <2>1. out[c] \in Seq(Message)
      BY DEF LoopKindInv, KindInv, OrderInv, TypeOK, NetType
  <2>2. seen' \in [Conn -> Nat] /\ seen'[c] \in 1..Len(out[c])
    <3>1. Len(out[c]) \in Nat
        BY <2>1, LenProperties
    <3>. QED
        BY <1>2, <3>1 DEF RecvMessagePort, LoopKindInv
  <2>3. Sendable(out[c][seen'[c]])
      BY <2>1, <2>2, MessageSendable
  <2>4. CASE Receive(c, out[c][seen'[c]])
      BY <2>2, <2>3, <2>4, ReceiveQuiet DEF LoopKindInv
  <2>5. CASE UNCHANGED vars
      BY <2>2, <2>5, KindNext DEF LoopKindInv
  <2>. QED
      BY <1>2, <2>4, <2>5 DEF RecvMessagePort
<1>3. CASE UNCHANGED loopVars
    BY <1>3, KindNext DEF LoopKindInv, loopVars
<1>. QED
    BY <1>1, <1>2, <1>3 DEF LoopNext

LEMMA LoopKindAlways == LoopSpec => []LoopKindInv
<1>1. LoopInit => LoopKindInv
    BY TypeInit, OrderInit, QuietInit, KindInit
    DEF LoopInit, LoopKindInv, KindInv, OrderInv, QuietInv
<1>. QED
    BY <1>1, LoopKindNext, PTL DEF LoopSpec

\* An alive answer goes to one client at most, and no message overtakes another of
\* its sender, whatever answers come back as requests (RecvMessagePort).
THEOREM ReceiverSingleInLoop == LoopSpec => []SingleReceiver /\ []SourceOrder
<1>1. LoopKindInv => SingleReceiver /\ SourceOrder
    BY DEF LoopKindInv, KindInv, OrderInv
<1>. QED
    BY <1>1, LoopKindAlways, PTL

\* With the library in the loop the server still implements MessageRelay: an answer
\* that comes back reaches nobody twice but by a walk led astray.
THEOREM RelayImplementedInLoop == LoopSpec => RelaysMessages
<1>1. LoopKindInv /\ [LoopNext]_loopVars => [RelayView!Next]_(RelayView!vars)
  <2> SUFFICES ASSUME LoopKindInv, [LoopNext]_loopVars
               PROVE  [RelayView!Next]_(RelayView!vars)
      OBVIOUS
  <2>1. [Next]_vars \/ QuietStep
      BY LoopKindNext
  <2>. QED
      BY <2>1, ViewNext, ViewQuiet DEF LoopKindInv
<1>2. LoopInit => RelayView!Init
    BY ViewInit DEF LoopInit
<1>. QED
    BY <1>1, <1>2, LoopKindAlways, PTL DEF LoopSpec, RelaysMessages, RelayView!Spec

===============================================================================
