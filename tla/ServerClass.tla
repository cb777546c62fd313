----------------------------- MODULE ServerClass -----------------------------
(***************************************************************************)
(* The message server of DirectSever: one listening thread accepts         *)
(* connections and lists a ClientSock for each; every ClientSock has a     *)
(* receiving thread that queues what its peer sends and a processing       *)
(* thread that takes the queue in order and registers a task number,       *)
(* answers an alive request or relays the message to other clients.        *)
(*                                                                         *)
(* The processing threads all walk m_listClients without a lock: one step  *)
(* of a walk (advance the iterator, look at the client, send to it) is one *)
(* action, so walks, registrations and removals interleave freely.         *)
(*                                                                         *)
(* Connections are numbered by order of acceptance, which is also their    *)
(* order in the list (push_back).  0 is the position before the first      *)
(* node and End the one past the last.                                     *)
(*                                                                         *)
(* Undefined behaviour has two kinds of outcome: the process dies          *)
(* (crashed), or the thread goes on: a walk to any client ever accepted,   *)
(* and a thread of a freed client with what its memory held when it was    *)
(* freed (ClientSock lets its flag be anything).                           *)
(***************************************************************************)
EXTENDS Integers, Sequences, FiniteSets

CONSTANTS
  MaxConn,    \* bound: how many connections are ever accepted
  Quota,      \* bound: how many messages the peer of a connection sends
  MaxOut,     \* bound: a walk outside the list comes to no client that got so many
  Tasks,      \* the task numbers in use, a subset of the unsigned shorts
  MAXINDEX,   \* entries in the table of an alive request
  Requests,   \* Requests[c]: what the peer of connection c may send
  Leaving,    \* connections whose peer may close gracefully
  Slow,       \* connections whose peer may stop reading
  Faulty      \* connections that may be reset

UnsignedShort == 0..65535

Conn == 1..MaxConn
End  == MaxConn + 1

MsgType == {"BROADCAST", "TARGET", "TASKREG", "TASKALIVE", "SERVERDOWN"}

\* The part of a CMDMSG that decides what the server does with it.  alive is
\* the set of entries marked in the ALIVESTATE table of the message buffer.
Request == [type : MsgType, src : Tasks, dst : Tasks, alive : SUBSET Tasks]

\* A message on its way through the server: the request, the connection it
\* came from and its number among the messages of that connection.
Message == [type : MsgType, src : Tasks, dst : Tasks, alive : SUBSET Tasks,
            from : Conn, seq : Nat]

ASSUME BoundsAssumption ==
  /\ MaxConn \in Nat \ {0}
  /\ Quota \in [Conn -> Nat]
  /\ MAXINDEX \in Nat
  /\ MaxOut \in Nat
ASSUME TasksAssumption == Tasks \subseteq UnsignedShort /\ 0 \in Tasks
ASSUME RequestsAssumption == Requests \in [Conn -> SUBSET Request]
ASSUME FailuresAssumption ==
  Leaving \subseteq Conn /\ Slow \subseteq Conn /\ Faulty \subseteq Conn

VARIABLES
  accepted,   \* number of connections accepted so far
  listed,     \* the clients in m_listClients
  task,       \* ClientSock::tasknum, -1 while unregistered
  sock,       \* what the transport of a connection will answer
  full,       \* connections whose buffers are full, for their peer does not read
  que,        \* ClientSock::msgque
  sent,       \* number of messages received from a connection
  rx,         \* where the receiving thread of a client is
  running,    \* clients with m_stThreadRecv.bThreadFlag set
  freed,      \* clients whose ClientSock has been freed
  pc,         \* where the processing thread of a client is
  msg,        \* the message a processing thread has taken
  it,         \* the list iterator of a processing thread
  off,        \* threads whose iterator is in memory that is no node of the list
  out,        \* the messages that reached the peer of a connection
  crashed,    \* the process died of undefined behaviour
  \* History, read by no action:
  steady,     \* clients listed and unchanged since a walk began
  wild,       \* threads whose walk has stood on an erased node
  strayed,    \* the same of messages: connection and number
  clash       \* registrations that overlapped or stood on an erased node

netVars  == <<sock, full, sent, out>>
listVars == <<accepted, listed, task>>
objVars  == <<rx, running, freed, que>>
procVars == <<pc, msg, it, off>>
histVars == <<steady, wild, strayed, clash>>
vars     == <<netVars, listVars, objVars, procVars, histVars, crashed>>

RxState   == {"none", "run", "delete", "join", "stopproc", "ended"}
RegState  == {"regScan", "regSet"}
WalkState == RegState \union {"aliveFill", "aliveSend", "relay"}
PcState   == WalkState \union {"none", "idle", "send", "remove", "delete", "join", "ended"}

-----------------------------------------------------------------------------
(* The CMDMSG a processing thread holds before it takes its first message:
   the constructor clears every field. *)
ZeroMsg(p) == [type |-> "BROADCAST", src |-> 0, dst |-> 0, alive |-> {},
               from |-> p, seq |-> 0]

Init ==
  /\ accepted = 0
  /\ listed   = {}
  /\ task     = [c \in Conn |-> -1]
  /\ sock     = [c \in Conn |-> "none"]
  /\ que      = [c \in Conn |-> <<>>]
  /\ full     = {}
  /\ sent     = [c \in Conn |-> 0]
  /\ rx       = [c \in Conn |-> "none"]
  /\ running  = {}
  /\ freed    = {}
  /\ pc       = [c \in Conn |-> "none"]
  /\ msg      = [c \in Conn |-> ZeroMsg(c)]
  /\ it       = [c \in Conn |-> 0]
  /\ off      = {}
  /\ out      = [c \in Conn |-> <<>>]
  /\ crashed  = FALSE
  /\ steady   = [c \in Conn |-> {}]
  /\ wild     = {}
  /\ strayed  = {}
  /\ clash    = {}

-----------------------------------------------------------------------------
(* The peers and the network. *)

Close(c) ==
  /\ c \in Leaving
  /\ sock[c] = "open"
  /\ sock' = [sock EXCEPT ![c] = "closed"]
  /\ UNCHANGED <<full, sent, out, listVars, objVars, procVars, histVars, crashed>>

Reset(c) ==
  /\ c \in Faulty
  /\ sock[c] \in {"open", "closed"}
  /\ sock' = [sock EXCEPT ![c] = "reset"]
  /\ UNCHANGED <<full, sent, out, listVars, objVars, procVars, histVars, crashed>>

\* A peer stops reading, and the buffers on the way to it fill up; it may read again.
StopReading(c) ==
  /\ c \in Slow /\ sock[c] = "open"
  /\ full' = full \union {c}
  /\ UNCHANGED <<sock, sent, out, listVars, objVars, procVars, histVars, crashed>>

ReadAgain(c) ==
  /\ full' = full \ {c}
  /\ UNCHANGED <<sock, sent, out, listVars, objVars, procVars, histVars, crashed>>

-----------------------------------------------------------------------------
(* The listening thread.  A client is in the list before its threads run. *)

\* Mutant: the new client is not the one that is listed.
StartListenClient_ListsPrevious ==
  /\ accepted < MaxConn
  /\ accepted > 0 => rx[accepted] # "none"
  /\ accepted' = accepted + 1
  /\ listed'   = listed \union {accepted}
  /\ sock'     = [sock EXCEPT ![accepted'] = "open"]
  /\ UNCHANGED <<task, full, sent, out, objVars, procVars, histVars, crashed>>

\* accept, new ClientSock, SetSocket, AddClient
StartListenClient ==
  /\ accepted < MaxConn
  /\ accepted > 0 => rx[accepted] # "none"
  /\ accepted' = accepted + 1
  /\ listed'   = listed \union {accepted'}
  /\ sock'     = [sock EXCEPT ![accepted'] = "open"]
  /\ UNCHANGED <<task, full, sent, out, objVars, procVars, histVars, crashed>>

\* StartRecv; the receiving thread then starts the processing thread.
StartRecv(c) ==
  /\ c = accepted
  /\ rx[c] = "none"
  /\ rx'      = [rx EXCEPT ![c] = "run"]
  /\ running' = running \union {c}
  /\ pc'      = [pc EXCEPT ![c] = "idle"]
  /\ UNCHANGED <<que, freed, msg, it, off, netVars, listVars, histVars, crashed>>

-----------------------------------------------------------------------------
(* The receiving thread of a client (THREAD_MSGRECV).  The thread flag is
   looked at between two calls of recv. *)

AfterRecv(c) == IF c \in running THEN "run" ELSE "stopproc"

Receive(c, r) ==
  /\ rx[c] = "run"
  /\ sock[c] = "open"
  /\ sent[c] < Quota[c]
  /\ sent' = [sent EXCEPT ![c] = @ + 1]
  /\ que'  = [que EXCEPT ![c] =
                Append(@, [type |-> r.type, src |-> r.src, dst |-> r.dst,
                           alive |-> r.alive, from |-> c, seq |-> sent'[c]])]
  /\ rx'   = [rx EXCEPT ![c] = AfterRecv(c)]
  /\ UNCHANGED <<running, freed, sock, full, out, listVars, procVars, histVars, crashed>>

\* Mutant: a graceful close is handled like an error.
RecvClosed_AsError(c) ==
  /\ rx[c] = "run"
  /\ sock[c] = "closed"
  /\ rx' = [rx EXCEPT ![c] = IF listed = {} THEN "stopproc" ELSE "delete"]
  /\ listed' = listed \ {c}
  /\ UNCHANGED <<accepted, task, running, freed, que, netVars, procVars, histVars, crashed>>

\* recv returns 0: neither a message nor an error, the loop goes round.
RecvClosed(c) ==
  /\ rx[c] = "run"
  /\ sock[c] = "closed"
  /\ rx' = [rx EXCEPT ![c] = AfterRecv(c)]
  /\ UNCHANGED <<running, freed, que, netVars, listVars, procVars, histVars, crashed>>

\* Mutant: the loop is left without RemoveClient.
RecvError_KeepsClient(c) ==
  /\ rx[c] = "run"
  /\ sock[c] = "reset"
  /\ rx' = [rx EXCEPT ![c] = "stopproc"]
  /\ UNCHANGED <<running, freed, que, netVars, listVars, procVars, histVars, crashed>>

\* recv returns -1: RemoveClient(pMain) up to the release of the list lock.
RecvError(c) ==
  /\ rx[c] = "run"
  /\ sock[c] = "reset"
  /\ rx' = [rx EXCEPT ![c] = IF listed = {} THEN "stopproc" ELSE "delete"]
  /\ listed' = listed \ {c}
  /\ UNCHANGED <<accepted, task, running, freed, que, netVars, procVars, histVars, crashed>>

\* RemoveClient's delete runs ~ClientSock: StopRecv waits for the receiving
\* thread, which is this one, unless another thread cleared the flag before.
RecvDelete(c) ==
  /\ rx[c] = "delete"
  /\ IF c \in running
       THEN /\ running' = running \ {c}
            /\ rx' = [rx EXCEPT ![c] = "join"]
            /\ UNCHANGED freed
       ELSE /\ freed' = freed \union {c}
            /\ rx' = [rx EXCEPT ![c] = "stopproc"]
            /\ UNCHANGED running
  /\ UNCHANGED <<que, netVars, listVars, procVars, histVars, crashed>>

\* StopProc waits for the processing thread; on a freed object its flag and
\* its handle are whatever the memory holds, and the wait may be skipped.
RecvEnd(c) ==
  /\ rx[c] = "stopproc"
  /\ pc[c] = "ended" \/ c \in freed
  /\ rx' = [rx EXCEPT ![c] = "ended"]
  /\ UNCHANGED <<running, freed, que, netVars, listVars, procVars, histVars, crashed>>

-----------------------------------------------------------------------------
(* Walking m_listClients. *)

\* A walk stands on an erased node, or has got from one to where it is.
Astray(p) == p \in off \/ it[p] \in Conn \ listed

\* The node ++ leads to.  On an erased node it reads freed memory: an old link, or
\* that of a node which took the memory, of the list or of one of the copies that
\* the dialog makes of it.  All of these hold clients that were accepted, and a
\* copy leads anywhere among them, back too, and never to the end of the list.
NextNodes(p) ==
  LET after == {n \in listed : n > it[p]}
  IN  IF Astray(p)
        THEN {n \in 1..accepted : Len(out[n]) < MaxOut} \union {End}
        ELSE {n \in after \union {End} : \A k \in after : n <= k}

\* What a step that advances the iterator of p leaves of it, and its history.
NoteStep(p) ==
  /\ off'     = IF Astray(p) /\ it'[p] \in Conn THEN off \union {p} ELSE off \ {p}
  /\ wild'    = IF Astray(p) THEN wild \union {p} ELSE wild
  /\ strayed' = IF Astray(p) THEN strayed \union {<<p, msg[p].seq>>} ELSE strayed
  /\ clash'   = IF Astray(p) /\ pc[p] \in RegState THEN clash \union {p} ELSE clash

\* The walk of p goes on at n, or the handler of its message is left with n
\* as the last position.
MoveTo(p, n, where) ==
  /\ it' = [it EXCEPT ![p] = n]
  /\ pc' = [pc EXCEPT ![p] = where]

-----------------------------------------------------------------------------
(* The processing thread of a client (THREAD_MSGPROC). *)

\* Mutant: RegTask without its first loop.
HandlerOf_NoScan(m) == CASE m.type = "TASKREG"   -> "regSet"
                         [] m.type = "TASKALIVE" -> "aliveFill"
                         [] OTHER                -> "relay"

HandlerOf(m) == CASE m.type = "TASKREG"   -> "regScan"
                  [] m.type = "TASKALIVE" -> "aliveFill"
                  [] OTHER                -> "relay"

\* Mutant: the message is read but not popped.
Dispatch_NoPop(p) ==
  /\ pc[p] = "idle"
  /\ p \in running
  /\ que[p] # <<>>
  /\ msg' = [msg EXCEPT ![p] = Head(que[p])]
  /\ MoveTo(p, 0, HandlerOf(Head(que[p])))
  /\ steady' = [steady EXCEPT ![p] = listed]
  /\ wild'   = wild \ {p}
  /\ off'    = off \ {p}
  /\ clash'  = IF /\ Head(que[p]).type = "TASKREG"
                 /\ \E q \in Conn : pc[q] \in RegState
               THEN clash \union {p} ELSE clash
  /\ UNCHANGED <<que, rx, running, freed, strayed, netVars, listVars, crashed>>

\* Mutant: the newest message is taken and the oldest popped.
Dispatch_Newest(p) ==
  /\ pc[p] = "idle"
  /\ p \in running
  /\ que[p] # <<>>
  /\ que' = [que EXCEPT ![p] = Tail(@)]
  /\ msg' = [msg EXCEPT ![p] = que[p][Len(que[p])]]
  /\ MoveTo(p, 0, HandlerOf(que[p][Len(que[p])]))
  /\ steady' = [steady EXCEPT ![p] = listed]
  /\ wild'   = wild \ {p}
  /\ off'    = off \ {p}
  /\ clash'  = IF /\ Head(que[p]).type = "TASKREG"
                 /\ \E q \in Conn : pc[q] \in RegState
               THEN clash \union {p} ELSE clash
  /\ UNCHANGED <<rx, running, freed, strayed, netVars, listVars, crashed>>

Dispatch(p) ==
  /\ pc[p] = "idle"
  /\ p \in running
  /\ que[p] # <<>>
  /\ que' = [que EXCEPT ![p] = Tail(@)]
  /\ msg' = [msg EXCEPT ![p] = Head(que[p])]
  /\ MoveTo(p, 0, HandlerOf(Head(que[p])))
  /\ steady' = [steady EXCEPT ![p] = listed]
  /\ wild'   = wild \ {p}
  /\ off'    = off \ {p}
  /\ clash'  = IF /\ Head(que[p]).type = "TASKREG"
                 /\ \E q \in Conn : pc[q] \in RegState
               THEN clash \union {p} ELSE clash
  /\ UNCHANGED <<rx, running, freed, strayed, netVars, listVars, crashed>>

\* The thread looks at the flag of the receiving thread, never at its own.
ProcEnd(p) ==
  /\ pc[p] = "idle"
  /\ p \notin running
  /\ pc' = [pc EXCEPT ![p] = "ended"]
  /\ UNCHANGED <<msg, it, off, netVars, listVars, objVars, histVars, crashed>>

\* Mutant: the second loop goes on where the first ended.
RegScan_NoReset(p) ==
  /\ pc[p] = "regScan"
  /\ \E n \in NextNodes(p) :
       IF n = End
         THEN MoveTo(p, End, "regSet")
         ELSE MoveTo(p, n, IF task[n] = msg[p].src THEN "idle" ELSE "regScan")
  /\ NoteStep(p)
  /\ UNCHANGED <<msg, steady, netVars, listVars, objVars, crashed>>

\* RegTask, first loop: give up when a client already has the number.
RegScan(p) ==
  /\ pc[p] = "regScan"
  /\ \E n \in NextNodes(p) :
       IF n = End
         THEN MoveTo(p, 0, "regSet")
         ELSE MoveTo(p, n, IF task[n] = msg[p].src THEN "idle" ELSE "regScan")
  /\ NoteStep(p)
  /\ UNCHANGED <<msg, steady, netVars, listVars, objVars, crashed>>

\* RegTask, second loop: find the client with the socket of this one and set
\* its number.  Sockets are never closed by the server, so none is reused.
RegSet(p) ==
  /\ pc[p] = "regSet"
  /\ \E n \in NextNodes(p) :
       /\ MoveTo(p, n, IF n \in {p, End} THEN "idle" ELSE "regSet")
       /\ task' = IF n = p THEN [task EXCEPT ![p] = msg[p].src] ELSE task
       /\ steady' = [q \in Conn |->
             IF n = p /\ msg[q].type \in {"TARGET", "TASKALIVE"}
               THEN steady[q] \ {p} ELSE steady[q]]
  /\ NoteStep(p)
  /\ UNCHANGED <<msg, accepted, listed, netVars, objVars, crashed>>

\* Mutant: number 0 taken for unregistered.
AliveFill_FromOne(p) ==
  /\ pc[p] = "aliveFill"
  /\ \E n \in NextNodes(p) :
       IF n = End
         THEN MoveTo(p, 0, "aliveSend") /\ UNCHANGED msg
         ELSE /\ MoveTo(p, n, "aliveFill")
              /\ msg' = IF task[n] > 0 /\ task[n] < MAXINDEX
                          THEN [msg EXCEPT ![p].alive = @ \union {task[n]}]
                          ELSE msg
  /\ NoteStep(p)
  /\ UNCHANGED <<steady, netVars, listVars, objVars, crashed>>

\* Mutant: the entry is marked by the place of the client in the list.
AliveFill_ByPlace(p) ==
  /\ pc[p] = "aliveFill"
  /\ \E n \in NextNodes(p) :
       IF n = End
         THEN MoveTo(p, 0, "aliveSend") /\ UNCHANGED msg
         ELSE MoveTo(p, n, "aliveFill") /\ msg' = [msg EXCEPT ![p].alive = @ \union {n}]
  /\ NoteStep(p)
  /\ UNCHANGED <<steady, netVars, listVars, objVars, crashed>>

\* Mutant: the second loop goes on where the first ended.
AliveFill_NoReset(p) ==
  /\ pc[p] = "aliveFill"
  /\ \E n \in NextNodes(p) :
       IF n = End
         THEN MoveTo(p, End, "aliveSend") /\ UNCHANGED msg
         ELSE /\ MoveTo(p, n, "aliveFill")
              /\ msg' = IF task[n] > -1 /\ task[n] < MAXINDEX
                          THEN [msg EXCEPT ![p].alive = @ \union {task[n]}]
                          ELSE msg
  /\ NoteStep(p)
  /\ UNCHANGED <<steady, netVars, listVars, objVars, crashed>>

\* GetAliveClient, first loop: mark the number of each client in the table of
\* the thread's own copy of the request.
AliveFill(p) ==
  /\ pc[p] = "aliveFill"
  /\ \E n \in NextNodes(p) :
       IF n = End
         THEN MoveTo(p, 0, "aliveSend") /\ UNCHANGED msg
         ELSE /\ MoveTo(p, n, "aliveFill")
              /\ msg' = IF task[n] > -1 /\ task[n] < MAXINDEX
                          THEN [msg EXCEPT ![p].alive = @ \union {task[n]}]
                          ELSE msg
  /\ NoteStep(p)
  /\ UNCHANGED <<steady, netVars, listVars, objVars, crashed>>

\* send: what is written to a reset connection fails; a peer that has closed
\* gets nothing, and the call still succeeds.
SendTo(n, m) ==
  out' = IF sock[n] = "open" THEN [out EXCEPT ![n] = Append(@, m)] ELSE out

\* The socket is a blocking one: send does not return while the buffers are full.
Blocked(n) == n \in full /\ sock[n] # "reset"

\* Mutant: the loop goes on after a TARGET message was sent.
AfterSend_NoBreak(m, n) ==
  CASE m.type = "TASKALIVE" -> "idle"
    [] m.type = "TARGET"    -> "relay"
    [] OTHER                -> IF sock[n] = "reset" THEN "remove" ELSE "relay"

\* Mutant: the loop is left once a send failed.
AfterSend_BreakOnError(m, n) ==
  CASE m.type = "TASKALIVE" -> "idle"
    [] OTHER                -> IF sock[n] = "reset" THEN "idle" ELSE "relay"

\* Mutant: the break of the TARGET branch after the if, not in it.
AfterSend_Break(m, n) ==
  CASE m.type = "TASKALIVE" -> "idle"
    [] m.type = "TARGET"    -> IF sock[n] = "reset" THEN "relay" ELSE "idle"
    [] OTHER                -> IF sock[n] = "reset" THEN "remove" ELSE "idle"

\* Where a handler goes on after its send to n.
AfterSend(m, n) ==
  CASE m.type = "TASKALIVE" -> "idle"
    [] m.type = "TARGET"    -> IF sock[n] = "reset" THEN "relay" ELSE "idle"
    [] OTHER                -> IF sock[n] = "reset" THEN "remove" ELSE "relay"

\* The handler of p comes to n and sends to it, or waits in send.
Send(p, n) ==
  IF Blocked(n)
    THEN MoveTo(p, n, "send") /\ UNCHANGED out
    ELSE MoveTo(p, n, AfterSend(msg[p], n)) /\ SendTo(n, msg[p])

\* A send that had to wait returns.
SendReturns(p) ==
  /\ pc[p] = "send"
  /\ ~Blocked(it[p])
  /\ pc' = [pc EXCEPT ![p] = AfterSend(msg[p], it[p])]
  /\ SendTo(it[p], msg[p])
  /\ UNCHANGED <<msg, it, off, sock, full, sent, listVars, objVars, histVars, crashed>>

\* Mutant: the loop runs into the end of the list and never stops.
AliveSend_NoEnd(p) ==
  /\ pc[p] = "aliveSend"
  /\ \E n \in NextNodes(p) :
       IF n \in Conn /\ task[n] = msg[p].src
         THEN Send(p, n)
         ELSE MoveTo(p, n, "aliveSend") /\ UNCHANGED out
  /\ NoteStep(p)
  /\ UNCHANGED <<msg, steady, sock, full, sent, listVars, objVars, crashed>>

\* Mutant: every client is answered, whatever its number.
AliveSend_All(p) ==
  /\ pc[p] = "aliveSend"
  /\ \E n \in NextNodes(p) :
       IF n \in Conn
         THEN SendTo(n, msg[p]) /\ MoveTo(p, n, "aliveSend")
         ELSE MoveTo(p, n, "idle") /\ UNCHANGED out
  /\ NoteStep(p)
  /\ UNCHANGED <<msg, steady, sock, full, sent, listVars, objVars, crashed>>

\* GetAliveClient, second loop: answer the first client that has the number
\* the request gives as its source.
AliveSend(p) ==
  /\ pc[p] = "aliveSend"
  /\ \E n \in NextNodes(p) :
       IF n \in Conn /\ task[n] = msg[p].src
         THEN Send(p, n)
         ELSE MoveTo(p, n, IF n = End THEN "idle" ELSE "aliveSend") /\ UNCHANGED out
  /\ NoteStep(p)
  /\ UNCHANGED <<msg, steady, sock, full, sent, listVars, objVars, crashed>>

\* Mutant: the loop is left at the first registered client.
RelayTarget_BreakEarly(p, n) ==
  IF task[n] = msg[p].dst
    THEN Send(p, n)
    ELSE MoveTo(p, n, IF task[n] # -1 THEN "idle" ELSE "relay") /\ UNCHANGED out

\* One turn of the loop of SendMessagePort with a TARGET message.
RelayTarget(p, n) ==
  IF task[n] = msg[p].dst
    THEN Send(p, n)
    ELSE MoveTo(p, n, "relay") /\ UNCHANGED out

\* SendMessagePort: a TARGET message to the first client that has the number and
\* to which it can be sent, any other to every client.
Relay(p) ==
  /\ pc[p] = "relay"
  /\ \E n \in NextNodes(p) :
       CASE n = End -> MoveTo(p, End, "idle") /\ UNCHANGED out
         [] n # End /\ msg[p].type = "TARGET" -> RelayTarget(p, n)
         [] n # End /\ msg[p].type # "TARGET" -> Send(p, n)
  /\ NoteStep(p)
  /\ UNCHANGED <<msg, steady, sock, full, sent, listVars, objVars, crashed>>

-----------------------------------------------------------------------------
(* RemoveClient of the client at the iterator, called from the loop of SendMessagePort. *)

\* Mutant: the object is deleted before its node is erased.
Remove_DeleteFirst(p) ==
  /\ pc[p] = "remove"
  /\ pc' = [pc EXCEPT ![p] = IF listed = {} THEN "relay" ELSE "delete"]
  /\ UNCHANGED <<msg, it, off, netVars, listVars, objVars, histVars, crashed>>

\* Up to the release of the list lock.
Remove(p) ==
  /\ pc[p] = "remove"
  /\ listed' = listed \ {it[p]}
  /\ pc' = [pc EXCEPT ![p] = IF listed = {} THEN "relay" ELSE "delete"]
  /\ UNCHANGED <<accepted, task, msg, it, off, netVars, objVars, histVars, crashed>>

\* delete, after the lock: ~ClientSock clears the flag and waits for the
\* receiving thread; with the flag already clear it does not wait.
Delete(p) ==
  /\ pc[p] = "delete"
  /\ IF it[p] \in running
       THEN /\ running' = running \ {it[p]}
            /\ pc' = [pc EXCEPT ![p] = "join"]
            /\ UNCHANGED freed
       ELSE /\ freed' = freed \union {it[p]}
            /\ pc' = [pc EXCEPT ![p] = "relay"]
            /\ UNCHANGED running
  /\ UNCHANGED <<rx, que, msg, it, off, netVars, listVars, histVars, crashed>>

\* The receiving thread has ended: the rest of ~ClientSock, and the loop.
Join(p) ==
  /\ pc[p] = "join"
  /\ rx[it[p]] = "ended"
  /\ freed' = freed \union {it[p]}
  /\ pc' = [pc EXCEPT ![p] = "relay"]
  /\ UNCHANGED <<rx, running, que, msg, it, off, netVars, listVars, histVars, crashed>>

-----------------------------------------------------------------------------
(* Undefined behaviour that ends the process. *)

\* A walk reads the node it stands on after it was erased.
NodeFault(p) == pc[p] \in WalkState /\ Astray(p)

\* A thread of c, the listener about to start it, or a second destroyer
\* touches the ClientSock of c after it was freed.
ObjFault(c) ==
  /\ c \in freed
  /\ \/ rx[c] \notin {"join", "ended"}
     \/ pc[c] \notin {"none", "ended"}
     \/ \E p \in Conn : it[p] = c /\ pc[p] \in {"delete", "join"}

Fault ==
  /\ \E c \in Conn : NodeFault(c) \/ ObjFault(c)
  /\ crashed' = TRUE
  /\ UNCHANGED <<netVars, listVars, objVars, procVars, histVars>>

-----------------------------------------------------------------------------
RxStep(c)   == RecvClosed(c) \/ RecvError(c) \/ RecvDelete(c) \/ RecvEnd(c)
ProcStep(p) == Dispatch(p) \/ ProcEnd(p) \/ RegScan(p) \/ RegSet(p) \/ AliveFill(p)
               \/ AliveSend(p) \/ Relay(p) \/ SendReturns(p) \/ Remove(p) \/ Delete(p) \/ Join(p)

Next ==
  /\ ~crashed
  /\ \/ StartListenClient
     \/ Fault
     \/ \E c \in Conn :
          \/ Close(c)
          \/ Reset(c)
          \/ StopReading(c)
          \/ ReadAgain(c)
          \/ StartRecv(c)
          \/ \E r \in Requests[c] : Receive(c, r)
          \/ RxStep(c)
          \/ ProcStep(c)

\* Windows schedules every thread that can run; a thread that waits in send cannot.
\* Peers, connections and the network promise nothing.
Fairness ==
  \A c \in Conn :
    /\ WF_vars(~crashed /\ StartRecv(c))
    /\ WF_vars(~crashed /\ RxStep(c))
    /\ WF_vars(~crashed /\ ProcStep(c))

Spec     == Init /\ [][Next]_vars
FairSpec == Spec /\ Fairness

-----------------------------------------------------------------------------
(* Types. *)
NetType ==
  /\ sock \in [Conn -> {"none", "open", "closed", "reset"}]
  /\ full \subseteq Conn
  /\ sent \in [Conn -> Nat]
  /\ out \in [Conn -> Seq(Message)]

ListType ==
  /\ accepted \in 0..MaxConn
  /\ listed \subseteq 1..accepted
  /\ task \in [Conn -> Tasks \union {-1}]

ObjType ==
  /\ rx \in [Conn -> RxState]
  /\ running \subseteq Conn
  /\ freed \subseteq Conn
  /\ que \in [Conn -> Seq(Message)]

ProcType ==
  /\ pc \in [Conn -> PcState]
  /\ msg \in [Conn -> Message]
  /\ it \in [Conn -> 0..End]
  /\ \A p \in Conn : pc[p] \in {"send", "remove", "delete", "join"} => it[p] \in Conn
  /\ off \subseteq Conn

HistType ==
  /\ steady \in [Conn -> SUBSET Conn]
  /\ wild \subseteq Conn
  /\ strayed \subseteq Conn \X Nat
  /\ clash \subseteq Conn

TypeOK == NetType /\ ListType /\ ObjType /\ ProcType /\ HistType /\ crashed \in BOOLEAN

-----------------------------------------------------------------------------
(* Properties. *)

\* m reached the peer of c.
Reached(m, c) ==
  \E i \in 1..Len(out[c]) : out[c][i].from = m.from /\ out[c][i].seq = m.seq

\* The messages of one client reach any other client in the order they were sent,
\* a queue per client and one thread taking it; and none of them twice, unless its
\* own walk was led astray by a node erased under it.
SourceOrder ==
  \A c \in Conn : \A i, j \in 1..Len(out[c]) :
    i < j /\ out[c][i].from = out[c][j].from =>
      \/ out[c][i].seq < out[c][j].seq
      \/ out[c][i].seq = out[c][j].seq /\ <<out[c][i].from, out[c][i].seq>> \in strayed

\* A TARGET message and the answer to a TASKALIVE request reach one client at
\* most, and a TASKREG message reaches none.
SingleReceiver ==
  \A c, d \in Conn : \A i \in 1..Len(out[c]) :
    /\ out[c][i].type # "TASKREG"
    /\ out[c][i].type \in {"TARGET", "TASKALIVE"} /\ c # d => ~Reached(out[c][i], d)

\* The walk that p made or makes for its message is past c.
Passed(p, c) == c < it[p] \/ (c = it[p] /\ pc[p] # "send") \/ pc[p] = "idle"

\* As far as its walk has come, a broadcast has reached every open client
\* that was in the list when it began and still is: clients that join, leave
\* or are removed meanwhile make it miss nobody else.
BroadcastComplete ==
  \A p \in Conn : \A c \in steady[p] \intersect listed :
    /\ msg[p].type \in {"BROADCAST", "SERVERDOWN"}
    /\ p \notin wild /\ Passed(p, c)
    /\ sock[c] = "open"
    => Reached(msg[p], c)

\* The walk of p has ended before c, at a client whose connection was over: what
\* is sent to a peer that has closed counts as sent, and the loop is left.
Swallowed(p, c) ==
  pc[p] = "idle" /\ it[p] \in Conn /\ it[p] < c /\ sock[it[p]] \in {"closed", "reset"}

\* A TARGET message has reached somebody once its walk has passed an open
\* client that held the number all along, or it went to a client before that
\* one which had closed its connection and still holds the number.
TargetReached ==
  \A p \in Conn : \A c \in steady[p] \intersect listed :
    /\ msg[p].type = "TARGET" /\ pc[p] \in {"relay", "send", "idle"}
    /\ p \notin wild /\ Passed(p, c)
    /\ sock[c] = "open" /\ task[c] = msg[p].dst
    => Swallowed(p, c) \/ \E d \in Conn : Reached(msg[p], d)

\* An alive request is answered once the second walk has passed an open client
\* that held the number of the requester all along, or the answer went to a client
\* before that one which held it too and whose connection was over.
AnswerReached ==
  \A p \in Conn : \A c \in steady[p] \intersect listed :
    /\ msg[p].type = "TASKALIVE" /\ pc[p] \in {"aliveSend", "send", "idle"}
    /\ p \notin wild /\ Passed(p, c)
    /\ sock[c] = "open" /\ task[c] = msg[p].src
    => Swallowed(p, c) \/ \E d \in Conn : Reached(msg[p], d)

\* The table of an alive answer has the number of every client that held it
\* from the beginning of the walk on and fits in the table.
AliveComplete ==
  \A p \in Conn : \A c \in steady[p] \intersect listed :
    /\ pc[p] = "aliveSend" /\ p \notin wild
    /\ task[c] \in 0..(MAXINDEX - 1)
    => task[c] \in msg[p].alive

\* Two listed clients never hold one task number, as long as registrations
\* do not overlap: RegTask looks and then sets without a lock.
UniqueUnlessClash ==
  clash = {} => \A c, d \in listed : c # d /\ task[c] # -1 => task[c] # task[d]

\* RegTask never ends with nothing done for a client in the list: when it returns,
\* the client has got the number, or another listed client has it, whoever
\* joined or left in front of its two walks.
RegistrationAnswered ==
  [][\A p \in listed : pc[p] \in RegState /\ pc'[p] = "idle" /\ p \notin wild'
       => \E c \in listed : task'[c] = msg[p].src]_vars

\* An object that RemoveClient destroys can no longer be found: a thread of a client
\* that frees it or waits for its receiving thread has taken it off the list before.
DestroyedOnlyUnlisted ==
  /\ listed \intersect freed = {}
  /\ \A p \in Conn : pc[p] \in {"delete", "join"} => it[p] \notin listed
  /\ \A c \in Conn : rx[c] \in {"delete", "join"} => c \notin listed

Quiet == \A c \in Conn : sock[c] # "reset"

\* As long as no connection is reset, nothing is removed, freed or read after
\* it was erased: a peer that closes in an orderly way disturbs nobody.
QuietIsSafe ==
  Quiet => ~crashed /\ freed = {} /\ listed = 1..accepted /\ wild = {}

\* The relay as its clients see it, MessageRelay: per source one message after
\* the other, to ALL, ONE or NONE, and to nobody twice but by a walk that has been
\* led astray, for which a connection must have been lost.
KindOf(m) == CASE m.type = "TASKREG"                -> "NONE"
               [] m.type \in {"TARGET", "TASKALIVE"} -> "ONE"
               [] OTHER                             -> "ALL"

RelayView == INSTANCE MessageRelay WITH
  Sources   <- Conn,
  Receivers <- Conn,
  serving   <- [p \in Conn |-> msg[p].seq],
  kind      <- [p \in Conn |-> KindOf(msg[p])],
  given     <- [p \in Conn |-> {c \in Conn : Reached(msg[p], c)}],
  lost      <- ~Quiet,
  loose     <- wild,
  stream    <- [c \in Conn |-> [i \in 1..Len(out[c]) |-> <<out[c][i].from, out[c][i].seq>>]]

RelaysMessages == RelayView!Spec

\* A client whose connection was reset leaves the list, or the process died.
ResetUnlisted ==
  \A c \in Conn : sock[c] = "reset" ~> (c \notin listed \/ crashed)

\* Every message received is taken by the processing thread and its handler
\* returns, as long as no connection is ever reset and every peer that has stopped
\* reading reads again in the end: a send to one that never does does not return.
AllHandled ==
  <>[](full = {}) =>
    \A c \in Conn : \A k \in 1..Quota[c] :
      sent[c] = k ~> \/ msg[c].seq >= k /\ pc[c] = "idle"
                    \/ \E d \in Conn : sock[d] = "reset"

=============================================================================
