------------------------------ MODULE ClientLib ------------------------------
(***************************************************************************)
(* The client library (_lib_DirectClient.cpp) in a client program: the     *)
(* connecting thread of the dialog, which calls _lib_Connect once a        *)
(* second, and the receiving threads that successful calls start.  All of  *)
(* them share the globals of the library, without a lock: one action is    *)
(* one read or write of a global, or one call of Winsock.                  *)
(*                                                                         *)
(* Sockets are numbered in the order they are created; g_sock names the    *)
(* last one, and the receiving thread started for a socket has its number. *)
(* A socket whose connect failed gives its number back.                    *)
(***************************************************************************)
EXTENDS Naturals, Sequences

CONSTANTS
  MaxSock,   \* bound: how many connections are made
  MaxSent    \* bound: how many messages the server sends

ASSUME BoundsAssumption == MaxSock \in Nat \ {0} /\ MaxSent \in Nat

Sock == 1..MaxSock

\* SERVERDOWN stands for the message with return status 1, the only one the
\* server makes; whatever the library just hands on is DATA.
Kinds   == {"DATA", "TASKALIVE", "SERVERDOWN"}
Message == [kind : Kinds, id : 0..MaxSent]
ZeroMsg == [kind |-> "DATA", id |-> 0]

VARIABLES
  connected,  \* g_bIsConnected
  sock,       \* g_sock, 0 before the first call
  msg,        \* g_stMsg
  callback,   \* g_callback is set
  handle,     \* the receiving thread g_ThreadParam.hThread stands for, 0 for none
  con,        \* where the connecting thread is
  rcv,        \* where each receiving thread is
  at,         \* the socket its recv was called with
  enabled,    \* the controls of the dialog
  conn,       \* what Winsock knows of a socket
  stream,     \* messages on their way to the client
  sent,       \* number of messages the server has sent
  listening,  \* a server listens
  \* History, read by no action:
  got,        \* ids of the messages received
  calls,      \* ids the callback was called with, the first MaxSent + 1 of them
  empty,      \* some recv has returned 0
  twins       \* a receiving thread was started while another one was alive

libVars  == <<connected, sock, msg, callback, handle>>
thrVars  == <<con, rcv, at, enabled>>
netVars  == <<conn, stream, sent, listening>>
histVars == <<got, calls, empty, twins>>
vars     == <<libVars, thrVars, netVars, histVars>>

ConState == {"test", "socket", "connect", "mark", "register", "start", "store",
             "release", "enable", "disable"}
Gone     == {"none", "ended", "killed"}
RcvState == Gone \union {"recv", "wait", "switch", "terminate", "test", "close",
                         "mark", "echo", "callback"}

\* States of a socket: connected ones are up, or lost by the end of the server
\* (fin) or an error (rst); closed is what closesocket leaves of them.
Lost == {"fin", "rst"}
Held == {"up"} \union Lost

Init ==
  /\ connected = FALSE /\ sock = 0 /\ msg = ZeroMsg /\ callback = FALSE
  /\ handle = 0
  /\ con = "test" /\ rcv = [s \in Sock |-> "none"] /\ at = [s \in Sock |-> 0]
  /\ enabled = TRUE
  /\ conn = [s \in Sock |-> "none"] /\ stream = [s \in Sock |-> <<>>]
  /\ sent = 0 /\ listening = FALSE
  /\ got = <<>> /\ calls = <<>> /\ empty = FALSE /\ twins = FALSE

-----------------------------------------------------------------------------
(* The server and the network. *)

ServerStarts ==
  /\ ~listening /\ listening' = TRUE
  /\ UNCHANGED <<libVars, thrVars, conn, stream, sent, histVars>>

\* The end of the process closes its sockets, in one way or the other.
ServerExits ==
  /\ listening /\ listening' = FALSE
  /\ \E how \in Lost : conn' = [s \in Sock |-> IF conn[s] = "up" THEN how ELSE conn[s]]
  /\ UNCHANGED <<libVars, thrVars, stream, sent, histVars>>

NetworkBreaks(s) ==
  /\ conn[s] = "up"
  /\ conn' = [conn EXCEPT ![s] = "rst"]
  /\ UNCHANGED <<libVars, thrVars, stream, sent, listening, histVars>>

ServerSends(s, k) ==
  /\ conn[s] = "up" /\ sent < MaxSent
  /\ sent' = sent + 1
  /\ stream' = [stream EXCEPT ![s] = Append(@, [kind |-> k, id |-> sent'])]
  /\ UNCHANGED <<libVars, thrVars, conn, listening, histVars>>

-----------------------------------------------------------------------------
(* _lib_Connect, called by THREAD_CONNECT. *)

\* Mutant: the library counts as connected for ever once it was.
AlreadyConnected_Once == connected \/ callback

AlreadyConnected == connected

Test ==
  /\ con = "test"
  /\ con' = IF AlreadyConnected THEN "enable" ELSE "socket"
  /\ UNCHANGED <<libVars, rcv, at, enabled, netVars, histVars>>

\* WSAStartup or socket fails: g_sock is without an open socket, as before.
SocketFails ==
  /\ con = "socket" /\ con' = "disable"
  /\ UNCHANGED <<libVars, rcv, at, enabled, netVars, histVars>>

Socket ==
  /\ con = "socket" /\ con' = "connect"
  /\ \E s \in Sock :
       /\ conn[s] = "none" /\ \A t \in 1..(s - 1) : conn[t] # "none"
       /\ sock' = s /\ conn' = [conn EXCEPT ![s] = "fresh"]
  /\ UNCHANGED <<connected, msg, callback, handle, rcv, at, enabled, stream, sent,
                 listening, histVars>>

\* Mutant: a failed connect is reported as an old connection.
Refused_AsConnected == "enable"

Refused == "disable"

Connect ==
  /\ con = "connect"
  /\ IF listening /\ conn[sock] = "fresh"
       THEN con' = "mark" /\ conn' = [conn EXCEPT ![sock] = "up"]
       ELSE con' = Refused /\ conn' = [conn EXCEPT ![sock] = "none"]
  /\ UNCHANGED <<libVars, rcv, at, enabled, stream, sent, listening, histVars>>

Mark ==
  /\ con = "mark" /\ con' = "register"
  /\ connected' = TRUE
  /\ UNCHANGED <<sock, msg, callback, handle, rcv, at, enabled, netVars, histVars>>

\* Mutant: the thread is not started, and its handle stored all the same.
Registered_NoThread == "store"

Registered == "start"

Register ==
  /\ con = "register" /\ con' = Registered
  /\ callback' = TRUE
  /\ UNCHANGED <<connected, sock, msg, handle, rcv, at, enabled, netVars, histVars>>

Alive(s) == rcv[s] \notin Gone

\* bThreadFlag is set here and cleared by nobody.
Start ==
  /\ con = "start" /\ con' = "store"
  /\ rcv' = [rcv EXCEPT ![sock] = "recv"]
  /\ twins' = (twins \/ \E s \in Sock : Alive(s))
  /\ UNCHANGED <<libVars, at, enabled, netVars, got, calls, empty>>

Store ==
  /\ con = "store" /\ con' = "release"
  /\ handle' = sock
  /\ UNCHANGED <<connected, sock, msg, callback, rcv, at, enabled, netVars, histVars>>

\* CloseHandle.  hThread keeps the value, which names nothing any more.
Release ==
  /\ con = "release" /\ con' = "enable"
  /\ UNCHANGED <<libVars, rcv, at, enabled, netVars, histVars>>

\* m_fn_EnableControl, then Sleep.
Control ==
  /\ con \in {"enable", "disable"} /\ con' = "test"
  /\ enabled' = (con = "enable")
  /\ UNCHANGED <<libVars, rcv, at, netVars, histVars>>

-----------------------------------------------------------------------------
(* THREAD_MESSAGE_RECV, RecvMessagePort and the _lib_Disconnect it calls. *)

Go(s, where) == rcv' = [rcv EXCEPT ![s] = where]

\* recv is called with the g_sock of the moment; without a connection it fails.
RecvCall(s) ==
  /\ rcv[s] = "recv"
  /\ IF sock # 0 /\ conn[sock] \in Held
       THEN Go(s, "wait") /\ at' = [at EXCEPT ![s] = sock]
       ELSE Go(s, "ended") /\ UNCHANGED at
  /\ UNCHANGED <<libVars, con, enabled, netVars, histVars>>

RecvMessage(s) ==
  /\ rcv[s] = "wait" /\ conn[at[s]] \in Held /\ stream[at[s]] # <<>>
  /\ msg' = Head(stream[at[s]])
  /\ stream' = [stream EXCEPT ![at[s]] = Tail(@)]
  /\ got' = Append(got, msg'.id)
  /\ Go(s, "switch")
  /\ UNCHANGED <<connected, sock, callback, handle, con, at, enabled,
                 conn, sent, listening, calls, empty, twins>>

\* The connection has ended in good order: recv returns 0, and that is not -1.
RecvEmpty(s) ==
  /\ rcv[s] = "wait" /\ conn[at[s]] = "fin" /\ stream[at[s]] = <<>>
  /\ empty' = TRUE
  /\ Go(s, "switch")
  /\ UNCHANGED <<libVars, con, at, enabled, netVars, got, calls, twins>>

RecvError(s) ==
  /\ rcv[s] = "wait" /\ conn[at[s]] \in {"rst", "closed"}
  /\ Go(s, "ended")
  /\ UNCHANGED <<libVars, con, at, enabled, netVars, histVars>>

\* The switch over the type, and what follows _lib_Disconnect in its case.
Switch(s) ==
  /\ rcv[s] = "switch"
  /\ Go(s, CASE msg.kind = "SERVERDOWN" -> "terminate"
             [] msg.kind = "TASKALIVE"  -> "echo"
             [] OTHER                   -> "callback")
  /\ UNCHANGED <<libVars, con, at, enabled, netVars, histVars>>

\* Mutant: return instead of break.
Disconnected_Returns == "recv"

Disconnected == "callback"

\* What hThread names: a thread while its handle is open, nothing later, unless
\* the handle of the next thread, open and not stored yet, has the same value.
Named == CASE con = "release"                -> {handle}
           [] con = "store" /\ handle # 0     -> {0, sock}
           [] OTHER                          -> {0}

\* TerminateThread: of another receiving thread, of this very one, or of none.
Terminate(s) ==
  /\ rcv[s] = "terminate"
  /\ \E victim \in Named :
       rcv' = [t \in Sock |-> CASE t = victim /\ Alive(t) -> "killed"
                               [] t = s /\ t # victim      -> "test"
                               [] OTHER                    -> rcv[t]]
  /\ UNCHANGED <<libVars, con, at, enabled, netVars, histVars>>

DisconnectTest(s) ==
  /\ rcv[s] = "test"
  /\ Go(s, IF connected THEN "close" ELSE Disconnected)
  /\ UNCHANGED <<libVars, con, at, enabled, netVars, histVars>>

\* Mutant: closesocket forgotten.
Closed_Kept(state) == state

Closed(state) == IF state \in Held \union {"fresh"} THEN "closed" ELSE state

DisconnectClose(s) ==
  /\ rcv[s] = "close"
  /\ conn' = [conn EXCEPT ![sock] = Closed(@)]
  /\ Go(s, "mark")
  /\ UNCHANGED <<libVars, con, at, enabled, stream, sent, listening, histVars>>

\* Mutant: the flag is left set.
Unmarked_Kept == connected

Unmarked == FALSE

DisconnectMark(s) ==
  /\ rcv[s] = "mark"
  /\ connected' = Unmarked
  /\ Go(s, Disconnected)
  /\ UNCHANGED <<sock, msg, callback, handle, con, at, enabled, netVars, histVars>>

\* _lib_SendData with the message received: the server's side of it is in
\* AliveLoop.
Echo(s) ==
  /\ rcv[s] = "echo"
  /\ Go(s, "callback")
  /\ UNCHANGED <<libVars, con, at, enabled, netVars, histVars>>

\* Mutant: the thread handles one message only.
LoopsOn_Once == "ended"

LoopsOn == "recv"

Callback(s) ==
  /\ rcv[s] = "callback"
  /\ calls' = IF callback /\ Len(calls) <= MaxSent THEN Append(calls, msg.id) ELSE calls
  /\ Go(s, LoopsOn)
  /\ UNCHANGED <<libVars, con, at, enabled, netVars, got, empty, twins>>

-----------------------------------------------------------------------------
ConStep ==
  Test \/ SocketFails \/ Socket \/ Connect \/ Mark \/ Register \/ Start \/ Store \/ Release \/ Control

RcvStep(s) ==
  \/ RecvCall(s) \/ RecvMessage(s) \/ RecvEmpty(s) \/ RecvError(s) \/ Switch(s)
  \/ Terminate(s) \/ DisconnectTest(s) \/ DisconnectClose(s) \/ DisconnectMark(s)
  \/ Echo(s) \/ Callback(s)

Next ==
  \/ ServerStarts \/ ServerExits \/ ConStep
  \/ \E s \in Sock : NetworkBreaks(s) \/ RcvStep(s) \/ \E k \in Kinds : ServerSends(s, k)

\* The threads run; socket does not fail for ever.
Fairness ==
  /\ WF_vars(ConStep) /\ SF_vars(Socket)
  /\ \A s \in Sock : WF_vars(RcvStep(s))

Spec     == Init /\ [][Next]_vars
FairSpec == Spec /\ Fairness

-----------------------------------------------------------------------------
(* Properties. *)

\* Every variable has its type, and the stored handle is that of a thread started.
TypeOK ==
  /\ connected \in BOOLEAN /\ callback \in BOOLEAN /\ enabled \in BOOLEAN
  /\ sock \in 0..MaxSock /\ msg \in Message
  /\ handle \in {0} \union {s \in Sock : rcv[s] # "none"}
  /\ con \in ConState /\ rcv \in [Sock -> RcvState] /\ at \in [Sock -> 0..MaxSock]
  /\ conn \in [Sock -> {"none", "fresh", "closed"} \union Held]
  /\ stream \in [Sock -> Seq(Message)] /\ sent \in 0..MaxSent
  /\ got \in Seq(1..MaxSent) /\ calls \in Seq(0..MaxSent)
  /\ listening \in BOOLEAN /\ empty \in BOOLEAN /\ twins \in BOOLEAN

Killed == \E s \in Sock : rcv[s] = "killed"

\* The callback is called with every message received, once and in order, over
\* disconnections and reconnections, as long as no connection ended in order
\* without a SERVERDOWN, one receiving thread was left at a time, and none was
\* terminated.
CalledOnce ==
  ~empty /\ ~twins /\ ~Killed => calls = got \/ calls = SubSeq(got, 1, Len(got) - 1)

\* While the library says it is connected and the server has not gone, the
\* receiving thread of the connection is there to hear it.
ConnectedHeard ==
  connected /\ conn[sock] = "up" /\ con \notin {"mark", "register", "start"}
    => Alive(sock) \/ Killed

\* No socket is left open and forgotten: an open one is that of the connection
\* the library says it has, or the connecting thread is about to say so.
NoSocketForgotten ==
  ~twins => \A s \in Sock : conn[s] \in Held \union {"fresh"} =>
                s = sock /\ (connected \/ con \in {"connect", "mark"})

\* The bound: a call of socket finds no socket left to create.
OutOfSockets == con = "socket" /\ \A s \in Sock : conn[s] # "none"

\* A library that is not connected gets connected, the second time as the first,
\* if a server goes on listening: a connect that fails, or a socket that another
\* thread closes on its way through _lib_Disconnect, only costs another round.
Reconnects == ~connected ~> connected \/ ~listening \/ OutOfSockets

\* A receiving thread on its way through _lib_Disconnect ends the connection,
\* unless it is terminated before it gets there.
DownDisconnects ==
  \A s \in Sock : rcv[s] = "terminate" ~> ~connected \/ rcv[s] = "killed"

\* The controls of the dialog follow the state of the connection.
ControlsFollow ==
  /\ ~connected ~> connected \/ ~enabled
  /\ connected ~> ~connected \/ enabled

-----------------------------------------------------------------------------
(* What the documentation says, and the library does not do. *)

\* _lib_Disconnect ends the receiving thread: there is never a second one.
OneReceiver == \A s, t \in Sock : Alive(s) /\ Alive(t) => s = t

\* g_bIsConnected tells whether the library is connected: a connection that is
\* lost does not count as connected for ever.
FlagFollowsConnection ==
  connected /\ conn[sock] \in Lost ~> ~connected \/ conn[sock] = "up"
=============================================================================
