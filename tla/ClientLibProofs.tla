---------------------------- MODULE ClientLibProofs ----------------------------
(* Theorems of ClientLib, for every number of connections and messages. *)
EXTENDS ClientLib, SequenceTheorems, TLAPS

-----------------------------------------------------------------------------
(* The inductive invariant, in parts that rest on those before. *)

\* What the server sends has a number of its own.
Sent == [kind : Kinds, id : 1..MaxSent]

\* While a connection is being made g_sock is its socket, and the handle that is
\* about to be stored is that of a thread.
Wired ==
  /\ con \in {"connect", "mark", "register", "start", "store"} => sock \in Sock
  /\ con = "store" => rcv[sock] # "none"
  /\ stream \in [Sock -> Seq(Sent)]

\* A socket that is not there has no thread and no messages, and comes after
\* g_sock or is the one given back; a thread only ever waits for its own socket
\* or for later ones.
Numbered ==
  /\ \A t \in Sock : conn[t] = "none" => rcv[t] = "none" /\ stream[t] = <<>> /\ t >= sock
  /\ \A t \in Sock : conn[t] = "fresh" => stream[t] = <<>>
  /\ \A t \in Sock : rcv[t] # "none" => t <= sock
  /\ \A t \in Sock : rcv[t] = "wait" => t <= at[t] /\ at[t] <= sock
  /\ con \in {"connect", "mark", "register", "start"} =>
       rcv[sock] = "none" /\ conn[sock] # "none"
  /\ con = "connect" => conn[sock] \in {"fresh", "closed"} /\ stream[sock] = <<>>

\* A connection is made only when there is none, and a thread is started only
\* when there is a connection and a callback.
Prepared ==
  /\ con \in {"socket", "connect", "mark"} => ~connected
  /\ connected => sock \in Sock
  /\ con = "start" => callback
  /\ \A t \in Sock : rcv[t] # "none" => callback

Open == Held \union {"fresh"}

\* One receiving thread at a time: it closes the socket it is connected by.
OneAtATime ==
  /\ \A s, t \in Sock : Alive(s) /\ Alive(t) => s = t
  /\ \A s \in Sock : rcv[s] \in {"close", "mark"} => connected
  /\ \A s \in Sock : rcv[s] = "mark" => conn[sock] \notin Open
  /\ \A s \in Sock : rcv[s] = "wait" => at[s] = sock /\ (connected \/ con = "mark")
  /\ \A s \in Sock : conn[s] \in Open => s = sock /\ (connected \/ con \in {"connect", "mark"})
  /\ Len(got) <= sent
  /\ sock \in Sock => Len(got) + Len(stream[sock]) <= sent

\* A thread that has received a message and not called the callback with it.
Handling(s) ==
  rcv[s] \in {"switch", "terminate", "test", "close", "mark", "echo", "callback"}

CalledSoFar ==
  IF \E s \in Sock : Handling(s) THEN got = Append(calls, msg.id) ELSE got = calls

LibInv ==
  /\ TypeOK /\ Wired /\ Numbered /\ Prepared
  /\ ConnectedHeard
  /\ ~twins => OneAtATime
  /\ ~empty /\ ~twins /\ ~Killed => CalledSoFar

-----------------------------------------------------------------------------
(* Types. *)

LEMMA SentMessage == Seq(Sent) \subseteq Seq(Message)
<1>1. Sent \subseteq Message
    BY BoundsAssumption DEF Sent, Message
<1>. QED
    BY <1>1

LEMMA LibInit == Init => LibInv
<1> SUFFICES ASSUME Init PROVE LibInv
    OBVIOUS
<1>1. \A s \in Sock : stream[s] = <<>> /\ rcv[s] = "none" /\ conn[s] = "none" /\ s >= 0
    BY BoundsAssumption DEF Init, Sock
<1>2. TypeOK
  <2>1. msg \in Message /\ sock \in 0..MaxSock /\ sent \in 0..MaxSent
      BY BoundsAssumption DEF Init, ZeroMsg, Message, Kinds
  <2>2. /\ stream \in [Sock -> Seq(Message)] /\ got \in Seq(1..MaxSent)
        /\ calls \in Seq(0..MaxSent) /\ at \in [Sock -> 0..MaxSock]
      BY BoundsAssumption DEF Init
  <2>. QED
      BY <2>1, <2>2 DEF Init, TypeOK, ConState, RcvState, Gone
<1>3. Wired
    BY DEF Init, Wired
<1>4. Numbered
  <2>1. con = "test" /\ sock = 0
      BY DEF Init
  <2>. QED
      BY <1>1, <2>1 DEF Numbered
<1>5. Prepared /\ ConnectedHeard
    BY <1>1 DEF Init, Prepared, ConnectedHeard
<1>6. OneAtATime
    BY <1>1, BoundsAssumption DEF Init, OneAtATime, Alive, Gone, Open, Held, Lost, Sock
<1>7. CalledSoFar
    BY <1>1 DEF Init, CalledSoFar, Handling
<1>. QED
    BY <1>2, <1>3, <1>4, <1>5, <1>6, <1>7 DEF LibInv

LEMMA TypeNext == TypeOK /\ Wired /\ Numbered /\ [Next]_vars => TypeOK' /\ Wired'
<1> SUFFICES ASSUME TypeOK, Wired, Numbered, [Next]_vars PROVE TypeOK' /\ Wired'
    OBVIOUS
<1>1. CASE ServerStarts \/ ServerExits
    BY <1>1 DEF ServerStarts, ServerExits, libVars, thrVars, histVars, TypeOK, Wired, Held, Lost
<1>2. ASSUME NEW s \in Sock, NetworkBreaks(s)
      PROVE  TypeOK' /\ Wired'
    BY <1>2 DEF NetworkBreaks, libVars, thrVars, histVars, TypeOK, Wired, Held, Lost
<1>3. ASSUME NEW s \in Sock, NEW k \in Kinds, ServerSends(s, k)
      PROVE  TypeOK' /\ Wired'
  <2>1. sent' \in 1..MaxSent /\ [kind |-> k, id |-> sent'] \in Sent
      BY <1>3, BoundsAssumption DEF ServerSends, TypeOK, Sent
  <2>2. stream' \in [Sock -> Seq(Sent)]
      BY <1>3, <2>1 DEF ServerSends, Wired
  <2>3. stream' \in [Sock -> Seq(Message)]
      BY <2>2, SentMessage
  <2>. QED
      BY <1>3, <2>1, <2>2, <2>3, BoundsAssumption
      DEF ServerSends, libVars, thrVars, histVars, TypeOK, Wired
<1>4. CASE Test \/ SocketFails \/ Control \/ Release \/ Mark \/ Register
    BY <1>4 DEF Test, SocketFails, Control, Release, Mark, Register, Registered,
                libVars, netVars, histVars, TypeOK, Wired, ConState
<1>5. CASE Socket
    BY <1>5 DEF Socket, histVars, TypeOK, Wired, ConState, Sock
<1>6. CASE Connect
    BY <1>6 DEF Connect, Refused, libVars, histVars, TypeOK, Wired, ConState, Held
<1>7. CASE Start
    BY <1>7 DEF Start, libVars, netVars, TypeOK, Wired, ConState, RcvState
<1>8. CASE Store
    BY <1>8 DEF Store, netVars, histVars, TypeOK, Wired, ConState
<1>9. ASSUME NEW s \in Sock, RecvMessage(s)
      PROVE  TypeOK' /\ Wired'
  <2>1. at[s] \in Sock
      BY <1>9, BoundsAssumption DEF RecvMessage, Numbered, TypeOK, Sock
  <2>2. Head(stream[at[s]]) \in Sent /\ Tail(stream[at[s]]) \in Seq(Sent)
      BY <1>9, <2>1, HeadTailProperties DEF RecvMessage, Wired
  <2>3. stream' \in [Sock -> Seq(Sent)]
      BY <1>9, <2>2 DEF RecvMessage, Wired
  <2>4. msg' \in Message /\ msg'.id \in 1..MaxSent
      BY <1>9, <2>2, BoundsAssumption DEF RecvMessage, Sent, Message
  <2>5. got' \in Seq(1..MaxSent) /\ stream' \in [Sock -> Seq(Message)]
      BY <1>9, <2>3, <2>4, SentMessage, AppendProperties DEF RecvMessage, TypeOK
  <2>6. /\ rcv' = [rcv EXCEPT ![s] = "switch"]
        /\ UNCHANGED <<connected, sock, callback, handle, con, at, enabled,
                       conn, sent, listening, calls, empty, twins>>
      BY <1>9 DEF RecvMessage, Go
  <2>7. rcv' \in [Sock -> RcvState] /\ \A t \in Sock : rcv[t] # "none" => rcv'[t] # "none"
      BY <2>6 DEF TypeOK, RcvState
  <2>8. TypeOK'
      BY <2>4, <2>5, <2>6, <2>7 DEF TypeOK
  <2>. QED
      BY <2>3, <2>6, <2>7, <2>8 DEF Wired, TypeOK
<1>10. ASSUME NEW s \in Sock, RecvCall(s)
       PROVE  TypeOK' /\ Wired'
    BY <1>10 DEF RecvCall, Go, libVars, netVars, histVars, TypeOK, Wired, RcvState, Gone
<1>11. ASSUME NEW s \in Sock,
              \/ RecvEmpty(s) \/ RecvError(s) \/ Switch(s) \/ DisconnectTest(s) \/ Echo(s)
       PROVE  TypeOK' /\ Wired'
  <2>1. \E w \in RcvState \ {"none"} : rcv' = [rcv EXCEPT ![s] = w]
      BY <1>11 DEF RecvEmpty, RecvError, Switch, DisconnectTest, Echo, Go, Disconnected,
                   RcvState, Gone
  <2>2. UNCHANGED <<libVars, con, at, enabled, netVars, got, calls, twins>> /\ empty' \in BOOLEAN
      BY <1>11 DEF RecvEmpty, RecvError, Switch, DisconnectTest, Echo, histVars, TypeOK
  <2>3. rcv' \in [Sock -> RcvState] /\ \A t \in Sock : rcv[t] # "none" => rcv'[t] # "none"
      BY <2>1 DEF TypeOK
  <2>. QED
      BY <2>2, <2>3 DEF libVars, netVars, TypeOK, Wired
<1>12. ASSUME NEW s \in Sock, Terminate(s)
       PROVE  TypeOK' /\ Wired'
    BY <1>12 DEF Terminate, libVars, netVars, histVars, TypeOK, Wired, RcvState, Gone, Alive
<1>13. ASSUME NEW s \in Sock, DisconnectClose(s) \/ DisconnectMark(s)
       PROVE  TypeOK' /\ Wired'
    BY <1>13 DEF DisconnectClose, DisconnectMark, Closed, Unmarked, Disconnected, Go,
                 libVars, histVars, netVars, TypeOK, Wired, RcvState, Held
<1>14. ASSUME NEW s \in Sock, Callback(s)
       PROVE  TypeOK' /\ Wired'
  <2>1. calls' \in Seq(0..MaxSent)
      BY <1>14, AppendProperties DEF Callback, TypeOK, Message
  <2>. QED
      BY <1>14, <2>1 DEF Callback, Go, LoopsOn, libVars, netVars, TypeOK, Wired, RcvState
<1>15. CASE UNCHANGED vars
    BY <1>15 DEF vars, libVars, thrVars, netVars, histVars, TypeOK, Wired
<1>. QED
    BY <1>1, <1>2, <1>3, <1>4, <1>5, <1>6, <1>7, <1>8, <1>9, <1>10, <1>11, <1>12, <1>13, <1>14, <1>15
    DEF Next, ConStep, RcvStep

-----------------------------------------------------------------------------
(* Sockets and their threads. *)

\* A receiving thread goes on to w, which is not a call of recv.
LEMMA NumberedGo ==
  ASSUME TypeOK, Wired, Numbered, NEW s \in Sock, rcv[s] # "none",
         NEW w, w \notin {"none", "wait"}, rcv' = [rcv EXCEPT ![s] = w],
         UNCHANGED <<sock, con, at, conn>>,
         \A t \in Sock : stream[t] = <<>> => stream'[t] = <<>>
  PROVE  Numbered'
<1>1. \A t \in Sock : rcv'[t] = rcv[t] \/ (rcv[t] # "none" /\ rcv'[t] \notin {"none", "wait"})
    BY DEF TypeOK
<1>. QED
    BY <1>1 DEF Numbered, Wired

LEMMA NumberedNext == TypeOK /\ Wired /\ Numbered /\ [Next]_vars => Numbered'
<1> SUFFICES ASSUME TypeOK, Wired, Numbered, [Next]_vars PROVE Numbered'
    OBVIOUS
<1> USE BoundsAssumption
<1>1. CASE ServerStarts
    BY <1>1 DEF ServerStarts, libVars, thrVars, Numbered
<1>2. CASE ServerExits
  <2>1. \A t \in Sock : \/ conn'[t] = conn[t]
                        \/ conn[t] = "up" /\ conn'[t] \in {"fin", "rst"}
    <3>1. PICK how \in Lost :
            conn' = [t \in Sock |-> IF conn[t] = "up" THEN how ELSE conn[t]]
        BY <1>2 DEF ServerExits
    <3>. QED
        BY <3>1 DEF Lost
  <2>2. UNCHANGED <<sock, con, rcv, at, stream>>
      BY <1>2 DEF ServerExits, libVars, thrVars
  <2>3. \A t \in Sock : /\ conn'[t] = "none" <=> conn[t] = "none"
                        /\ conn'[t] = "fresh" <=> conn[t] = "fresh"
                        /\ conn[t] = "closed" => conn'[t] = "closed"
      BY <2>1
  <2>. QED
      BY <2>2, <2>3 DEF Numbered, Wired
<1>3. ASSUME NEW s \in Sock, NetworkBreaks(s)
      PROVE  Numbered'
    BY <1>3 DEF NetworkBreaks, libVars, thrVars, Numbered, TypeOK
<1>4. ASSUME NEW s \in Sock, NEW k \in Kinds, ServerSends(s, k)
      PROVE  Numbered'
    BY <1>4 DEF ServerSends, libVars, thrVars, Numbered, TypeOK
<1>5. CASE Test \/ SocketFails \/ Control \/ Release \/ Mark \/ Register \/ Store
    BY <1>5 DEF Test, SocketFails, Control, Release, Mark, Register, Registered, Store,
                libVars, netVars, histVars, Numbered
<1>6. CASE Socket
  <2>1. PICK s \in Sock :
          /\ conn[s] = "none" /\ \A t \in 1..(s - 1) : conn[t] # "none"
          /\ sock' = s /\ conn' = [conn EXCEPT ![s] = "fresh"]
      BY <1>6 DEF Socket
  <2>2. con' = "connect" /\ UNCHANGED <<rcv, at, stream>>
      BY <1>6 DEF Socket
  <2>3. s >= sock /\ rcv[s] = "none" /\ stream[s] = <<>> /\ sock \in Nat /\ s \in Nat
      BY <2>1 DEF Numbered, TypeOK, Sock
  <2>4. \A t \in Sock : conn[t] = "none" => t \in Nat /\ t >= s
      BY <2>1 DEF Sock
  <2>5. /\ conn'[s] = "fresh" /\ \A t \in Sock : t # s => conn'[t] = conn[t]
      BY <2>1 DEF TypeOK
  <2>6. \A t \in Sock : rcv[t] # "none" => t \in Nat /\ t <= s
      BY <2>3 DEF Numbered, Sock
  <2>7. \A t \in Sock : rcv[t] = "wait" => t <= at[t] /\ at[t] <= s
      BY <2>3 DEF Numbered, TypeOK
  <2>. QED
      BY <2>1, <2>2, <2>3, <2>4, <2>5, <2>6, <2>7 DEF Numbered
<1>7. CASE Connect
  <2>1. con = "connect" /\ sock \in Sock /\ UNCHANGED <<sock, rcv, at, stream>>
      BY <1>7 DEF Connect, Wired, libVars
  <2>2. \/ con' = "mark" /\ conn' = [conn EXCEPT ![sock] = "up"]
        \/ con' = "disable" /\ conn' = [conn EXCEPT ![sock] = "none"]
      BY <1>7 DEF Connect, Refused
  <2>3. rcv[sock] = "none" /\ stream[sock] = <<>> /\ sock >= sock
      BY <2>1 DEF Numbered, Sock
  <2>. QED
      BY <2>1, <2>2, <2>3 DEF Numbered, TypeOK
<1>8. CASE Start
  <2>1. con = "start" /\ sock \in Sock /\ conn[sock] # "none" /\ sock \in Nat
      BY <1>8 DEF Start, Wired, Numbered, Sock
  <2>2. con' = "store" /\ rcv' = [rcv EXCEPT ![sock] = "recv"]
        /\ UNCHANGED <<sock, at, conn, stream>>
      BY <1>8 DEF Start, libVars, netVars
  <2>. QED
      BY <2>1, <2>2 DEF Numbered, TypeOK
<1>9. ASSUME NEW s \in Sock, RecvCall(s)
      PROVE  Numbered'
  <2>1. /\ UNCHANGED <<sock, con, conn, stream>> /\ rcv[s] = "recv"
        /\ \/ rcv' = [rcv EXCEPT ![s] = "wait"] /\ at' = [at EXCEPT ![s] = sock]
           \/ rcv' = [rcv EXCEPT ![s] = "ended"] /\ at' = at
      BY <1>9 DEF RecvCall, Go, libVars, netVars
  <2>2. s <= sock /\ sock \in Nat /\ sock <= sock
      BY <2>1 DEF Numbered, TypeOK
  <2>3. \A t \in Sock : /\ rcv'[t] = "none" <=> rcv[t] = "none"
                        /\ rcv'[t] = "wait" => \/ rcv[t] = "wait" /\ at'[t] = at[t]
                                               \/ t = s /\ at'[t] = sock
      BY <2>1 DEF TypeOK
  <2>. QED
      BY <2>1, <2>2, <2>3 DEF Numbered, Wired
<1>10. ASSUME NEW s \in Sock, RecvMessage(s)
       PROVE  Numbered'
  <2>1. \A t \in Sock : stream[t] = <<>> => stream'[t] = <<>>
      BY <1>10 DEF RecvMessage, TypeOK
  <2>. QED
      BY <1>10, <2>1, NumberedGo DEF RecvMessage, Go
<1>11. ASSUME NEW s \in Sock,
              \/ RecvEmpty(s) \/ RecvError(s) \/ Switch(s) \/ DisconnectTest(s) \/ Echo(s)
              \/ DisconnectMark(s) \/ Callback(s)
       PROVE  Numbered'
  <2>1. \E w : w \notin {"none", "wait"} /\ rcv' = [rcv EXCEPT ![s] = w]
      BY <1>11 DEF RecvEmpty, RecvError, Switch, DisconnectTest, Echo, Go, Disconnected,
                   DisconnectMark, Callback, LoopsOn
  <2>2. rcv[s] # "none" /\ UNCHANGED <<sock, con, at, conn, stream>>
      BY <1>11 DEF RecvEmpty, RecvError, Switch, DisconnectTest, Echo, DisconnectMark, Callback,
                   libVars, netVars
  <2>. QED
      BY <2>1, <2>2, NumberedGo
<1>12. ASSUME NEW s \in Sock, Terminate(s)
       PROVE  Numbered'
  <2>1. /\ UNCHANGED <<sock, con, at, conn, stream>>
        /\ \A t \in Sock : \/ rcv'[t] = rcv[t]
                           \/ rcv[t] # "none" /\ rcv'[t] \in {"killed", "test"}
      BY <1>12 DEF Terminate, Alive, Gone, libVars, netVars
  <2>. QED
      BY <2>1 DEF Numbered, Wired
<1>13. ASSUME NEW s \in Sock, DisconnectClose(s)
       PROVE  Numbered'
  <2>1. /\ UNCHANGED <<sock, con, at, stream>> /\ rcv[s] = "close"
        /\ rcv' = [rcv EXCEPT ![s] = "mark"]
        /\ conn' = [conn EXCEPT ![sock] = Closed(@)]
      BY <1>13 DEF DisconnectClose, Go, libVars
  <2>2. \A t \in Sock : /\ conn'[t] = "none" <=> conn[t] = "none"
                        /\ conn'[t] = "fresh" => conn[t] = "fresh"
                        /\ conn[t] \in {"fresh", "closed"} => conn'[t] \in {"fresh", "closed"}
      BY <2>1 DEF TypeOK, Closed, Held, Lost
  <2>. QED
      BY <2>1, <2>2 DEF Numbered, TypeOK, Wired
<1>14. CASE UNCHANGED vars
    BY <1>14 DEF vars, libVars, thrVars, netVars, Numbered
<1>. QED
    BY <1>1, <1>2, <1>3, <1>4, <1>5, <1>6, <1>7, <1>8, <1>9, <1>10, <1>11, <1>12, <1>13, <1>14
    DEF Next, ConStep, RcvStep

LEMMA PreparedNext == TypeOK /\ Wired /\ Numbered /\ Prepared /\ [Next]_vars => Prepared'
<1> SUFFICES ASSUME TypeOK, Wired, Numbered, Prepared, [Next]_vars PROVE Prepared'
    OBVIOUS
<1>1. CASE UNCHANGED <<libVars, con, rcv>>
    BY <1>1 DEF libVars, Prepared
<1>2. CASE Test \/ SocketFails \/ Control \/ Release \/ Mark \/ Register \/ Store
    BY <1>2 DEF Test, AlreadyConnected, SocketFails, Control, Release, Mark, Register, Registered,
                Store, libVars, Prepared, Wired
<1>3. CASE Socket \/ Connect \/ Start
    BY <1>3 DEF Socket, Connect, Refused, Start, libVars, Prepared, TypeOK
<1>4. ASSUME NEW s \in Sock, RcvStep(s)
      PROVE  Prepared'
  <2>1. rcv[s] # "none" /\ \A t \in Sock : rcv[t] = "none" => t # s
      BY <1>4 DEF RcvStep, RecvCall, RecvMessage, RecvEmpty, RecvError, Switch, Terminate,
                  DisconnectTest, DisconnectClose, DisconnectMark, Echo, Callback
  <2>2. UNCHANGED <<sock, con, callback>> /\ (connected' => connected)
      BY <1>4 DEF RcvStep, RecvCall, RecvMessage, RecvEmpty, RecvError, Switch, Terminate,
                  DisconnectTest, DisconnectClose, DisconnectMark, Unmarked, Echo, Callback, libVars
  <2>. QED
      BY <2>1, <2>2 DEF Prepared, TypeOK
<1>5. ASSUME NEW s \in Sock, NetworkBreaks(s) \/ \E k \in Kinds : ServerSends(s, k)
      PROVE  UNCHANGED <<libVars, con, rcv>>
    BY <1>5 DEF NetworkBreaks, ServerSends, thrVars
<1>6. ServerStarts \/ ServerExits \/ UNCHANGED vars => UNCHANGED <<libVars, con, rcv>>
    BY DEF ServerStarts, ServerExits, vars, thrVars
<1>. QED
    BY <1>1, <1>2, <1>3, <1>4, <1>5, <1>6 DEF Next, ConStep

-----------------------------------------------------------------------------
(* The receiving thread of the connection. *)

\* What a step of a receiving thread leaves of the others and of the connection.
LEMMA RcvShape ==
  ASSUME TypeOK, NEW s \in Sock, RcvStep(s)
  PROVE  /\ UNCHANGED <<sock, con, callback, sent, twins>> /\ Alive(s)
         /\ rcv'[s] # "none"
         /\ \A t \in Sock : t # s => rcv'[t] = rcv[t] \/ (Alive(t) /\ rcv'[t] = "killed")
         /\ connected' => connected
         /\ \A t \in Sock : \/ conn'[t] = conn[t]
                            \/ t = sock /\ conn[t] \in Open /\ conn'[t] = "closed"
<1>1. UNCHANGED <<sock, con, callback, sent, twins>> /\ Alive(s) /\ (connected' => connected)
    BY DEF RcvStep, RecvCall, RecvMessage, RecvEmpty, RecvError, Switch, Terminate,
           DisconnectTest, DisconnectClose, DisconnectMark, Unmarked, Echo, Callback,
           libVars, netVars, histVars, Alive, Gone
<1>2. CASE Terminate(s)
    BY <1>1, <1>2 DEF Terminate, netVars, Alive, Gone
<1>3. CASE ~Terminate(s)
  <2>1. \E w : w # "none" /\ rcv' = [rcv EXCEPT ![s] = w]
      BY <1>3 DEF RcvStep, RecvCall, RecvMessage, RecvEmpty, RecvError, Switch,
                  DisconnectTest, DisconnectClose, DisconnectMark, Disconnected, Echo,
                  Callback, LoopsOn, Go
  <2>2. conn' = conn \/ conn' = [conn EXCEPT ![sock] = Closed(@)]
      BY <1>3 DEF RcvStep, RecvCall, RecvMessage, RecvEmpty, RecvError, Switch,
                  DisconnectTest, DisconnectClose, DisconnectMark, Echo, Callback, netVars
  <2>. QED
      BY <1>1, <2>1, <2>2 DEF TypeOK, Closed, Open
<1>. QED
    BY <1>2, <1>3

LEMMA HeardNext ==
  TypeOK /\ Wired /\ Numbered /\ Prepared /\ ConnectedHeard /\ [Next]_vars => ConnectedHeard'
<1> SUFFICES ASSUME TypeOK, Wired, Numbered, Prepared, ConnectedHeard, [Next]_vars,
                    connected', conn'[sock'] = "up", con' \notin {"mark", "register", "start"}
             PROVE  Alive(sock)' \/ Killed'
    BY DEF ConnectedHeard
<1>1. CASE /\ UNCHANGED <<sock, rcv>> /\ (connected' => connected)
           /\ conn'[sock] = "up" => conn[sock] = "up"
           /\ con \notin {"mark", "register", "start"}
    BY <1>1 DEF ConnectedHeard, Alive, Killed
<1>2. CASE Test \/ SocketFails \/ Control \/ Release \/ Store
    BY <1>1, <1>2 DEF Test, SocketFails, Control, Release, Store, libVars, netVars
<1>3. CASE Mark \/ Register
    BY <1>3 DEF Mark, Register, Registered
<1>4. CASE Socket \/ Connect
  <2>1. sock' \in Sock
      BY <1>4 DEF Socket, Connect, Wired, libVars
  <2>. QED
      BY <1>4, <2>1 DEF Socket, Connect, libVars, TypeOK
<1>5. CASE Start
    BY <1>5 DEF Start, Wired, TypeOK, libVars, Alive, Gone
<1>6. ASSUME NEW s \in Sock, RcvStep(s)
      PROVE  Alive(sock)' \/ Killed'
  <2>1. UNCHANGED <<sock, con>> /\ connected /\ sock \in Sock /\ conn[sock] = "up"
      BY <1>6, RcvShape DEF Prepared, Open, Held
  <2>2. CASE Killed
    <3>1. PICK k \in Sock : rcv[k] = "killed"
        BY <2>2 DEF Killed
    <3>2. rcv'[k] = "killed"
        BY <1>6, <3>1, RcvShape DEF Alive, Gone
    <3>. QED
        BY <3>2 DEF Killed
  <2>3. CASE Alive(sock) /\ s # sock
      BY <1>6, <2>1, <2>3, RcvShape DEF Alive, Killed
  <2>4. CASE s = sock
    <3>1. ~RecvError(s)
      <4>1. rcv[s] = "wait" => at[s] = sock
          BY <2>1, <2>4 DEF Numbered, TypeOK, Sock
      <4>. QED
          BY <2>1, <4>1 DEF RecvError
    <3>2. CASE Terminate(s)
        BY <2>1, <2>4, <3>2 DEF Terminate, Alive, Gone, Killed
    <3>3. CASE ~Terminate(s)
      <4>1. sock # 0 /\ conn[sock] \in Held
          BY <2>1 DEF Sock, Held
      <4>2. \E w : w \notin Gone /\ rcv' = [rcv EXCEPT ![s] = w]
          BY <1>6, <3>1, <3>3, <4>1
          DEF RcvStep, RecvCall, RecvMessage, RecvEmpty, Switch,
              DisconnectTest, DisconnectClose, DisconnectMark, Disconnected, Echo,
              Callback, LoopsOn, Go, Gone
      <4>. QED
          BY <2>1, <2>4, <4>2 DEF TypeOK, Alive
    <3>. QED
        BY <3>2, <3>3
  <2>5. Alive(sock) \/ Killed
      BY <1>6, <2>1, RcvShape DEF ConnectedHeard
  <2>. QED
      BY <2>2, <2>3, <2>4, <2>5
<1>7. ASSUME NEW s \in Sock, NetworkBreaks(s) \/ \E k \in Kinds : ServerSends(s, k)
      PROVE  Alive(sock)' \/ Killed'
    BY <1>1, <1>7 DEF NetworkBreaks, ServerSends, libVars, thrVars, TypeOK, Prepared
<1>8. CASE ServerStarts \/ ServerExits \/ UNCHANGED vars
    BY <1>1, <1>8 DEF ServerStarts, ServerExits, vars, libVars, thrVars, netVars, Lost, Prepared
<1>. QED
    BY <1>2, <1>3, <1>4, <1>5, <1>6, <1>7, <1>8 DEF Next, ConStep

-----------------------------------------------------------------------------
(* One receiving thread at a time. *)

\* The history only grows.
LEMMA TwinsStay == [Next]_vars /\ twins => twins'
BY DEF Next, ServerStarts, ServerExits, NetworkBreaks, ServerSends, ConStep, Test, SocketFails,
       Socket, Connect, Mark, Register, Start, Store, Release, Control,
       RcvStep, RecvCall, RecvMessage, RecvEmpty, RecvError, Switch, Terminate, DisconnectTest,
       DisconnectClose, DisconnectMark, Echo, Callback, vars, histVars

LEMMA OneConStep ==
  ASSUME TypeOK, Wired, Numbered, Prepared, OneAtATime, ConStep, ~twins'
  PROVE  OneAtATime'
<1>1. CASE Test \/ SocketFails \/ Control \/ Release \/ Register \/ Store \/ Mark
  <2>1. /\ UNCHANGED <<sock, rcv, at, conn, stream, sent, got>>
        /\ con # "connect" /\ (connected \/ con = "mark" => connected' \/ con' = "mark")
        /\ connected => connected'
      BY <1>1 DEF Test, SocketFails, Control, Release, Register, Registered, Store, Mark,
                  libVars, netVars, histVars
  <2>. QED
      BY <2>1 DEF OneAtATime, Alive, Open
<1>2. CASE Socket
  <2>1. PICK s \in Sock : conn[s] = "none" /\ sock' = s /\ conn' = [conn EXCEPT ![s] = "fresh"]
      BY <1>2 DEF Socket
  <2>2. con = "socket" /\ con' = "connect" /\ UNCHANGED <<rcv, at, stream, sent, got>> /\ ~connected
      BY <1>2 DEF Socket, histVars, Prepared
  <2>3. \A t \in Sock : rcv[t] \notin {"close", "mark", "wait"} /\ conn[t] \notin Open
      BY <2>2 DEF OneAtATime
  <2>4. Len(stream[s]) = 0
      BY <2>1 DEF Numbered
  <2>5. Len(got) + Len(stream'[s]) <= sent
      BY <2>2, <2>4, LenProperties DEF OneAtATime, TypeOK
  <2>. QED
      BY <2>1, <2>2, <2>3, <2>5 DEF OneAtATime, Alive, Open, TypeOK
<1>3. CASE Connect
  <2>1. con = "connect" /\ ~connected /\ sock \in Sock
        /\ UNCHANGED <<sock, rcv, at, stream, sent, got, connected>>
      BY <1>3 DEF Connect, Prepared, Wired, libVars, histVars
  <2>2. \/ con' = "mark" /\ conn' = [conn EXCEPT ![sock] = "up"]
        \/ con' = "disable" /\ conn' = [conn EXCEPT ![sock] = "none"]
      BY <1>3 DEF Connect, Refused
  <2>3. \A t \in Sock : rcv[t] \notin {"close", "mark", "wait"} /\ (t # sock => conn[t] \notin Open)
      BY <2>1 DEF OneAtATime
  <2>4. "none" \notin Open
      BY DEF Open, Held, Lost
  <2>. QED
      BY <2>1, <2>2, <2>3, <2>4 DEF OneAtATime, Alive, Open, TypeOK
<1>4. CASE Start
  <2>1. \A t \in Sock : ~Alive(t)
      BY <1>4 DEF Start
  <2>2. con = "start" /\ rcv' = [rcv EXCEPT ![sock] = "recv"]
        /\ UNCHANGED <<sock, connected, at, conn, stream, sent, got>>
      BY <1>4 DEF Start, libVars, netVars
  <2>3. \A t \in Sock : rcv'[t] \notin {"close", "mark", "wait"}
      BY <2>1, <2>2 DEF TypeOK, Alive, Gone
  <2>4. \A t \in Sock : t # sock => ~Alive(t)'
      BY <2>1, <2>2 DEF TypeOK, Alive
  <2>. QED
      BY <2>2, <2>3, <2>4 DEF OneAtATime, Open
<1>. QED
    BY <1>1, <1>2, <1>3, <1>4 DEF ConStep

LEMMA OneRcvStep ==
  ASSUME TypeOK, Wired, Numbered, Prepared, OneAtATime, NEW s \in Sock, RcvStep(s)
  PROVE  OneAtATime'
<1>1. \A t \in Sock : t # s => rcv'[t] = rcv[t] /\ ~Alive(t)
    BY RcvShape DEF OneAtATime
<1>2. /\ \A t \in Sock : \A u \in Sock : Alive(t)' /\ Alive(u)' => t = u
      /\ \A t \in Sock : rcv'[t] \in {"close", "mark", "wait"} => t = s
    BY <1>1 DEF Alive, Gone
<1>3. UNCHANGED <<sock, con, sent>>
    BY RcvShape
<1>4. \A t \in Sock : conn'[t] \in Open => conn'[t] = conn[t]
    BY RcvShape DEF Open, Held, Lost
<1>5. CASE RecvMessage(s)
  <2>1. at[s] = sock /\ sock \in Sock
      BY <1>5 DEF RecvMessage, OneAtATime, Prepared, Wired
  <2>2. /\ rcv' = [rcv EXCEPT ![s] = "switch"] /\ UNCHANGED <<connected, conn, at>>
        /\ stream'[sock] = Tail(stream[sock]) /\ stream[sock] # <<>>
        /\ got' = Append(got, msg'.id)
      BY <1>5, <2>1 DEF RecvMessage, Go, TypeOK
  <2>3. Len(stream'[sock]) = Len(stream[sock]) - 1 /\ Len(stream[sock]) \in Nat
      BY <2>1, <2>2, HeadTailProperties DEF TypeOK
  <2>4. got \in Seq(1..MaxSent) /\ msg'.id \in 1..MaxSent
    <3>1. Head(stream[sock]) \in Sent
        BY <2>1, <2>2, HeadTailProperties DEF Wired
    <3>. QED
        BY <1>5, <2>1, <3>1 DEF RecvMessage, Sent, TypeOK
  <2>5. Len(got') = Len(got) + 1 /\ Len(got) \in Nat
      BY <2>2, <2>4, AppendProperties, LenProperties
  <2>6. Len(got') <= sent /\ Len(got') + Len(stream'[sock]) <= sent
      BY <2>1, <2>3, <2>5 DEF OneAtATime, TypeOK
  <2>7. rcv'[s] = "switch"
      BY <2>2 DEF TypeOK
  <2>. QED
      BY <1>2, <1>3, <1>4, <2>2, <2>6, <2>7 DEF OneAtATime
<1>6. CASE ~RecvMessage(s)
  <2>1. UNCHANGED <<stream, got>>
      BY <1>6 DEF RcvStep, RecvCall, RecvEmpty, RecvError, Switch, Terminate, DisconnectTest,
                  DisconnectClose, DisconnectMark, Echo, Callback, netVars, histVars
  <2>2. CASE RecvCall(s) /\ rcv'[s] = "wait"
    <3>1. conn[sock] \in Held /\ sock # 0 /\ at'[s] = sock /\ UNCHANGED <<connected, conn>>
        BY <2>2 DEF RecvCall, Go, TypeOK, libVars, netVars
    <3>2. sock \in Sock
        BY <3>1, BoundsAssumption DEF TypeOK, Sock
    <3>3. connected \/ con = "mark"
        BY <3>1, <3>2 DEF OneAtATime, Numbered, Open, Held, Lost
    <3>. QED
        BY <1>2, <1>3, <1>4, <2>1, <2>2, <3>1, <3>3 DEF OneAtATime
  <2>3. CASE DisconnectTest(s) /\ rcv'[s] = "close"
    <3>1. connected /\ connected' = connected
        BY <2>3 DEF DisconnectTest, Go, Disconnected, TypeOK, libVars
    <3>. QED
        BY <1>2, <1>3, <1>4, <2>1, <2>3, <3>1 DEF OneAtATime
  <2>4. CASE DisconnectClose(s)
    <3>1. connected /\ connected' = connected /\ sock \in Sock /\ rcv'[s] = "mark"
        BY <2>4 DEF DisconnectClose, Go, TypeOK, libVars, OneAtATime, Prepared
    <3>2. conn'[sock] \notin Open
        BY <2>4, <3>1 DEF DisconnectClose, Closed, TypeOK, Open, Held, Lost
    <3>. QED
        BY <1>2, <1>3, <1>4, <2>1, <3>1, <3>2 DEF OneAtATime
  <2>5. CASE DisconnectMark(s)
    <3>1. conn' = conn /\ rcv[s] = "mark" /\ rcv'[s] = "callback" /\ conn[sock] \notin Open
        BY <2>5 DEF DisconnectMark, Disconnected, Go, TypeOK, netVars, OneAtATime
    <3>2. \A t \in Sock : conn[t] \notin Open
        BY <3>1 DEF OneAtATime
    <3>. QED
        BY <1>2, <1>3, <2>1, <3>1, <3>2 DEF OneAtATime
  <2>6. CASE rcv'[s] \notin {"close", "mark", "wait"} /\ UNCHANGED connected
      BY <1>2, <1>3, <1>4, <2>1, <2>6 DEF OneAtATime
  <2>7. ~DisconnectMark(s) => UNCHANGED connected
      BY DEF RcvStep, RecvCall, RecvMessage, RecvEmpty, RecvError, Switch, Terminate,
             DisconnectTest, DisconnectClose, Echo, Callback, libVars
  <2>8. rcv'[s] \in {"close", "mark", "wait"} =>
          \/ RecvCall(s) /\ rcv'[s] = "wait"
          \/ DisconnectTest(s) /\ rcv'[s] = "close"
          \/ DisconnectClose(s)
    <3>1. CASE RecvCall(s)
      <4>1. rcv'[s] \in {"wait", "ended"}
          BY <3>1 DEF RecvCall, Go, TypeOK
      <4>. QED
          BY <3>1, <4>1
    <3>2. CASE Terminate(s)
        BY <3>2 DEF Terminate
    <3>3. CASE RecvEmpty(s) \/ RecvError(s) \/ Switch(s) \/ Echo(s) \/ Callback(s) \/ DisconnectMark(s)
        BY <3>3 DEF RecvEmpty, RecvError, Switch, Echo, Callback, DisconnectMark, Disconnected,
                    LoopsOn, Go, TypeOK
    <3>4. CASE DisconnectTest(s) \/ DisconnectClose(s)
        BY <3>4 DEF DisconnectTest, Disconnected, Go, TypeOK
    <3>. QED
        BY <1>6, <3>1, <3>2, <3>3, <3>4 DEF RcvStep
  <2>. QED
      BY <2>2, <2>3, <2>4, <2>5, <2>6, <2>7, <2>8
<1>. QED
    BY <1>5, <1>6

LEMMA OneNext ==
  TypeOK /\ Wired /\ Numbered /\ Prepared /\ OneAtATime /\ [Next]_vars /\ ~twins' => OneAtATime'
<1> SUFFICES ASSUME TypeOK, Wired, Numbered, Prepared, OneAtATime, [Next]_vars, ~twins'
             PROVE  OneAtATime'
    OBVIOUS
<1>1. CASE /\ UNCHANGED <<connected, sock, con, rcv, at, stream, sent, got>>
           /\ \A t \in Sock : conn'[t] \in Open <=> conn[t] \in Open
  <2>1. \A t \in Sock : rcv[t] = "mark" => sock \in Sock
      BY DEF OneAtATime, Prepared
  <2>. QED
      BY <1>1, <2>1 DEF OneAtATime, Alive
<1>2. CASE ServerStarts \/ ServerExits \/ UNCHANGED vars
  <2>1. \/ conn' = conn
        \/ \E how \in Lost : conn' = [t \in Sock |-> IF conn[t] = "up" THEN how ELSE conn[t]]
      BY <1>2 DEF ServerStarts, ServerExits, vars, netVars
  <2>2. \A t \in Sock : conn'[t] \in Open <=> conn[t] \in Open
      BY <2>1 DEF Open, Held, Lost
  <2>3. UNCHANGED <<connected, sock, con, rcv, at, stream, sent, got>>
      BY <1>2 DEF ServerStarts, ServerExits, vars, libVars, thrVars, netVars, histVars
  <2>. QED
      BY <1>1, <2>2, <2>3
<1>3. ASSUME NEW s \in Sock, NetworkBreaks(s)
      PROVE  OneAtATime'
    BY <1>1, <1>3 DEF NetworkBreaks, libVars, thrVars, histVars, Open, Held, Lost, TypeOK
<1>4. ASSUME NEW s \in Sock, NEW k \in Kinds, ServerSends(s, k)
      PROVE  OneAtATime'
  <2>1. /\ UNCHANGED <<connected, sock, con, rcv, at, conn, got>> /\ sent' = sent + 1 /\ sent \in Nat
        /\ stream' = [stream EXCEPT ![s] = Append(@, [kind |-> k, id |-> sent'])]
      BY <1>4, BoundsAssumption DEF ServerSends, libVars, thrVars, histVars, TypeOK
  <2>2. ASSUME NEW t \in Sock
        PROVE  Len(stream[t]) \in Nat /\ Len(stream'[t]) <= Len(stream[t]) + 1 /\ Len(stream'[t]) \in Nat
    <3>1. stream[t] \in Seq(Sent) /\ [kind |-> k, id |-> sent'] \in Sent
      <4>1. sent' \in 1..MaxSent
          BY <1>4, BoundsAssumption DEF ServerSends, TypeOK
      <4>. QED
          BY <4>1 DEF Wired, Sent
    <3>2. stream'[t] = stream[t] \/ stream'[t] = Append(stream[t], [kind |-> k, id |-> sent'])
        BY <2>1 DEF Wired
    <3>. QED
        BY <3>1, <3>2, AppendProperties, LenProperties
  <2>3. Len(got) \in Nat
      BY LenProperties DEF TypeOK
  <2>4. Len(got') <= sent' /\ (sock' \in Sock => Len(got') + Len(stream'[sock']) <= sent')
      BY <2>1, <2>2, <2>3 DEF OneAtATime
  <2>. QED
      BY <2>1, <2>4 DEF OneAtATime, Alive
<1>. QED
    BY <1>2, <1>3, <1>4, OneConStep, OneRcvStep DEF Next
-----------------------------------------------------------------------------
(* Every message is handed on once. *)

LEMMA EmptyStays == [Next]_vars /\ empty => empty'
BY DEF Next, ServerStarts, ServerExits, NetworkBreaks, ServerSends, ConStep, Test, SocketFails,
       Socket, Connect, Mark, Register, Start, Store, Release, Control,
       RcvStep, RecvCall, RecvMessage, RecvEmpty, RecvError, Switch, Terminate, DisconnectTest,
       DisconnectClose, DisconnectMark, Echo, Callback, vars, histVars

\* What is neither the start of a thread nor a step of one is not seen by it.
LEMMA OtherSteps ==
  [Next]_vars => \/ UNCHANGED <<rcv, got, calls, msg>> \/ Start \/ \E s \in Sock : RcvStep(s)
BY DEF Next, ServerStarts, ServerExits, NetworkBreaks, ServerSends, ConStep, Test, SocketFails,
       Socket, Connect, Mark, Register, Store, Release, Control,
       vars, histVars, libVars, thrVars

LEMMA KilledStays == TypeOK /\ Wired /\ Numbered /\ [Next]_vars /\ Killed => Killed'
<1> SUFFICES ASSUME TypeOK, Wired, Numbered, [Next]_vars, NEW k \in Sock, rcv[k] = "killed"
             PROVE  rcv'[k] = "killed"
    BY DEF Killed
<1>1. CASE UNCHANGED rcv
    BY <1>1
<1>2. CASE Start
  <2>1. rcv' = [rcv EXCEPT ![sock] = "recv"] /\ rcv[sock] = "none"
      BY <1>2 DEF Start, Numbered
  <2>. QED
      BY <2>1 DEF TypeOK
<1>3. ASSUME NEW s \in Sock, RcvStep(s)
      PROVE  rcv'[k] = "killed"
    BY <1>3, RcvShape DEF Alive, Gone
<1>. QED
    BY <1>1, <1>2, <1>3, OtherSteps

LEMMA CalledRcvStep ==
  ASSUME TypeOK, Prepared, OneAtATime, OneAtATime', CalledSoFar, ~empty', ~Killed',
         NEW s \in Sock, RcvStep(s)
  PROVE  CalledSoFar'
<1>1. \A t \in Sock : (Handling(t) => t = s) /\ (Handling(t)' => t = s)
  <2>1. Alive(s) /\ \A t \in Sock : (Handling(t) => Alive(t)) /\ (Handling(t)' => Alive(t)')
      BY RcvShape DEF Handling, Alive, Gone
  <2>2. \A t \in Sock : Alive(t) => t = s
      BY <2>1 DEF OneAtATime
  <2>3. \A t \in Sock : Alive(t)' => t = s
      BY <2>1, <2>2, RcvShape DEF Alive, Gone
  <2>. QED
      BY <2>1, <2>2, <2>3
<1>2. /\ Handling(s) => got = Append(calls, msg.id)
      /\ ~Handling(s) => got = calls
    BY <1>1 DEF CalledSoFar
<1>3. SUFFICES /\ Handling(s)' => got' = Append(calls', msg'.id)
               /\ ~Handling(s)' => got' = calls'
    BY <1>1 DEF CalledSoFar
<1>4. CASE RecvMessage(s)
    BY <1>2, <1>4 DEF RecvMessage, Handling, Go, TypeOK
<1>5. CASE Callback(s)
  <2>1. Handling(s) /\ ~Handling(s)' /\ got' = got
      BY <1>5 DEF Callback, Handling, Go, LoopsOn, TypeOK
  <2>2. callback
      BY <1>5 DEF Callback, Prepared
  <2>3. Len(got) = Len(calls) + 1 /\ Len(calls) \in Nat
      BY <1>2, <2>1, AppendProperties, LenProperties DEF TypeOK, Message
  <2>4. Len(calls) <= MaxSent
      BY <2>3, BoundsAssumption DEF OneAtATime, TypeOK
  <2>. QED
      BY <1>2, <1>5, <2>1, <2>2, <2>4 DEF Callback
<1>6. CASE RecvCall(s) \/ RecvError(s)
    BY <1>2, <1>6 DEF RecvCall, RecvError, Handling, Go, TypeOK, libVars, histVars
<1>7. CASE Switch(s) \/ DisconnectTest(s) \/ DisconnectClose(s) \/ DisconnectMark(s) \/ Echo(s)
    BY <1>2, <1>7 DEF Switch, DisconnectTest, DisconnectClose, DisconnectMark, Disconnected, Echo,
                      Handling, Go, TypeOK, libVars, histVars
<1>8. CASE Terminate(s)
  <2>1. rcv'[s] \in {"killed", "test"}
      BY <1>8 DEF Terminate, Alive, Gone
  <2>2. Handling(s) /\ Handling(s)' /\ UNCHANGED <<got, calls, msg>>
      BY <1>8, <2>1 DEF Terminate, Handling, Killed, libVars, histVars
  <2>. QED
      BY <1>2, <2>2
<1>9. ~RecvEmpty(s)
    BY DEF RecvEmpty
<1>. QED
    BY <1>4, <1>5, <1>6, <1>7, <1>8, <1>9 DEF RcvStep

LEMMA CalledNext ==
  /\ TypeOK /\ Wired /\ Numbered /\ Prepared /\ OneAtATime /\ OneAtATime' /\ CalledSoFar
  /\ [Next]_vars /\ ~empty' /\ ~Killed'
  => CalledSoFar'
<1> SUFFICES ASSUME TypeOK, Wired, Numbered, Prepared, OneAtATime, OneAtATime', CalledSoFar,
                    [Next]_vars, ~empty', ~Killed'
             PROVE  CalledSoFar'
    OBVIOUS
<1>1. CASE UNCHANGED <<rcv, got, calls, msg>>
    BY <1>1 DEF CalledSoFar, Handling
<1>2. CASE Start
  <2>1. rcv' = [rcv EXCEPT ![sock] = "recv"] /\ rcv[sock] = "none" /\ UNCHANGED <<got, calls, msg>>
      BY <1>2 DEF Start, Numbered, libVars
  <2>2. \A t \in Sock : Handling(t)' <=> Handling(t)
      BY <2>1 DEF Handling, TypeOK
  <2>. QED
      BY <2>1, <2>2 DEF CalledSoFar
<1>. QED
    BY <1>1, <1>2, CalledRcvStep, OtherSteps

-----------------------------------------------------------------------------
(* The theorems. *)

LEMMA LibInvNext == LibInv /\ [Next]_vars => LibInv'
<1> SUFFICES ASSUME LibInv, [Next]_vars PROVE LibInv'
    OBVIOUS
<1>1. /\ TypeOK /\ Wired /\ Numbered /\ Prepared /\ ConnectedHeard
      /\ TypeOK' /\ Wired' /\ Numbered' /\ Prepared' /\ ConnectedHeard'
    BY TypeNext, NumberedNext, PreparedNext, HeardNext DEF LibInv
<1>2. ~twins' => ~twins /\ OneAtATime /\ OneAtATime'
    BY <1>1, TwinsStay, OneNext DEF LibInv
<1>3. ~empty' /\ ~Killed' => ~empty /\ ~Killed
    BY <1>1, EmptyStays, KilledStays
<1>4. ~empty' /\ ~twins' /\ ~Killed' => CalledSoFar'
    BY <1>1, <1>2, <1>3, CalledNext DEF LibInv
<1>. QED
    BY <1>1, <1>2, <1>4 DEF LibInv

LEMMA LibInvHolds == Spec => []LibInv
BY LibInit, LibInvNext, PTL DEF Spec

\* Every variable has its type, and the handle that the next _lib_Disconnect
\* terminates (_lib_DirectClient.cpp, g_ThreadParam.hThread) is 0 or stood for
\* a thread that was started.
THEOREM TypeCorrect == Spec => []TypeOK
<1>1. LibInv => TypeOK
    BY DEF LibInv
<1>. QED
    BY <1>1, LibInvHolds, PTL

\* While the library says it is connected and the server has not gone,
\* THREAD_MESSAGE_RECV runs on that connection, unless _lib_Disconnect has
\* terminated a thread: no interleaving of _lib_Connect with the end of an older
\* thread leaves a connection without a reader.
THEOREM ConnectionHeard == Spec => []ConnectedHeard
<1>1. LibInv => ConnectedHeard
    BY DEF LibInv
<1>. QED
    BY <1>1, LibInvHolds, PTL

\* As long as one receiving thread ran at a time, the only socket that is open
\* is g_sock, and the library says so or is about to: _lib_Connect never
\* replaces a socket that _lib_Disconnect has not closed.
THEOREM SocketsRemembered == Spec => []NoSocketForgotten
<1>1. LibInv => NoSocketForgotten
    BY DEF LibInv, OneAtATime, Open, NoSocketForgotten
<1>. QED
    BY <1>1, LibInvHolds, PTL

\* The callback gets every message that recv returned, once and in order, over
\* disconnections and reconnections, as long as one thread ran at a time, none
\* was terminated, and recv never returned 0.
THEOREM MessagesCalledOnce == Spec => []CalledOnce
<1>1. ASSUME LibInv, ~empty, ~twins, ~Killed
      PROVE  calls = got \/ calls = SubSeq(got, 1, Len(got) - 1)
  <2>1. CASE got = calls
      BY <2>1
  <2>2. CASE got = Append(calls, msg.id)
    <3>1. calls \in Seq(0..MaxSent) /\ msg.id \in 0..MaxSent
        BY <1>1 DEF LibInv, TypeOK, Message
    <3>2. Len(got) = Len(calls) + 1 /\ Len(calls) \in Nat
          /\ \A i \in 1..Len(calls) : got[i] = calls[i]
        BY <2>2, <3>1, AppendProperties, LenProperties
    <3>3. got \in Seq(1..MaxSent) /\ Len(got) - 1 = Len(calls)
        BY <1>1, <3>2 DEF LibInv, TypeOK
    <3>4. calls = SubSeq(got, 1, Len(calls))
        BY <2>2, <3>1, <3>2, <3>3, SubSeqProperties, LenProperties
    <3>. QED
        BY <3>3, <3>4
  <2>. QED
      BY <1>1, <2>1, <2>2 DEF LibInv, CalledSoFar
<1>2. LibInv => CalledOnce
    BY <1>1 DEF CalledOnce
<1>. QED
    BY <1>2, LibInvHolds, PTL

================================================================================
