-------------------------- MODULE ClientSockProofs --------------------------
(***************************************************************************)
(* Proofs about ClientSock, for any number of relaying threads: its types, *)
(* and that an orderly teardown frees an object nobody uses.               *)
(***************************************************************************)
EXTENDS ClientSock, TLAPS

-----------------------------------------------------------------------------
(* The inductive invariant. *)

\* Before anybody destroys the object, the flag and the handle are what the
\* start left there.
StartedWhole ==
  destroyers = {} =>
    /\ ~freed
    /\ st["R"] \notin {"none", "init"} => flag
    /\ st["L"] = "ended" => handle

\* A thread inside the destructor is on record, and if it was not early both
\* threads were under way and still are.
Recorded ==
  /\ \A t \in Destroyers : st[t] \in {"clear", "wait", "free", "log"} => t \in destroyers
  /\ destroyers # {} /\ ~early => UnderWay

\* R ends after P.
EndsInOrder == st["R"] = "ended" => st["P"] = "ended" \/ freed

\* How far the one destroyer of an orderly teardown has come.
Stage(t) ==
  IF freed
    THEN /\ st["R"] = "ended" /\ st["P"] = "ended"
         /\ st[t] \in {"log", "others", "gone"}
    ELSE \/ st[t] = "clear" /\ handle
         \/ st[t] = "wait"
         \/ st[t] = "free" /\ st["R"] = "ended"

OneDestroyer == Orderly => ~crashed /\ \A t \in destroyers : Stage(t)

TeardownInv == StartedWhole /\ Recorded /\ EndsInOrder /\ OneDestroyer

-----------------------------------------------------------------------------
(* Types. *)

LEMMA TypeInit == Init => TypeOK
<1> SUFFICES ASSUME Init PROVE TypeOK
  OBVIOUS
<1>1. st \in [Threads -> Stations]
  <2> DEFINE First(t) == CASE t = "L" -> "created" [] t \in {"R", "P"} -> "none" [] OTHER -> "away"
  <2>1. \A t \in Threads : First(t) \in Stations
    BY DEF Stations
  <2>2. st = [t \in Threads |-> First(t)]
    BY DEF Init
  <2> HIDE DEF First
  <2> QED
    BY <2>1, <2>2
<1>2. 0 \in 0..MaxQueue
  BY QueueAssumption
<1> QED
  BY <1>1, <1>2 DEF Init, TypeOK

LEMMA TypeStep == TypeOK /\ [Next]_vars => TypeOK'
<1> SUFFICES ASSUME TypeOK, [Next]_vars PROVE TypeOK'
  OBVIOUS
<1> USE RelaysAssumption, QueueAssumption
        DEF TypeOK, Goto, Threads, Destroyers, Stations, DestroyState, objVars, listVars, histVars
<1>1. CASE PeerCloses
  BY <1>1 DEF PeerCloses
<1>2. CASE ConnBreaks
  BY <1>2 DEF ConnBreaks
<1>3. CASE Shutdown
  BY <1>3 DEF Shutdown
<1>4. CASE DeleteListed
  BY <1>4 DEF DeleteListed
<1>5. CASE ShutdownEnds
  BY <1>5 DEF ShutdownEnds
<1>6. CASE Fault
  BY <1>6 DEF Fault
<1>7. CASE LogCreated
  BY <1>7 DEF LogCreated
<1>8. CASE StartRecvBegin
  BY <1>8 DEF StartRecvBegin
<1>9. CASE StartRecvHandle
  BY <1>9 DEF StartRecvHandle
<1>10. CASE RecvInit
  BY <1>10 DEF RecvInit
<1>11. CASE StartProc
  BY <1>11 DEF StartProc
<1>12. CASE RecvCheck
  BY <1>12 DEF RecvCheck
<1>13. CASE Recv
  <2>1. CASE conn = "open"
    BY <1>13, <2>1 DEF Recv
  <2>2. CASE conn = "closed"
    BY <1>13, <2>2 DEF Recv
  <2>3. CASE conn = "reset"
    BY <1>13, <2>3 DEF Recv
  <2> QED
    BY <1>13, <2>1, <2>2, <2>3
<1>14. CASE StopProc
  BY <1>14 DEF StopProc
<1>15. CASE ProcInit
  BY <1>15 DEF ProcInit
<1>16. CASE ProcCheck
  BY <1>16 DEF ProcCheck
<1>17. CASE ProcTake
  <2>1. queued # 0 => queued - 1 \in 0..MaxQueue
    OBVIOUS
  <2>2. UNCHANGED <<flag, handle, freed, listed, lock, destroyers, early, conn, crashed>>
    BY <1>17 DEF ProcTake
  <2>3. \E w \in {"check", "report"} : st' = [st EXCEPT !["P"] = w]
    BY <1>17 DEF ProcTake
  <2>4. queued' \in 0..MaxQueue
    BY <1>17, <2>1 DEF ProcTake
  <2> QED
    BY <2>2, <2>3, <2>4
<1>18. CASE ProcReport
  BY <1>18 DEF ProcReport
<1>19. CASE ProcWork
  <2>1. CASE Goto("P", "result")
    BY <1>19, <2>1 DEF ProcWork
  <2>2. CASE Goto("P", "held")
    BY <1>19, <2>2 DEF ProcWork
  <2>3. CASE Goto("P", "remove")
    BY <1>19, <2>3 DEF ProcWork
  <2> QED
    BY <1>19, <2>1, <2>2, <2>3 DEF ProcWork
<1>20. CASE ProcReturn \/ ProcReleased \/ ProcResult
  BY <1>20 DEF ProcReturn, ProcReleased, ProcResult
<1>21. CASE \E t \in Relays \union {"G"} : RelayFails(t)
  BY <1>21 DEF RelayFails
<1>22. ASSUME NEW t \in Destroyers, RemoveClient(t) PROVE TypeOK'
  BY <1>22 DEF RemoveClient, Return
<1>23. ASSUME NEW t \in Destroyers, Acquire(t) PROVE TypeOK'
  BY <1>23 DEF Acquire
<1>24. ASSUME NEW t \in Destroyers, Unlink(t) PROVE TypeOK'
  BY <1>24 DEF Unlink
<1>25. ASSUME NEW t \in Destroyers, Delete(t) PROVE TypeOK'
  BY <1>25 DEF Delete
<1>26. ASSUME NEW t \in Destroyers, Clear(t) PROVE TypeOK'
  BY <1>26 DEF Clear
<1>27. ASSUME NEW t \in Destroyers, Wait(t) PROVE TypeOK'
  BY <1>27 DEF Wait
<1>28. ASSUME NEW t \in Destroyers, Free(t) PROVE TypeOK'
  <2>1. \E w \in Stations : st' = [st EXCEPT ![t] = w]
    BY <1>28 DEF Free, Return
  <2>2. st' \in [Threads -> Stations]
    BY <2>1
  <2>3. queued \div 2 \in 0..MaxQueue
    OBVIOUS
  <2> QED
    BY <1>28, <2>2, <2>3 DEF Free
<1>29. ASSUME NEW t \in Destroyers, LogDestroyed(t) PROVE TypeOK'
  BY <1>29 DEF LogDestroyed, Return
<1>30. CASE UNCHANGED vars
  BY <1>30 DEF vars
<1> QED
  BY <1>1, <1>2, <1>3, <1>4, <1>5, <1>6, <1>7, <1>8, <1>9, <1>10, <1>11, <1>12, <1>13, <1>14, <1>15, <1>16, <1>17, <1>18, <1>19, <1>20, <1>21, <1>22, <1>23, <1>24, <1>25, <1>26, <1>27, <1>28, <1>29, <1>30 DEF Next, ListenStep, RecvStep, ProcStep, DestroyStep

\* Every variable of ClientSock has its type: what a thread may do is one of its
\* stations, the list lock has one holder, and the queue is never popped empty.
THEOREM TypeCorrect == Spec => []TypeOK
<1>1. Init => TypeOK
  BY TypeInit
<1>2. TypeOK /\ [Next]_vars => TypeOK'
  BY TypeStep
<1> QED
  BY <1>1, <1>2, PTL DEF Spec

-----------------------------------------------------------------------------
(* An orderly teardown. *)

LEMMA TeardownInit == Init => TeardownInv
  BY RelaysAssumption DEF Init, TeardownInv, StartedWhole, Recorded, EndsInOrder, OneDestroyer,
     Orderly, Begun, UnderWay, Threads, Destroyers

LEMMA TeardownStep == TypeOK /\ TypeOK' /\ TeardownInv /\ [Next]_vars => TeardownInv'
<1> SUFFICES ASSUME TypeOK, TypeOK', TeardownInv, [Next]_vars PROVE TeardownInv'
  OBVIOUS
<1> USE RelaysAssumption, QueueAssumption
        DEF TypeOK, TeardownInv, StartedWhole, Recorded, EndsInOrder, OneDestroyer, Stage,
            Orderly, Begun, UnderWay, Goto, Threads, Destroyers, objVars, listVars, histVars
<1>1. CASE PeerCloses
  BY <1>1 DEF PeerCloses
<1>2. CASE ConnBreaks
  BY <1>2 DEF ConnBreaks
<1>3. CASE Shutdown
  BY <1>3 DEF Shutdown
<1>4. CASE DeleteListed
  BY <1>4 DEF DeleteListed
<1>5. CASE ShutdownEnds
  BY <1>5 DEF ShutdownEnds
<1>6. CASE Fault
  BY <1>6 DEF Fault, Touching
<1>7. CASE LogCreated
  BY <1>7 DEF LogCreated
<1>8. CASE ~crashed /\ StartRecvBegin
  <2>1. ~UnderWay /\ ~UnderWay'
    BY <1>8 DEF StartRecvBegin
  <2>2. StartedWhole'
    BY <1>8, <2>1 DEF StartRecvBegin
  <2>3. Recorded'
    BY <1>8, <2>1 DEF StartRecvBegin
  <2>4. EndsInOrder'
    BY <1>8, <2>1 DEF StartRecvBegin
  <2>5. OneDestroyer'
    BY <1>8, <2>1 DEF StartRecvBegin
  <2> QED
    BY <2>2, <2>3, <2>4, <2>5
<1>9. CASE StartRecvHandle
  BY <1>9 DEF StartRecvHandle
<1>10. CASE RecvInit
  BY <1>10 DEF RecvInit
<1>11. CASE ~crashed /\ StartProc
  <2>1. ~UnderWay /\ ~UnderWay'
    BY <1>11 DEF StartProc
  <2>2. StartedWhole'
    BY <1>11, <2>1 DEF StartProc
  <2>3. Recorded'
    BY <1>11, <2>1 DEF StartProc
  <2>4. EndsInOrder'
    BY <1>11, <2>1 DEF StartProc
  <2>5. OneDestroyer'
    BY <1>11, <2>1 DEF StartProc
  <2> QED
    BY <2>2, <2>3, <2>4, <2>5
<1>12. CASE RecvCheck
  BY <1>12 DEF RecvCheck
<1>13. CASE Recv
  <2>1. CASE conn = "open"
    BY <1>13, <2>1 DEF Recv
  <2>2. CASE conn = "closed"
    BY <1>13, <2>2 DEF Recv
  <2>3. CASE conn = "reset"
    BY <1>13, <2>3 DEF Recv
  <2> QED
    BY <1>13, <2>1, <2>2, <2>3
<1>14. CASE StopProc
  BY <1>14 DEF StopProc
<1>15. CASE ProcInit
  BY <1>15 DEF ProcInit
<1>16. CASE ProcCheck
  BY <1>16 DEF ProcCheck
<1>17. CASE ProcTake
  BY <1>17 DEF ProcTake
<1>18. CASE ProcReport
  BY <1>18 DEF ProcReport
<1>19. CASE ProcWork
  BY <1>19 DEF ProcWork
<1>20. CASE ProcReturn \/ ProcReleased \/ ProcResult
  BY <1>20 DEF ProcReturn, ProcReleased, ProcResult
<1>21. CASE \E t \in Relays \union {"G"} : RelayFails(t)
  BY <1>21 DEF RelayFails
<1>22. ASSUME NEW t \in Destroyers, RemoveClient(t) PROVE TeardownInv'
  BY <1>22 DEF RemoveClient, Return
<1>23. ASSUME NEW t \in Destroyers, Acquire(t) PROVE TeardownInv'
  BY <1>23 DEF Acquire
<1>24. ASSUME NEW t \in Destroyers, Unlink(t) PROVE TeardownInv'
  BY <1>24 DEF Unlink
<1>25. ASSUME NEW t \in Destroyers, Delete(t) PROVE TeardownInv'
  <2>1. \E w \in {"clear", "free"} : st' = [st EXCEPT ![t] = w]
    BY <1>25 DEF Delete
  <2>2. StartedWhole' /\ EndsInOrder'
    BY <1>25, <2>1 DEF Delete
  <2>3. Recorded'
    BY <1>25, <2>1 DEF Delete
  <2>4. ASSUME Orderly' PROVE ~crashed' /\ \A u \in destroyers' : Stage(u)'
    <3>1. UnderWay /\ ~early /\ t \in destroyers' /\ destroyers \subseteq destroyers'
      BY <1>25, <2>4 DEF Delete
    <3>2. \A u \in Destroyers : u # t => st'[u] = st[u]
      BY <2>1
    <3>3. Begun \subseteq Begun' /\ t \in Begun
      BY <1>25, <3>1, <3>2 DEF Delete
    <3>4. Orderly /\ UnderWay /\ destroyers' = {t}
      <4>1. \A u, v \in Begun' : u = v
        BY <2>4
      <4>2. \A u \in destroyers' : u = t
        BY <3>1, <4>1
      <4>3. destroyers' = {t}
        BY <3>1, <4>2
      <4>4. Orderly
        BY <3>1, <3>3, <4>1
      <4> QED
        BY <3>1, <4>3, <4>4
    <3>5. destroyers = {}
      BY <1>25, <3>4 DEF Delete
    <3>6. flag /\ handle /\ ~freed
      BY <3>4, <3>5
    <3> QED
      BY <1>25, <3>4, <3>6 DEF Delete
  <2> QED
    BY <2>2, <2>3, <2>4
<1>26. ASSUME NEW t \in Destroyers, Clear(t) PROVE TeardownInv'
  BY <1>26 DEF Clear
<1>27. ASSUME NEW t \in Destroyers, Wait(t) PROVE TeardownInv'
  BY <1>27 DEF Wait
<1>28. ASSUME NEW t \in Destroyers, Free(t) PROVE TeardownInv'
  BY <1>28 DEF Free, Return
<1>29. ASSUME NEW t \in Destroyers, LogDestroyed(t) PROVE TeardownInv'
  BY <1>29 DEF LogDestroyed, Return
<1>30. CASE UNCHANGED vars
  BY <1>30 DEF vars
<1> QED
  BY <1>1, <1>2, <1>3, <1>4, <1>5, <1>6, <1>7, <1>8, <1>9, <1>10, <1>11, <1>12, <1>13, <1>14, <1>15, <1>16, <1>17, <1>18, <1>19, <1>20, <1>21, <1>22, <1>23, <1>24, <1>25, <1>26, <1>27, <1>28, <1>29, <1>30 DEF Next, ListenStep, RecvStep, ProcStep, DestroyStep

\* In an orderly teardown - one destroyer, and after both threads were under
\* way - the object is freed after its threads have ended, and nothing touches
\* freed memory: StopRecv waits for the receiving thread and that one for the
\* processing thread before it ends.
THEOREM TeardownSafe == Spec => []SafeTeardown
<1>1. Init => TypeOK /\ TeardownInv
  BY TypeInit, TeardownInit
<1>2. (TypeOK /\ TeardownInv) /\ [Next]_vars => (TypeOK /\ TeardownInv)'
  BY TypeStep, TeardownStep
<1>3. TypeOK /\ TeardownInv => SafeTeardown
  <2> SUFFICES ASSUME TypeOK, TeardownInv, Orderly, freed, NEW t \in Threads, Touching(t)
               PROVE FALSE
    BY DEF SafeTeardown, TeardownInv, OneDestroyer
  <2> PICK d \in destroyers : Stage(d)
    BY DEF TeardownInv, StartedWhole, OneDestroyer
  <2> QED
    BY RelaysAssumption DEF Touching, TypeOK, TeardownInv, Recorded, OneDestroyer, Stage, Orderly, Begun,
       UnderWay, Threads, Destroyers
<1> QED
  BY <1>1, <1>2, <1>3, PTL DEF Spec

-----------------------------------------------------------------------------
(* The request to stop. *)

\* What sets the flag: a thread that begins, and the memory of a freed object.
LEMMA FlagSetters ==
  TypeOK /\ [Next]_vars /\ ~flag /\ flag' => ~UnderWay \/ freed'
<1> SUFFICES ASSUME TypeOK, Next, ~flag, flag', ~freed' PROVE ~UnderWay
  BY DEF vars, objVars
<1>1. UNCHANGED flag \/ StartRecvBegin \/ RecvInit \/ ProcInit
  BY DEF Next, ListenStep, RecvStep, ProcStep, DestroyStep, PeerCloses, ConnBreaks, Shutdown,
         DeleteListed, ShutdownEnds, Fault, LogCreated, StartRecvHandle, StartProc, RecvCheck, Recv,
         StopProc, ProcCheck, ProcTake, ProcReport, ProcWork, ProcReturn, ProcReleased, ProcResult,
         RelayFails, RemoveClient,
         Acquire, Unlink, Delete, Clear, Wait, Free, LogDestroyed, objVars
<1>. QED
  BY <1>1 DEF StartRecvBegin, RecvInit, ProcInit, UnderWay

\* Who begins to wait has cleared the flag; an early destroyer stays on record,
\* and a freed object stays freed.
LEMMA Waiters ==
  TypeOK /\ [Next]_vars =>
    /\ \A t \in Destroyers : st'[t] = "wait" => st[t] = "wait" \/ ~flag'
    /\ (early => early') /\ (freed => freed')
<1> SUFFICES ASSUME TypeOK, [Next]_vars
             PROVE  /\ \A t \in Destroyers : st'[t] = "wait" => st[t] = "wait" \/ ~flag'
                    /\ (early => early') /\ (freed => freed')
  OBVIOUS
<1> USE RelaysAssumption DEF TypeOK, Threads, Destroyers, Goto, objVars, listVars, histVars
<1>1. CASE PeerCloses \/ ConnBreaks \/ Shutdown \/ DeleteListed \/ ShutdownEnds \/ Fault
  BY <1>1 DEF PeerCloses, ConnBreaks, Shutdown, DeleteListed, ShutdownEnds, Fault
<1>2. CASE ListenStep
  BY <1>2 DEF ListenStep, LogCreated, StartRecvBegin, StartRecvHandle
<1>3. CASE RecvStep
  BY <1>3 DEF RecvStep, RecvInit, StartProc, RecvCheck, Recv, StopProc
<1>4. CASE ProcStep \/ ProcReleased
  BY <1>4 DEF ProcStep, ProcReleased, ProcInit, ProcCheck, ProcTake, ProcReport, ProcWork,
              ProcReturn, ProcResult
<1>5. CASE \E t \in Relays \union {"G"} : RelayFails(t)
  BY <1>5 DEF RelayFails
<1>6. ASSUME NEW t \in Destroyers, DestroyStep(t)
      PROVE  /\ \A u \in Destroyers : st'[u] = "wait" => st[u] = "wait" \/ ~flag'
             /\ (early => early') /\ (freed => freed')
  BY <1>6 DEF DestroyStep, RemoveClient, Acquire, Unlink, Delete, Clear, Wait, Free, LogDestroyed,
              Return
<1>7. CASE UNCHANGED vars
  BY <1>7 DEF vars
<1>. QED
  BY <1>1, <1>2, <1>3, <1>4, <1>5, <1>6, <1>7 DEF Next

\* Before anybody has destroyed the client, one that is off the list, or whose R
\* waits for P, has somebody who is about to; and a destroyer logs after it freed.
Pursued ==
  /\ destroyers = {} /\ (~listed \/ st["R"] = "stopproc") =>
       \E t \in Destroyers : st[t] = "delete"
  /\ \A t \in Destroyers : st[t] = "log" => freed

\* Where R goes from recv.
LEMMA RecvGoes ==
  TypeOK /\ Recv =>
    st["R"] = "recv" /\ \E w \in {"check", "remove"} : st' = [st EXCEPT !["R"] = w]
<1> SUFFICES ASSUME TypeOK, Recv
             PROVE  st["R"] = "recv" /\ \E w \in {"check", "remove"} : st' = [st EXCEPT !["R"] = w]
  OBVIOUS
<1>1. CASE conn = "open"
  BY <1>1 DEF Recv, Goto
<1>2. CASE conn = "closed"
  BY <1>2 DEF Recv, Goto
<1>3. CASE conn = "reset"
  BY <1>3 DEF Recv, Goto
<1>. QED
  BY <1>1, <1>2, <1>3 DEF TypeOK

\* How a client comes off the list and R to wait for P.
LEMMA Leavers ==
  TypeOK /\ [Next]_vars =>
    /\ ~listed' => ~listed \/ \E t \in Destroyers : st'[t] = "delete"
    /\ st'["R"] = "stopproc" =>
         \/ st["R"] = "stopproc"
         \/ ~flag' /\ ~flag /\ st["R"] = "check"
         \/ ~listed /\ ~listed'
         \/ freed'
         \/ st["R"] = "log"
    /\ \A t \in Destroyers : st'[t] = "log" => st[t] = "log" \/ freed'
<1> SUFFICES ASSUME TypeOK, [Next]_vars
             PROVE  /\ ~listed' => ~listed \/ \E t \in Destroyers : st'[t] = "delete"
                    /\ st'["R"] = "stopproc" =>
                         \/ st["R"] = "stopproc"
                         \/ ~flag' /\ ~flag /\ st["R"] = "check"
                         \/ ~listed /\ ~listed'
                         \/ freed'
                         \/ st["R"] = "log"
                    /\ \A t \in Destroyers : st'[t] = "log" => st[t] = "log" \/ freed'
  OBVIOUS
<1> USE RelaysAssumption DEF TypeOK, Threads, Destroyers, Goto, objVars, listVars, histVars
<1>1. CASE PeerCloses \/ ConnBreaks \/ Shutdown \/ DeleteListed \/ ShutdownEnds \/ Fault
  BY <1>1 DEF PeerCloses, ConnBreaks, Shutdown, DeleteListed, ShutdownEnds, Fault
<1>2. CASE ListenStep
  BY <1>2 DEF ListenStep, LogCreated, StartRecvBegin, StartRecvHandle
<1>3. CASE RecvStep
  <2>1. CASE Recv
    <3>1. \E w \in {"check", "remove"} : st' = [st EXCEPT !["R"] = w]
      BY <2>1, RecvGoes
    <3>2. UNCHANGED <<listed, freed>>
      BY <2>1 DEF Recv
    <3>. QED
      BY <3>1, <3>2
  <2>2. CASE ~Recv
    BY <1>3, <2>2 DEF RecvStep, RecvInit, StartProc, RecvCheck, StopProc
  <2>. QED
    BY <2>1, <2>2
<1>4. CASE ProcStep \/ ProcReleased
  BY <1>4 DEF ProcStep, ProcReleased, ProcInit, ProcCheck, ProcTake, ProcReport, ProcWork,
              ProcReturn, ProcResult
<1>5. CASE \E t \in Relays \union {"G"} : RelayFails(t)
  BY <1>5 DEF RelayFails
<1>6. CASE \E t \in Destroyers : DestroyStep(t)
  <2>1. PICK t \in Destroyers : DestroyStep(t)
    BY <1>6
  <2>2. CASE RemoveClient(t) \/ Acquire(t) \/ Unlink(t)
    BY <2>2 DEF RemoveClient, Acquire, Unlink, Return
  <2>3. CASE Delete(t) \/ Clear(t) \/ Wait(t)
    BY <2>3 DEF Delete, Clear, Wait
  <2>4. CASE Free(t)
    BY <2>4 DEF Free, Return
  <2>5. CASE LogDestroyed(t)
    BY <2>5 DEF LogDestroyed, Return
  <2>. QED
    BY <2>1, <2>2, <2>3, <2>4, <2>5 DEF DestroyStep
<1>7. CASE UNCHANGED vars
  BY <1>7 DEF vars
<1>. QED
  BY <1>1, <1>2, <1>3, <1>4, <1>5, <1>6, <1>7 DEF Next

\* R and P have done nothing before they are started.
Begins ==
  /\ st["L"] \in {"created", "start"} => st["R"] = "none"
  /\ st["R"] \in {"none", "init", "startproc"} => st["P"] = "none"

LEMMA BeginsNext == TypeOK /\ Begins /\ [Next]_vars => Begins'
<1> SUFFICES ASSUME TypeOK, Begins, [Next]_vars PROVE Begins'
  OBVIOUS
<1> USE RelaysAssumption DEF TypeOK, Begins, Threads, Destroyers, Goto
<1>1. CASE PeerCloses \/ ConnBreaks \/ Shutdown \/ DeleteListed \/ ShutdownEnds \/ Fault
  BY <1>1 DEF PeerCloses, ConnBreaks, Shutdown, DeleteListed, ShutdownEnds, Fault
<1>2. CASE ListenStep
  BY <1>2 DEF ListenStep, LogCreated, StartRecvBegin, StartRecvHandle
<1>3. CASE RecvInit \/ StartProc \/ RecvCheck \/ StopProc
  BY <1>3 DEF RecvInit, StartProc, RecvCheck, StopProc
<1>4. CASE Recv
  BY <1>4, RecvGoes
<1>5. CASE ProcStep \/ ProcReleased
  BY <1>5 DEF ProcStep, ProcReleased, ProcInit, ProcCheck, ProcTake, ProcReport, ProcWork,
              ProcReturn, ProcResult
<1>6. CASE \E t \in Relays \union {"G"} : RelayFails(t)
  BY <1>6 DEF RelayFails
<1>7. ASSUME NEW t \in Destroyers, DestroyStep(t)
      PROVE  Begins'
  <2>1. \E w \in Stations \ {"none", "init", "startproc"} : st' = [st EXCEPT ![t] = w]
    BY <1>7 DEF DestroyStep, RemoveClient, Acquire, Unlink, Delete, Clear, Wait, Free,
                LogDestroyed, Return, Stations, DestroyState
  <2>2. st[t] \notin {"none", "init", "startproc"}
    BY <1>7 DEF DestroyStep, RemoveClient, Acquire, Unlink, Delete, Clear, Wait, Free,
                LogDestroyed
  <2>. QED
    BY <2>1, <2>2
<1>8. CASE UNCHANGED vars
  BY <1>8 DEF vars
<1>. QED
  BY <1>1, <1>2, <1>3, <1>4, <1>5, <1>6, <1>7, <1>8 DEF Next, RecvStep

\* What becomes of a destroyer that is about to clear the flag.
LEMMA Clearers ==
  TypeOK /\ Begins /\ [Next]_vars =>
    \A t \in Destroyers :
      /\ st[t] = "delete" => st'[t] = "delete" \/ (destroyers' # {} /\ (st'[t] = "clear" \/ ~flag'))
      /\ st[t] = "clear" => st'[t] = "clear" \/ ~flag'
<1> SUFFICES ASSUME TypeOK, Begins, [Next]_vars, NEW t \in Destroyers, st[t] \in {"delete", "clear"}
             PROVE  /\ st[t] = "delete" => \/ st'[t] = "delete"
                                           \/ destroyers' # {} /\ (st'[t] = "clear" \/ ~flag')
                    /\ st[t] = "clear" => st'[t] = "clear" \/ ~flag'
  OBVIOUS
<1> USE RelaysAssumption DEF TypeOK, Begins, Threads, Destroyers, Goto, objVars, listVars, histVars
<1>1. CASE PeerCloses \/ ConnBreaks \/ Shutdown \/ DeleteListed \/ ShutdownEnds \/ Fault
  BY <1>1 DEF PeerCloses, ConnBreaks, Shutdown, DeleteListed, ShutdownEnds, Fault
<1>2. CASE ListenStep
  BY <1>2 DEF ListenStep, LogCreated, StartRecvBegin, StartRecvHandle
<1>3. CASE RecvStep
  <2>1. CASE Recv
    <3>1. st["R"] = "recv" /\ \E w \in {"check", "remove"} : st' = [st EXCEPT !["R"] = w]
      BY <2>1, RecvGoes
    <3>. QED
      BY <3>1
  <2>2. CASE ~Recv
    BY <1>3, <2>2 DEF RecvStep, RecvInit, StartProc, RecvCheck, StopProc
  <2>. QED
    BY <2>1, <2>2
<1>4. CASE ProcStep \/ ProcReleased
  BY <1>4 DEF ProcStep, ProcReleased, ProcInit, ProcCheck, ProcTake, ProcReport, ProcWork,
              ProcReturn, ProcResult
<1>5. CASE \E u \in Relays \union {"G"} : RelayFails(u)
  BY <1>5 DEF RelayFails
<1>6. CASE \E u \in Destroyers : DestroyStep(u)
  <2>1. PICK u \in Destroyers : DestroyStep(u)
    BY <1>6
  <2>2. CASE u = t
    BY <2>1, <2>2 DEF DestroyStep, RemoveClient, Acquire, Unlink, Delete, Clear, Wait, Free,
                      LogDestroyed
  <2>3. CASE u # t
    <3>1. st'[t] = st[t]
      BY <2>1, <2>3 DEF DestroyStep, RemoveClient, Acquire, Unlink, Delete, Clear, Wait, Free,
                        LogDestroyed, Return
    <3>. QED
      BY <3>1
  <2>. QED
    BY <2>2, <2>3
<1>7. CASE UNCHANGED vars
  BY <1>7 DEF vars
<1>. QED
  BY <1>1, <1>2, <1>3, <1>4, <1>5, <1>6, <1>7 DEF Next

\* The destroyers are on record for good.
LEMMA DestroyersGrow == [Next]_vars => destroyers \subseteq destroyers'
BY DEF Next, ListenStep, RecvStep, ProcStep, DestroyStep, PeerCloses, ConnBreaks, Shutdown,
       DeleteListed, ShutdownEnds, Fault, LogCreated, StartRecvBegin, StartRecvHandle, RecvInit,
       StartProc, RecvCheck, Recv, StopProc, ProcInit, ProcCheck, ProcTake, ProcReport, ProcWork,
       ProcReturn, ProcReleased, ProcResult, RelayFails, RemoveClient, Acquire, Unlink, Delete, Clear, Wait, Free,
       LogDestroyed, histVars, vars

LEMMA PursuedNext ==
  TypeOK /\ TypeOK' /\ Begins /\ TeardownInv /\ TeardownInv' /\ Pursued /\ [Next]_vars => Pursued'
<1> SUFFICES ASSUME TypeOK, TypeOK', Begins, TeardownInv, TeardownInv', Pursued, [Next]_vars
             PROVE  Pursued'
  OBVIOUS
<1>1. \A t \in Destroyers : st'[t] = "log" => freed'
  BY Leavers, Waiters DEF Pursued
<1>2. ASSUME destroyers' = {}, ~listed' \/ st'["R"] = "stopproc"
      PROVE  \E t \in Destroyers : st'[t] = "delete"
  <2>1. destroyers = {} /\ ~freed /\ ~freed' /\ "R" \in Destroyers
    BY <1>2, DestroyersGrow DEF TeardownInv, StartedWhole, Destroyers
  <2>2. st["R"] # "log" /\ ~(~flag /\ st["R"] = "check")
    BY <2>1 DEF Pursued, TeardownInv, StartedWhole
  <2>3. ~listed \/ st["R"] = "stopproc" \/ \E t \in Destroyers : st'[t] = "delete"
    BY <1>2, <2>1, <2>2, Leavers
  <2>. QED
    BY <1>2, <2>1, <2>3, Clearers DEF Pursued
<1>. QED
  BY <1>1, <1>2 DEF Pursued

LEMMA StopHoldsNext ==
  TypeOK /\ TypeOK' /\ Begins /\ TeardownInv /\ TeardownInv' /\ Pursued /\ Pursued' /\ StopHolds
    /\ [Next]_vars => StopHolds'
<1> SUFFICES ASSUME TypeOK, TypeOK', Begins, TeardownInv, TeardownInv', Pursued, Pursued', StopHolds,
                    [Next]_vars, ~early', ~freed', flag'
             PROVE  /\ \A t \in Destroyers : st'[t] # "wait"
                    /\ ~listed' \/ st'["R"] = "stopproc" =>
                         \E t \in Destroyers : st'[t] \in {"delete", "clear"}
  BY DEF StopHolds, TypeOK
<1>1. ~early /\ ~freed /\ "R" \in Destroyers
  BY Waiters DEF Destroyers
<1>2. ASSUME NEW t \in Destroyers, st'[t] = "wait" PROVE FALSE
  <2>1. st[t] = "wait"
    BY <1>2, Waiters
  <2>2. ~flag /\ UnderWay
    BY <1>1, <2>1 DEF StopHolds, TeardownInv, Recorded
  <2>. QED
    BY <2>2, FlagSetters
<1>3. ASSUME ~listed' \/ st'["R"] = "stopproc"
      PROVE  \E t \in Destroyers : st'[t] \in {"delete", "clear"}
  <2>1. CASE flag
    <3>1. ~listed \/ st["R"] = "stopproc" \/ \E t \in Destroyers : st'[t] = "delete"
      BY <1>1, <1>3, <2>1, Leavers DEF Pursued
    <3>2. ASSUME NEW t \in Destroyers, st[t] \in {"delete", "clear"}
          PROVE  st'[t] \in {"delete", "clear"}
      BY <3>2, Clearers
    <3>. QED
      BY <1>1, <2>1, <3>1, <3>2 DEF StopHolds
  <2>2. CASE ~flag
    <3>1. ~UnderWay
      BY <2>2, FlagSetters
    <3>2. destroyers = {}
      BY <1>1, <3>1 DEF TeardownInv, Recorded
    <3>3. ~listed \/ st["R"] = "stopproc" \/ \E t \in Destroyers : st'[t] = "delete"
      BY <1>1, <1>3, <3>2, Leavers DEF Pursued, TeardownInv, StartedWhole
    <3>4. \A t \in Destroyers : st[t] = "delete" => st'[t] \in {"delete", "clear"}
      BY Clearers
    <3>. QED
      BY <3>2, <3>3, <3>4 DEF Pursued
  <2>. QED
    BY <2>1, <2>2
<1>. QED
  BY <1>2, <1>3

\* Both threads set the flag when they begin, and still a destroyer that came
\* after that waits for a thread that has been told to stop, and R for one that
\* has been or will be, however many others destroy the client too.
THEOREM StopAlwaysHolds == Spec => []StopHolds
<1> DEFINE Inv == TypeOK /\ Begins /\ TeardownInv /\ Pursued /\ StopHolds
<1>1. Init => Inv
  BY TypeInit, TeardownInit, RelaysAssumption
     DEF Init, Begins, StopHolds, Pursued, Threads, Destroyers
<1>2. Inv /\ [Next]_vars => Inv'
  BY TypeStep, TeardownStep, BeginsNext, PursuedNext, StopHoldsNext
<1>3. Inv => StopHolds
  OBVIOUS
<1> HIDE DEF Inv
<1>. QED
  BY <1>1, <1>2, <1>3, PTL DEF Spec
=============================================================================
