------------------------------ MODULE ClientSock ------------------------------
(***************************************************************************)
(* The life of one ClientSock: how its receiving and its processing thread *)
(* are started, stopped and waited for, and who frees it.  ServerClass has *)
(* the same object with its start in one step; here the start takes the    *)
(* steps the code takes, and every destroyer runs ~ClientSock one read or  *)
(* write at a time.                                                        *)
(*                                                                         *)
(* The threads: L the listener, R the receiving thread, P the processing   *)
(* thread, G the GUI thread in ~ServerClass, and Relays, processing        *)
(* threads of other clients whose broadcast fails to reach this one.       *)
(***************************************************************************)
EXTENDS Naturals

CONSTANTS
  Relays,     \* processing threads of other clients
  MaxQueue    \* bound: messages waiting in the queue

ASSUME RelaysAssumption == Relays \intersect {"L", "R", "P", "G"} = {}
ASSUME QueueAssumption  == MaxQueue \in Nat

Threads    == {"L", "R", "P", "G"} \union Relays
Destroyers == {"R", "P", "G"} \union Relays

VARIABLES
  st,         \* where each thread is
  listed,     \* the client is in m_listClients
  lock,       \* who holds m_srwClient, "none" when free
  flag,       \* m_stThreadRecv.bThreadFlag
  handle,     \* m_stThreadRecv.hThread is the handle of R
  freed,      \* the object has been freed
  queued,     \* length of msgque
  conn,       \* what the transport will answer
  crashed,    \* the process died of undefined behaviour
  \* History:
  destroyers, \* threads that have entered ~ClientSock
  early       \* one of them entered before both threads were under way

objVars  == <<flag, handle, freed, queued>>
listVars == <<listed, lock>>
histVars == <<destroyers, early>>
vars     == <<st, objVars, listVars, histVars, conn, crashed>>

\* RemoveClient and the destructor it calls, the same for every thread.
DestroyState == {"remove", "lock", "unlink", "delete", "clear", "wait", "free", "log"}

Stations == DestroyState \union
  {"none", "created", "start", "handle",             \* L
   "init", "startproc", "check", "recv", "stopproc", \* R
   "take", "report", "work", "result", "held",       \* P
   "away", "walk", "others", "gone", "ended"}        \* G and Relays; L, R and P

Goto(t, where) == st' = [st EXCEPT ![t] = where]

Init ==
  /\ st = [t \in Threads |-> CASE t = "L" -> "created" [] t \in {"R", "P"} -> "none"
                               [] OTHER -> "away"]
  /\ listed = TRUE
  /\ lock = "none"
  /\ flag = FALSE
  /\ handle = FALSE
  /\ freed = FALSE
  /\ queued = 0
  /\ conn = "open"
  /\ crashed = FALSE
  /\ destroyers = {}
  /\ early = FALSE

-----------------------------------------------------------------------------
(* The peer. *)

PeerCloses == conn = "open" /\ conn' = "closed"
              /\ UNCHANGED <<st, objVars, listVars, histVars, crashed>>

ConnBreaks == conn # "reset" /\ conn' = "reset"
              /\ UNCHANGED <<st, objVars, listVars, histVars, crashed>>

-----------------------------------------------------------------------------
(* The listener has listed the client. *)

\* The GUI thread answers the list box it owns, unless it is in ~ServerClass.
GuiAnswers == st["G"] \in {"away", "gone"}

\* WriteLog("Create Socket Client.")
LogCreated ==
  /\ st["L"] = "created"
  /\ GuiAnswers
  /\ Goto("L", "start")
  /\ UNCHANGED <<objVars, listVars, histVars, conn, crashed>>

\* StartRecv: the flag, then the thread, and its handle only once
\* _beginthreadex has returned.

StartRecvBegin ==
  /\ st["L"] = "start"
  /\ flag' = TRUE
  /\ st' = [st EXCEPT !["L"] = "handle", !["R"] = "init"]
  /\ UNCHANGED <<handle, freed, queued, listVars, histVars, conn, crashed>>

StartRecvHandle ==
  /\ st["L"] = "handle"
  /\ handle' = TRUE
  /\ Goto("L", "ended")
  /\ UNCHANGED <<flag, freed, queued, listVars, histVars, conn, crashed>>

-----------------------------------------------------------------------------
(* THREAD_MSGRECV *)

\* The thread sets its own flag once more.
RecvInit ==
  /\ st["R"] = "init"
  /\ flag' = TRUE
  /\ Goto("R", "startproc")
  /\ UNCHANGED <<handle, freed, queued, listVars, histVars, conn, crashed>>

StartProc ==
  /\ st["R"] = "startproc"
  /\ st' = [st EXCEPT !["R"] = "check", !["P"] = "init"]
  /\ UNCHANGED <<objVars, listVars, histVars, conn, crashed>>

\* Mutant: a loop that never looks at the flag.
RecvCheck_Forever ==
  /\ st["R"] = "check"
  /\ Goto("R", "recv")
  /\ UNCHANGED <<objVars, listVars, histVars, conn, crashed>>

RecvCheck ==
  /\ st["R"] = "check"
  /\ Goto("R", IF flag THEN "recv" ELSE "stopproc")
  /\ UNCHANGED <<objVars, listVars, histVars, conn, crashed>>

Recv ==
  /\ st["R"] = "recv"
  /\ CASE conn = "open"   -> Goto("R", "check") /\ queued < MaxQueue /\ queued' = queued + 1
       [] conn = "closed" -> Goto("R", "check") /\ UNCHANGED queued
       [] conn = "reset"  -> Goto("R", "remove") /\ UNCHANGED queued
  /\ UNCHANGED <<flag, handle, freed, listVars, histVars, conn, crashed>>

\* StopProc: wait for P.  The flag it clears is one P never looks at.
StopProc ==
  /\ st["R"] = "stopproc"
  /\ st["P"] = "ended" \/ freed
  /\ Goto("R", "ended")
  /\ UNCHANGED <<objVars, listVars, histVars, conn, crashed>>

-----------------------------------------------------------------------------
(* THREAD_MSGPROC.  It was given the parameters of the receiving thread and so
   sets and reads that thread's flag. *)

ProcInit ==
  /\ st["P"] = "init"
  /\ flag' = TRUE
  /\ Goto("P", "check")
  /\ UNCHANGED <<handle, freed, queued, listVars, histVars, conn, crashed>>

ProcCheck ==
  /\ st["P"] = "check"
  /\ Goto("P", IF flag THEN "take" ELSE "ended")
  /\ UNCHANGED <<objVars, listVars, histVars, conn, crashed>>

\* Mutant: PopData without IsDataPopable.
ProcTake_Untested ==
  /\ st["P"] = "take"
  /\ Goto("P", "report") /\ queued' = queued - 1
  /\ UNCHANGED <<flag, handle, freed, listVars, histVars, conn, crashed>>

\* IsDataPopable, then Sleep or PopData
ProcTake ==
  /\ st["P"] = "take"
  /\ IF queued = 0
       THEN Goto("P", "check") /\ UNCHANGED queued
       ELSE Goto("P", "report") /\ queued' = queued - 1
  /\ UNCHANGED <<flag, handle, freed, listVars, histVars, conn, crashed>>

\* WriteLog of the message taken.
ProcReport ==
  /\ st["P"] = "report"
  /\ GuiAnswers
  /\ Goto("P", "work")
  /\ UNCHANGED <<objVars, listVars, histVars, conn, crashed>>

\* A step of the handler of the message: a line of RegTask or GetAliveClient for
\* the log; a call that others decide about; or a broadcast that comes to this
\* client after a reset, and to remove it.
ProcWork ==
  /\ st["P"] = "work"
  /\ \/ Goto("P", "result")
     \/ Goto("P", "held")
     \/ conn = "reset" /\ listed /\ Goto("P", "remove")
  /\ UNCHANGED <<objVars, listVars, histVars, conn, crashed>>

ProcReturn ==
  /\ st["P"] = "work"
  /\ Goto("P", "check")
  /\ UNCHANGED <<objVars, listVars, histVars, conn, crashed>>

\* That call is a send to a client that does not read, or the removal of another
\* client, whose destructor waits for the threads of that client.  It returns when
\* they let it, if ever.  So does a walk that such a removal led astray.
ProcReleased ==
  /\ st["P"] = "held"
  /\ Goto("P", "work")
  /\ UNCHANGED <<objVars, listVars, histVars, conn, crashed>>

ProcResult ==
  /\ st["P"] = "result"
  /\ GuiAnswers
  /\ Goto("P", "work")
  /\ UNCHANGED <<objVars, listVars, histVars, conn, crashed>>

-----------------------------------------------------------------------------
(* RemoveClient, and ~ClientSock with StopRecv. *)

\* A broadcast of another client, or SERVERDOWN, fails to reach this one.
RelayFails(t) ==
  /\ st[t] = (IF t = "G" THEN "walk" ELSE "away")
  /\ listed /\ conn = "reset"
  /\ Goto(t, "remove")
  /\ UNCHANGED <<objVars, listVars, histVars, conn, crashed>>

\* The GUI thread enters ~ServerClass ...
Shutdown ==
  /\ st["G"] = "away"
  /\ Goto("G", "walk")
  /\ UNCHANGED <<objVars, listVars, histVars, conn, crashed>>

\* ... and deletes what its walk of the list finds, without RemoveClient.
DeleteListed ==
  /\ st["G"] = "walk"
  /\ Goto("G", IF listed THEN "delete" ELSE "others")
  /\ UNCHANGED <<objVars, listVars, histVars, conn, crashed>>

\* The other clients are deleted too, if their threads let it.
ShutdownEnds ==
  /\ st["G"] = "others"
  /\ Goto("G", "gone")
  /\ UNCHANGED <<objVars, listVars, histVars, conn, crashed>>

\* Where a thread goes when RemoveClient returns, and G after the delete.
Return(t) == Goto(t, CASE t = "R" -> "stopproc" [] t = "P" -> "work"
                       [] t = "G" -> "others"   [] OTHER -> "gone")

\* m_listClients.size() > 0: this client or any other is listed.
RemoveClient(t) ==
  /\ st[t] = "remove"
  /\ Goto(t, "lock") \/ (~listed /\ Return(t))
  /\ UNCHANGED <<objVars, listVars, histVars, conn, crashed>>

Acquire(t) ==
  /\ st[t] = "lock"
  /\ lock = "none"
  /\ lock' = t
  /\ Goto(t, "unlink")
  /\ UNCHANGED <<listed, objVars, histVars, conn, crashed>>

\* Mutant: the lock is not released.
Unlink_KeepsLock(t) ==
  /\ st[t] = "unlink"
  /\ listed' = FALSE
  /\ Goto(t, "delete")
  /\ UNCHANGED <<lock, objVars, histVars, conn, crashed>>

Unlink(t) ==
  /\ st[t] = "unlink"
  /\ listed' = FALSE
  /\ lock' = "none"
  /\ Goto(t, "delete")
  /\ UNCHANGED <<objVars, histVars, conn, crashed>>

UnderWay == st["L"] = "ended" /\ st["R"] \notin {"none", "init", "startproc"}
            /\ st["P"] \notin {"none", "init"}

\* StopRecv looks at the flag ...
Delete(t) ==
  /\ st[t] = "delete"
  /\ Goto(t, IF flag THEN "clear" ELSE "free")
  /\ destroyers' = destroyers \union {t}
  /\ early' = (early \/ ~UnderWay)
  /\ UNCHANGED <<objVars, listVars, conn, crashed>>

\* Mutant: the flag stays set.
Clear_KeepsFlag(t) ==
  /\ st[t] = "clear"
  /\ Goto(t, IF handle THEN "wait" ELSE "free")
  /\ UNCHANGED <<objVars, listVars, histVars, conn, crashed>>

\* Mutant: no wait for the thread.
Clear_NoWait(t) ==
  /\ st[t] = "clear"
  /\ flag' = FALSE
  /\ Goto(t, "free")
  /\ UNCHANGED <<handle, freed, queued, listVars, histVars, conn, crashed>>

\* ... clears it and waits for R; a wait without a handle returns at once.
Clear(t) ==
  /\ st[t] = "clear"
  /\ flag' = FALSE
  /\ Goto(t, IF handle THEN "wait" ELSE "free")
  /\ UNCHANGED <<handle, freed, queued, listVars, histVars, conn, crashed>>

Wait(t) ==
  /\ st[t] = "wait"
  /\ st["R"] = "ended"
  /\ handle' = FALSE
  /\ Goto(t, "free")
  /\ UNCHANGED <<flag, freed, queued, listVars, histVars, conn, crashed>>

\* The loop over the shrinking queue pops half of it.  From here on the flag is
\* what the memory happens to hold, and no wait for the handle in it lasts.
Free(t) ==
  /\ st[t] = "free"
  /\ freed' = TRUE
  /\ flag' \in BOOLEAN
  /\ queued' = queued \div 2
  /\ handle' = FALSE
  /\ IF t = "G" THEN Return(t) ELSE Goto(t, "log")
  /\ UNCHANGED <<listVars, histVars, conn, crashed>>

\* WriteLog("Destroy Socket Client.")
LogDestroyed(t) ==
  /\ st[t] = "log"
  /\ GuiAnswers
  /\ Return(t)
  /\ UNCHANGED <<objVars, listVars, histVars, conn, crashed>>

-----------------------------------------------------------------------------
\* What touches the object: L until it is done, R and P unless they wait or
\* have ended, and a destroyer up to the end of the destructor.
Touching(t) ==
  \/ st[t] \in {"delete", "clear", "free"}
  \/ t = "L" /\ st[t] # "ended"
  \/ t = "R" /\ st[t] \in {"init", "startproc", "check", "recv", "stopproc"}
  \/ t = "P" /\ st[t] \in {"init", "check", "take", "report", "work", "result"}

\* Touching freed memory may end the process.
Fault ==
  /\ freed
  /\ \E t \in Threads : Touching(t)
  /\ crashed' = TRUE
  /\ UNCHANGED <<st, objVars, listVars, histVars, conn>>

DestroyStep(t) ==
  \/ RemoveClient(t) \/ Acquire(t) \/ Unlink(t) \/ Delete(t) \/ Clear(t)
  \/ Wait(t) \/ Free(t) \/ LogDestroyed(t)

ListenStep == LogCreated \/ StartRecvBegin \/ StartRecvHandle
RecvStep   == RecvInit \/ StartProc \/ RecvCheck \/ Recv \/ StopProc
ProcStep   == ProcInit \/ ProcCheck \/ ProcTake \/ ProcReport \/ ProcWork \/ ProcReturn
              \/ ProcResult

Next ==
  /\ ~crashed
  /\ \/ PeerCloses \/ ConnBreaks \/ Shutdown \/ DeleteListed \/ ShutdownEnds \/ Fault
     \/ ListenStep \/ RecvStep \/ ProcStep \/ ProcReleased
     \/ \E t \in Relays \union {"G"} : RelayFails(t)
     \/ \E t \in Destroyers : DestroyStep(t)

\* Every thread that can run does, and a handler whose calls return comes to its
\* end, as the list does.  R waiting in recv for its peer is not a thread that can
\* run, nor P while it is held, nor G while it sends SERVERDOWN.
Fairness ==
  /\ WF_vars(~crashed /\ ListenStep)
  /\ WF_vars(~crashed /\ RecvStep /\ (st["R"] = "recv" => conn # "open"))
  /\ WF_vars(~crashed /\ ProcStep)
  /\ SF_vars(~crashed /\ ProcReturn)
  /\ \A t \in Destroyers : WF_vars(~crashed /\ DestroyStep(t))

Spec     == Init /\ [][Next]_vars
FairSpec == Spec /\ Fairness

-----------------------------------------------------------------------------
TypeOK ==
  /\ st \in [Threads -> Stations]
  /\ listed \in BOOLEAN /\ flag \in BOOLEAN /\ handle \in BOOLEAN /\ freed \in BOOLEAN
  /\ lock \in Threads \union {"none"}
  /\ queued \in 0..MaxQueue
  /\ conn \in {"open", "closed", "reset"}
  /\ crashed \in BOOLEAN
  /\ destroyers \subseteq Destroyers /\ early \in BOOLEAN

\* Who has begun to destroy the object.
Begun == destroyers \union {t \in Destroyers : st[t] = "delete"}

\* The teardown that works: one destroyer, and it came after both threads had
\* set the flag and the handle was stored.
Orderly == ~early /\ \A a, b \in Begun : a = b

\* In an orderly teardown no thread touches the object after it was freed: the
\* destroyer waits for R, and R for P.
SafeTeardown == Orderly => ~crashed /\ (freed => \A t \in Threads : ~Touching(t))

\* Whoever waits can count on the thread it waits for being told to stop, unless a
\* destroyer came before both threads had begun, which set the flag themselves:
\* the flag stays clear under a destroyer that waits for R; and when the client is
\* off the list or R waits for P, it is clear or a destroyer is about to clear it.
StopHolds ==
  ~early /\ ~freed =>
    /\ (\E t \in Destroyers : st[t] = "wait") => ~flag
    /\ ~listed \/ st["R"] = "stopproc" =>
         ~flag \/ \E t \in Destroyers : st[t] \in {"delete", "clear"}

\* P waits for something its own teardown does not bring about: for others in a
\* call of its handler, for its own end when it destroys the object itself, or for
\* the list box of a thread in ~ServerClass.
ProcHeldUp == st["P"] \in DestroyState \union {"held"}
              \/ (st["P"] \in {"report", "result"} /\ ~GuiAnswers)

\* The lock of the list is given back, whoever takes it: nobody waits for a
\* thread or runs a destructor with it.
LockReleased == \A t \in Destroyers : lock = t ~> (lock # t \/ crashed)


\* When the server goes down and the peer has closed, the wait for R is over
\* some time and the client freed, unless P is held up for good.
ShutdownFrees ==
  (st["G"] = "wait" /\ conn = "closed" /\ ~early) ~>
    (freed \/ conn = "reset" \/ []ProcHeldUp)

===============================================================================
