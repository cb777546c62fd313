----------------------------- MODULE ServerDialog -----------------------------
(***************************************************************************)
(* The life of the server program: the GUI thread starts a ServerClass,    *)
(* shows its clients from a timer, hides in the tray, and deletes the      *)
(* server when its window is destroyed, while the listening thread accepts *)
(* and the threads of the clients run.  What the threads of a client do to *)
(* each other is left to ClientSock, and what the relay does to ServerClass.*)
(*                                                                         *)
(* Clients are numbered in the order they are accepted, which is that of   *)
(* the list.  A use of freed memory ends the model: fault says where.      *)
(***************************************************************************)
EXTENDS Naturals, FiniteSets

CONSTANTS
  MaxClient,   \* bound: how many clients are accepted
  Faulty,      \* clients whose connection may be reset
  Shell        \* what a call of Shell_NotifyIcon may return

Client == 1..MaxClient

ASSUME BoundAssumption == MaxClient \in Nat \ {0}
ASSUME FailuresAssumption == Faulty \subseteq Client /\ Shell \subseteq BOOLEAN

VARIABLES
  gui,     \* where the GUI thread is
  ptr,     \* mc_pServerClass
  srv,     \* the ServerClass
  flag,    \* its m_stThreadListen.bThreadFlag
  it,      \* the client a loop of the GUI thread is at
  copy,    \* the copy of the list the timer shows
  window,  \* the window of the dialog
  icon,    \* its icon is in the tray
  lsn,     \* where the listening thread is
  count,   \* clients accepted
  list,    \* m_listClients
  obj,     \* the ClientSock of a client
  rflag,   \* clients with m_stThreadRecv.bThreadFlag
  run,     \* the receiving thread of a client
  proc,    \* its processing thread
  peer,    \* its connection
  told,    \* clients SERVERDOWN was sent to
  fault,   \* where freed memory was used, or "none"
  blame    \* history: what happened that an orderly life does without

guiVars  == <<gui, ptr, srv, flag, it, copy>>
trayVars == <<window, icon>>
listVars == <<lsn, count, list>>
cliVars  == <<obj, rflag, run, proc, peer, told>>
vars     == <<guiVars, trayVars, listVars, cliVars, fault, blame>>

GuiState == {"init", "check", "listen", "timer", "loop", "copy", "show", "destroy",
             "stop", "down", "delete", "wait", "close", "free", "leave", "exit"}
Blame    == {"reset", "joined", "relayed", "terminated", "shell"}

\* m_pServerClass is set by no constructor: the memory of the dialog decides.
Init ==
  /\ gui = "init" /\ ptr \in {"null", "garbage"} /\ srv = "none" /\ flag = FALSE
  /\ it = 0 /\ copy = {}
  /\ window = "shown" /\ icon = FALSE
  /\ lsn = "none" /\ count = 0 /\ list = {}
  /\ obj = [c \in Client |-> "none"] /\ rflag = {}
  /\ run = [c \in Client |-> "none"] /\ proc = [c \in Client |-> "none"]
  /\ peer = [c \in Client |-> "none"] /\ told = {}
  /\ fault = "none" /\ blame = {}

Running == fault = "none" /\ gui # "exit"

\* Windows messages to the dialog, the log lines of other threads among them,
\* are answered by its message loop only, and by nobody once it is destroyed.
Answers == gui = "loop" \/ window = "gone"

\* In ~ServerClass, and after it.
Ending == gui \in {"stop", "down", "delete", "wait", "close", "free"}

Note(what) == blame' = IF Ending THEN blame \union {what} ELSE blame

Fails(where) == fault' = where /\ UNCHANGED <<guiVars, trayVars, listVars, cliVars, blame>>

-----------------------------------------------------------------------------
(* The GUI thread: start. *)

Go(from, to) == Running /\ gui = from /\ gui' = to

InitServer ==
  /\ Running /\ gui = "init"
  /\ IF ptr = "garbage"
       THEN Fails("pointer")
       ELSE /\ gui' = "check" /\ ptr' = "server"
            /\ srv' \in {"listening", "failed"}
            /\ UNCHANGED <<flag, it, copy, trayVars, listVars, cliVars, fault, blame>>

\* After a failed start the window is destroyed, and the function goes on.
CheckStarted ==
  /\ Go("check", IF srv = "failed" THEN "destroy" ELSE "listen")
  /\ UNCHANGED <<ptr, srv, flag, it, copy, trayVars, listVars, cliVars, fault, blame>>

RunListen ==
  /\ Running /\ gui = "listen"
  /\ IF srv = "freed"
       THEN Fails("listen")
       ELSE /\ gui' = "timer" /\ flag' = TRUE /\ lsn' = "test"
            /\ UNCHANGED <<ptr, srv, it, copy, trayVars, count, list, cliVars, fault, blame>>

SetTimer ==
  /\ Go("timer", "loop")
  /\ UNCHANGED <<ptr, srv, flag, it, copy, trayVars, listVars, cliVars, fault, blame>>

-----------------------------------------------------------------------------
(* The GUI thread: the timer and the tray. *)

\* The node after it; a node erased under the loop is freed memory.
Next1(n) == n \in list /\ n > it /\ \A m \in list : m > it => n <= m
AtEnd    == \A n \in list : n <= it
Erased   == it # 0 /\ it \notin list

OnTimer ==
  /\ Go("loop", "copy") /\ srv = "listening"
  /\ it' = 0 /\ copy' = {}
  /\ UNCHANGED <<ptr, srv, flag, trayVars, listVars, cliVars, fault, blame>>

GetClientList ==
  /\ Running /\ gui = "copy"
  /\ IF Erased THEN Fails("timer")
     ELSE /\ \/ AtEnd /\ gui' = "show" /\ UNCHANGED <<it, copy>>
             \/ \E n \in Client : /\ Next1(n) /\ it' = n /\ copy' = copy \union {n}
                                  /\ UNCHANGED gui
          /\ UNCHANGED <<ptr, srv, flag, trayVars, listVars, cliVars, fault, blame>>

ShowClient ==
  /\ Running /\ gui = "show"
  /\ \/ copy = {} /\ gui' = "loop"
        /\ UNCHANGED <<ptr, srv, flag, it, copy, trayVars, listVars, cliVars, fault, blame>>
     \/ \E n \in copy :
          /\ \A m \in copy : n <= m
          /\ IF obj[n] = "freed" THEN Fails("timer")
             ELSE /\ copy' = copy \ {n}
                  /\ UNCHANGED <<gui, ptr, srv, flag, it, trayVars, listVars, cliVars,
                                 fault, blame>>

Tray(shown, there, answer) ==
  /\ Running /\ gui = "loop"
  /\ window' = shown /\ icon' = there
  /\ blame' = IF answer THEN blame ELSE blame \union {"shell"}
  /\ UNCHANGED <<guiVars, listVars, cliVars, fault>>

\* The close button: OnSysCommand, m_fn_Tray and m_fn_Ballon.  Whether the
\* shell takes the icon is not looked at.
CloseWindow ==
  window = "shown" /\ \E added \in Shell : Tray("hidden", added \/ icon, added)

\* A double click on the icon (OnTaryNotifyAction).
DoubleClick ==
  icon /\ \E deleted \in Shell :
    Tray(IF deleted THEN "shown" ELSE window, ~deleted, deleted)

\* Mutant: the icon goes, the window stays away.
Opened_Hidden == window

Opened == "shown"

\* Open in the menu of the icon.
TrayOpen == icon /\ \E deleted \in Shell : Tray(Opened, ~deleted, deleted)

\* The button, or Exit in the menu of the icon: DestroyWindow.
TrayExit ==
  /\ Go("loop", "destroy") /\ (window = "shown" \/ icon)
  /\ UNCHANGED <<ptr, srv, flag, it, copy, trayVars, listVars, cliVars, fault, blame>>

-----------------------------------------------------------------------------
(* The GUI thread: OnDestroy and ~ServerClass. *)

OnDestroy ==
  /\ Go("destroy", "stop")
  /\ \E deleted \in Shell :
       /\ icon' = (icon /\ ~deleted)
       /\ blame' = IF deleted \/ ~icon THEN blame ELSE blame \union {"shell"}
  /\ UNCHANGED <<ptr, srv, flag, it, copy, window, listVars, cliVars, fault>>

\* TerminateThread gets a handle that RunListen has closed: it names nothing, or
\* a thread created later whose handle got the same value.
StopListen ==
  /\ Go("stop", "down")
  /\ flag' = FALSE /\ it' = 0
  /\ \/ UNCHANGED <<run, proc>>
     \/ \E c \in Client : \/ /\ run[c] \in {"run", "stopproc"}
                             /\ run' = [run EXCEPT ![c] = "killed"] /\ UNCHANGED proc
                          \/ /\ proc[c] \in {"idle", "log", "relay"}
                             /\ proc' = [proc EXCEPT ![c] = "killed"] /\ UNCHANGED run
  /\ blame' = blame \union
       {b \in Blame : CASE b = "terminated" -> run' # run \/ proc' # proc
                       [] b = "joined"     -> lsn \in {"add", "log", "start"}
                       [] b = "relayed"    -> \E c \in Client : proc[c] = "relay"
                       [] OTHER            -> FALSE}
  /\ UNCHANGED <<ptr, srv, copy, trayVars, listVars, obj, rflag, peer, told, fault>>

\* Mutant: the loop stops at the first client served.
DownGoesOn_Once == "delete"

DownGoesOn == "down"

\* SendServerDown.  A send that fails removes the client the loop is at, and the
\* loop goes on from a node that is gone; one to a client that does not read waits.
SendServerDown ==
  /\ Running /\ gui = "down"
  /\ IF Erased \/ \E n \in Client : Next1(n) /\ peer[n] = "reset" THEN Fails("down")
     ELSE /\ \/ AtEnd /\ gui' = "delete" /\ it' = 0 /\ UNCHANGED told
             \/ \E n \in Client :
                  /\ Next1(n) /\ peer[n] # "deaf"
                  /\ told' = told \union {n} /\ gui' = DownGoesOn
                  /\ it' = IF gui' = "down" THEN n ELSE 0
          /\ UNCHANGED <<ptr, srv, flag, copy, trayVars, listVars, obj, rflag, run,
                         proc, peer, fault, blame>>

\* Mutant: StopRecv clears the flag and does not wait.
AfterClear_NoWait == "delete"

AfterClear == "wait"

\* ~ClientSock of the next client: StopRecv waits if the flag is set.
DeleteClient ==
  /\ Running /\ gui = "delete"
  /\ IF Erased \/ \E n \in Client : Next1(n) /\ obj[n] = "freed" THEN Fails("delete")
     ELSE /\ \/ AtEnd /\ gui' = "close" /\ UNCHANGED <<it, rflag, obj>>
             \/ \E n \in Client :
                  /\ Next1(n) /\ it' = n /\ rflag' = rflag \ {n}
                  /\ gui' = IF n \in rflag THEN AfterClear ELSE "delete"
                  /\ obj' = [obj EXCEPT ![n] = IF gui' = "wait" THEN "going" ELSE "freed"]
          /\ UNCHANGED <<ptr, srv, flag, copy, trayVars, listVars, run, proc, peer,
                         told, fault, blame>>

WaitReceiver ==
  /\ Go("wait", "delete") /\ run[it] \in {"ended", "killed"}
  /\ obj' = [obj EXCEPT ![it] = "freed"]
  /\ UNCHANGED <<ptr, srv, flag, it, copy, trayVars, listVars, rflag, run, proc, peer,
                 told, fault, blame>>

CloseListener ==
  /\ Go("close", "free") /\ srv' = "closed"
  /\ UNCHANGED <<ptr, flag, it, copy, trayVars, listVars, cliVars, fault, blame>>

\* The memory is freed and the window goes; a failed start then goes on in
\* m_fn_InitServer, otherwise the message loop ends.
FreeServer ==
  /\ Go("free", IF lsn = "none" THEN "listen" ELSE "leave")
  /\ srv' = "freed" /\ window' = "gone"
  /\ UNCHANGED <<ptr, flag, it, copy, icon, listVars, cliVars, fault, blame>>

\* DoModal returns, and with InitInstance the program ends.
InitInstance ==
  /\ Go("leave", "exit")
  /\ UNCHANGED <<ptr, srv, flag, it, copy, trayVars, listVars, cliVars, fault, blame>>

-----------------------------------------------------------------------------
(* The listening thread. *)

Listener(from, to) == Running /\ lsn = from /\ lsn' = to

TestFlag ==
  IF srv = "freed"
    THEN Running /\ lsn = "test" /\ Fails("listener")
    ELSE /\ Listener("test", IF flag THEN "accept" ELSE "ended")
         /\ UNCHANGED <<guiVars, trayVars, count, list, cliVars, fault, blame>>

\* closesocket makes accept fail; without a client there is nothing else to do.
Accept ==
  \/ /\ Listener("accept", "test") /\ srv \in {"closed", "freed"}
     /\ UNCHANGED <<guiVars, trayVars, count, list, cliVars, fault, blame>>
  \/ /\ Listener("accept", "add") /\ srv = "listening" /\ count < MaxClient
     /\ count' = count + 1
     /\ obj' = [obj EXCEPT ![count'] = "live"] /\ peer' = [peer EXCEPT ![count'] = "up"]
     /\ Note("joined")
     /\ UNCHANGED <<guiVars, trayVars, list, rflag, run, proc, told, fault>>

AddClient ==
  IF srv = "freed"
    THEN Running /\ lsn = "add" /\ Fails("listener")
    ELSE /\ Listener("add", "log")
         /\ list' = list \union {count}
         /\ UNCHANGED <<guiVars, trayVars, count, cliVars, fault, blame>>

LogCreated ==
  /\ Listener("log", "start") /\ Answers
  /\ UNCHANGED <<guiVars, trayVars, count, list, cliVars, fault, blame>>

\* Mutant: the thread could not be created, and the flag stays set.
Started_NoThread == run

Started == [run EXCEPT ![count] = "run"]

StartRecv ==
  /\ Running /\ lsn = "start"
  /\ IF obj[count] = "freed" THEN Fails("start")
     ELSE /\ lsn' = "test"
          /\ rflag' = rflag \union {count}
          /\ run' = Started /\ proc' = [proc EXCEPT ![count] = "idle"]
          /\ UNCHANGED <<guiVars, trayVars, count, list, obj, peer, told, fault, blame>>

-----------------------------------------------------------------------------
(* The clients: their peers, their threads and their removal, in the large. *)

Quiet == UNCHANGED <<guiVars, trayVars, listVars, fault>>

\* The connection is up: the peer has not closed it, whether it reads or not.
Up(c) == peer[c] \in {"up", "deaf"}

\* A peer stops reading, or reads on.
Reads(c) ==
  /\ Running
  /\ \/ peer[c] = "up"   /\ peer' = [peer EXCEPT ![c] = "deaf"]
     \/ peer[c] = "deaf" /\ peer' = [peer EXCEPT ![c] = "up"]
  /\ Quiet /\ UNCHANGED <<obj, rflag, run, proc, told, blame>>

\* A peer leaves: on SERVERDOWN by ClientLib, or whenever it likes.
Leave(c) ==
  /\ Running /\ Up(c) /\ peer' = [peer EXCEPT ![c] = "closed"]
  /\ Quiet /\ UNCHANGED <<obj, rflag, run, proc, told, blame>>

Reset(c) ==
  /\ Running /\ c \in Faulty /\ (Up(c) \/ peer[c] = "closed")
  /\ peer' = [peer EXCEPT ![c] = "reset"]
  /\ blame' = blame \union {"reset"}
  /\ Quiet /\ UNCHANGED <<obj, rflag, run, proc, told>>

\* recv returns: a message to handle, or nothing; then the flag is looked at.
Recv(c) ==
  /\ Running /\ run[c] = "run"
  /\ \/ Up(c) /\ proc[c] = "idle" /\ proc' = [proc EXCEPT ![c] = "log"]
     \/ peer[c] = "closed" /\ c \notin rflag /\ UNCHANGED proc
  /\ run' = [run EXCEPT ![c] = IF c \in rflag THEN "run" ELSE "stopproc"]
  /\ Quiet /\ UNCHANGED <<obj, rflag, peer, told, blame>>

RecvEnd(c) ==
  /\ Running /\ run[c] = "stopproc" /\ proc[c] \in {"ended", "killed"}
  /\ run' = [run EXCEPT ![c] = "ended"]
  /\ Quiet /\ UNCHANGED <<obj, rflag, proc, peer, told, blame>>

\* Handling a message: a line in the log ...
LogMessage(c) ==
  /\ Running /\ proc[c] = "log" /\ Answers
  /\ \E next \in {"relay", "idle"} : proc' = [proc EXCEPT ![c] = next]
  /\ Quiet /\ UNCHANGED <<obj, rflag, run, peer, told, blame>>

\* ... and a walk over every listed client, where RegTask and GetAliveClient may
\* write more lines, and where a send may have to wait.
Relay(c) ==
  /\ Running /\ proc[c] = "relay"
  /\ IF \E d \in list : obj[d] = "freed" THEN Fails("relay")
     ELSE /\ \E next \in {"log", "idle"} : proc' = [proc EXCEPT ![c] = next]
          /\ Quiet /\ UNCHANGED <<obj, rflag, run, peer, told, blame>>

ProcEnd(c) ==
  /\ Running /\ proc[c] = "idle" /\ c \notin rflag
  /\ IF obj[c] = "freed" THEN Fails("proc")
     ELSE /\ proc' = [proc EXCEPT ![c] = "ended"]
          /\ Quiet /\ UNCHANGED <<obj, rflag, run, peer, told, blame>>

\* RemoveClient by a thread of a client, and the delete that may follow.
Unlist(c) ==
  /\ Running /\ c \in list /\ peer[c] = "reset" /\ list' = list \ {c}
  /\ UNCHANGED <<guiVars, trayVars, lsn, count, cliVars, fault, blame>>

Delete(c) ==
  /\ Running /\ obj[c] \in {"live", "going"} /\ c \notin list /\ peer[c] = "reset"
  /\ IF obj[c] = "going" THEN Fails("delete")
     ELSE /\ obj' = [obj EXCEPT ![c] = "freed"]
          /\ Quiet /\ UNCHANGED <<rflag, run, proc, peer, told, blame>>

-----------------------------------------------------------------------------
GuiStep ==
  \/ InitServer \/ CheckStarted \/ RunListen \/ SetTimer \/ GetClientList \/ ShowClient
  \/ OnDestroy \/ StopListen \/ SendServerDown \/ DeleteClient \/ WaitReceiver
  \/ CloseListener \/ FreeServer \/ InitInstance
UserStep   == OnTimer \/ CloseWindow \/ DoubleClick \/ TrayOpen \/ TrayExit
LsnStep    == TestFlag \/ Accept \/ AddClient \/ LogCreated \/ StartRecv
CliStep(c) == Recv(c) \/ RecvEnd(c) \/ LogMessage(c) \/ Relay(c) \/ ProcEnd(c)

Next ==
  \/ GuiStep \/ UserStep \/ LsnStep
  \/ \E c \in Client : CliStep(c) \/ Reads(c) \/ Leave(c) \/ Reset(c) \/ Unlist(c) \/ Delete(c)

\* The threads run, but for what waits for a client: recv, until it sends or
\* leaves, and send, in a walk or in SendServerDown, while it does not read.
Fairness ==
  /\ WF_vars(GuiStep) /\ WF_vars(LsnStep)
  /\ \A c \in Client : /\ WF_vars(RecvEnd(c)) /\ WF_vars(ProcEnd(c))
                       /\ WF_vars(LogMessage(c))
                       /\ WF_vars(Recv(c) /\ ~Up(c))

Spec     == Init /\ [][Next]_vars
FairSpec == Spec /\ Fairness

-----------------------------------------------------------------------------
(* Properties. *)

\* Every variable has its type; only accepted clients are listed, shown or told,
\* and the flag is set of clients only whose threads were started.
TypeOK ==
  /\ gui \in GuiState /\ ptr \in {"null", "garbage", "server"}
  /\ srv \in {"none", "listening", "failed", "closed", "freed"} /\ flag \in BOOLEAN
  /\ count \in 0..MaxClient /\ it \in 0..count
  /\ copy \subseteq 1..count /\ list \subseteq 1..count /\ told \subseteq 1..count
  /\ window \in {"shown", "hidden", "gone"} /\ icon \in BOOLEAN
  /\ lsn \in {"none", "test", "accept", "add", "log", "start", "ended"}
  /\ obj \in [Client -> {"none", "live", "going", "freed"}]
  /\ run \in [Client -> {"none", "run", "stopproc", "ended", "killed"}]
  /\ rflag \subseteq {c \in Client : run[c] # "none"}
  /\ proc \in [Client -> {"none", "idle", "log", "relay", "ended", "killed"}]
  /\ peer \in [Client -> {"none", "up", "deaf", "closed", "reset"}]
  /\ fault \in {"none", "pointer", "listen", "listener", "timer", "down", "delete",
                "start", "relay", "proc"}
  /\ blame \subseteq Blame

Disorder == blame \ {"shell"}

\* Before the server is freed, no freed memory is used in a life in which the
\* pointer was null, no connection was reset, nobody joined or relayed while the
\* server was being deleted, and TerminateThread hit no one.
OrderlyLife == fault # "none" /\ ptr = "server" /\ Disorder = {} => srv = "freed"

\* When an orderly life has freed the server, no ClientSock is left and no thread
\* of one is running: each was deleted, and waited for, before.
NothingOutlives ==
  srv = "freed" /\ Disorder = {} =>
    \A c \in Client : /\ obj[c] \in {"none", "freed"}
                      /\ run[c] \in {"none", "ended"} /\ proc[c] \in {"none", "ended"}

\* Every client that ~ServerClass deletes has been sent SERVERDOWN, in a life in
\* which no connection was reset and nobody joined while it ran.
DownBeforeDelete ==
  blame \intersect {"reset", "joined"} = {} =>
    \A c \in Client : obj[c] \in {"going", "freed"} => c \in told

\* The user can always get at the running program, by its window or by its icon,
\* and the icon does not outlive it, unless the shell refused to add or delete it.
TrayMatches ==
  "shell" \notin blame => /\ gui = "loop" /\ window = "hidden" => icon
                          /\ gui = "exit" => ~icon

\* The clients play their part: none stops reading for good, and each that got
\* SERVERDOWN leaves.
ClientsYield ==
  \A c \in Client : <>[](peer[c] # "deaf") /\ (c \in told ~> ~Up(c))

\* If they do, ~ServerClass comes to its end and the program with it, in a life
\* without disorder, or a processing thread waits for good for the GUI thread to
\* show its line.
ShutdownEnds ==
  ClientsYield =>
    (gui = "stop" ~> \/ gui = "exit" \/ fault # "none" \/ Disorder # {}
                     \/ [](\E c \in Client : proc[c] = "log"))
=============================================================================
