-------------------------- MODULE ServerDialogProofs --------------------------
(* Theorems of ServerDialog, for every number of clients. *)
EXTENDS ServerDialog, TLAPS

-----------------------------------------------------------------------------
(* The inductive invariant, in parts that rest on those before. *)

\* The listening thread is started last, a client is accepted before it is listed,
\* and a thread that is waited for is that of a client.
Accepted ==
  /\ gui \in {"init", "check", "listen"} => lsn = "none"
  /\ lsn \in {"add", "log", "start"} => count \in Client
  /\ gui = "wait" => it \in Client

\* What has happened to a connection or a thread is on record, and a receiving
\* thread outlives the processing thread.
Recorded ==
  /\ \A c \in Client : peer[c] = "reset" => "reset" \in blame
  /\ \A c \in Client : run[c] = "killed" \/ proc[c] = "killed" => "terminated" \in blame
  /\ \A c \in Client : run[c] = "ended" => proc[c] \in {"ended", "killed"}

\* The window goes with the server, which is the last thing OnDestroy does.
WindowGone ==
  /\ window = "gone" => srv = "freed"
  /\ srv = "freed" => gui \in {"listen", "leave", "exit"}

\* OnDestroy has taken the icon away.
Destroyed == gui \in {"stop", "down", "delete", "wait", "close", "free", "leave", "exit"}

IconKept ==
  "shell" \notin blame => /\ ~Destroyed /\ window = "hidden" => icon
                          /\ Destroyed => ~icon

\* The loop of SendServerDown has told the clients up to the one it is at, the
\* loop of ~ServerClass finds them all told.
Joining == {"add", "log", "start"}
Closing == {"down", "delete", "wait", "close", "free"}

ToldFirst ==
  blame \intersect {"reset", "joined"} = {} =>
    /\ gui \in Closing => lsn \notin Joining
    /\ gui = "down" => \A c \in list : c <= it => c \in told
    /\ gui \in Closing \ {"down"} => list \subseteq told
    /\ gui = "wait" => it \in told
    /\ \A c \in Client : obj[c] \in {"going", "freed"} => c \in told

\* What an orderly life keeps to: loops of the GUI thread stand on a node of the
\* list; nobody joins or relays while the clients are deleted; they are deleted in
\* the order of the list; what is listed has its threads, or gets them next; and
\* what is deleted has no processing thread any more.
OnNode == gui \in {"copy", "down", "delete", "wait"} => it = 0 \/ it \in list

Calm == gui \in Closing => lsn \notin Joining /\ \A c \in Client : proc[c] # "relay"

InTurn ==
  \A c \in Client : obj[c] \in {"going", "freed"} =>
    /\ srv = "freed" \/ gui \in Closing \ {"down"}
    /\ gui \in {"delete", "wait"} => c <= it

Threaded ==
  \A c \in list : \/ c \in rflag \/ obj[c] \in {"going", "freed"}
                  \/ c = count /\ lsn \in {"log", "start"}

Finished == \A c \in Client : obj[c] = "freed" => proc[c] = "ended"

Ordered == OnNode /\ Calm /\ InTurn /\ Threaded /\ Finished

Faultless == fault # "none" /\ ptr = "server" => srv = "freed"

InOrder == Disorder = {} => Faultless /\ Ordered

DialogInv ==
  TypeOK /\ Accepted /\ Recorded /\ WindowGone /\ IconKept /\ ToldFirst /\ InOrder

-----------------------------------------------------------------------------
(* Types. *)

GuiTyped ==
  /\ gui \in GuiState /\ ptr \in {"null", "garbage", "server"}
  /\ srv \in {"none", "listening", "failed", "closed", "freed"} /\ flag \in BOOLEAN

ListTyped ==
  /\ count \in 0..MaxClient /\ it \in 0..count
  /\ copy \subseteq 1..count /\ list \subseteq 1..count /\ told \subseteq 1..count
  /\ lsn \in {"none", "test", "accept", "add", "log", "start", "ended"}

ClientTyped ==
  /\ obj \in [Client -> {"none", "live", "going", "freed"}]
  /\ run \in [Client -> {"none", "run", "stopproc", "ended", "killed"}]
  /\ rflag \subseteq {c \in Client : run[c] # "none"}
  /\ proc \in [Client -> {"none", "idle", "log", "relay", "ended", "killed"}]
  /\ peer \in [Client -> {"none", "up", "deaf", "closed", "reset"}]

RestTyped ==
  /\ window \in {"shown", "hidden", "gone"} /\ icon \in BOOLEAN
  /\ fault \in {"none", "pointer", "listen", "listener", "timer", "down", "delete",
                "start", "relay", "proc"}
  /\ blame \subseteq Blame

LEMMA TypeParts ==
  /\ TypeOK <=> GuiTyped /\ ListTyped /\ ClientTyped /\ RestTyped
  /\ TypeOK' <=> GuiTyped' /\ ListTyped' /\ ClientTyped' /\ RestTyped'
BY DEF TypeOK, GuiTyped, ListTyped, ClientTyped, RestTyped

LEMMA DialogInit == Init => DialogInv
<1> SUFFICES ASSUME Init PROVE DialogInv
    OBVIOUS
<1>1. GuiTyped /\ RestTyped
    BY DEF Init, GuiTyped, GuiState, RestTyped
<1>2. ListTyped /\ ClientTyped
    BY BoundAssumption DEF Init, ListTyped, ClientTyped
<1>3. Accepted /\ Recorded /\ WindowGone /\ IconKept
    BY DEF Init, Accepted, Recorded, WindowGone, IconKept, Destroyed
<1>4. ToldFirst /\ InOrder
    BY DEF Init, ToldFirst, Closing, Joining, InOrder, Faultless, Ordered, OnNode, Calm, InTurn,
           Threaded, Finished
<1>. QED
    BY <1>1, <1>2, <1>3, <1>4, TypeParts DEF DialogInv

LEMMA TypeGui == TypeOK /\ Accepted /\ GuiStep => TypeOK' /\ Accepted'
<1> SUFFICES ASSUME GuiTyped, ListTyped, ClientTyped, RestTyped, Accepted, GuiStep
             PROVE  GuiTyped' /\ ListTyped' /\ ClientTyped' /\ RestTyped' /\ Accepted'
    BY TypeParts
<1> USE DEF GuiStep, InitServer, CheckStarted, RunListen, SetTimer, GetClientList, ShowClient,
            OnDestroy, StopListen, SendServerDown, DeleteClient, WaitReceiver,
            CloseListener, FreeServer, InitInstance, Go, Fails
<1>1. GuiTyped'
    BY DEF guiVars, GuiTyped, GuiState, DownGoesOn, AfterClear
<1>2. ListTyped'
    BY DEF guiVars, listVars, cliVars, ListTyped, Next1
<1>3. ClientTyped'
    BY DEF guiVars, cliVars, ClientTyped, AfterClear
<1>4. RestTyped'
    BY DEF trayVars, RestTyped, Blame
<1>5. Accepted'
    BY DEF guiVars, listVars, ListTyped, Accepted, Next1, DownGoesOn, AfterClear
<1>. QED
    BY <1>1, <1>2, <1>3, <1>4, <1>5

LEMMA TypeUser == TypeOK /\ Accepted /\ UserStep => TypeOK' /\ Accepted'
<1> SUFFICES ASSUME GuiTyped, ListTyped, ClientTyped, RestTyped, Accepted, UserStep
             PROVE  GuiTyped' /\ ListTyped' /\ ClientTyped' /\ RestTyped' /\ Accepted'
    BY TypeParts
<1> USE FailuresAssumption DEF UserStep, OnTimer, CloseWindow, DoubleClick, TrayOpen, Opened, Tray,
                               TrayExit, Go
<1>1. GuiTyped'
    BY DEF guiVars, GuiTyped, GuiState
<1>2. ListTyped'
  <2>1. UNCHANGED <<listVars, told>> /\ (UNCHANGED <<it, copy>> \/ (it' = 0 /\ copy' = {}))
      BY DEF guiVars, cliVars
  <2> HIDE DEF UserStep
  <2>2. CASE UNCHANGED <<it, copy>>
      BY <2>1, <2>2 DEF listVars, ListTyped
  <2>3. CASE it' = 0 /\ copy' = {}
      BY <2>1, <2>3, BoundAssumption DEF listVars, ListTyped
  <2>. QED
      BY <2>1, <2>2, <2>3
<1>3. ClientTyped'
    BY DEF cliVars, ClientTyped
<1>4. RestTyped'
    BY DEF trayVars, RestTyped, Blame
<1>5. Accepted'
    BY DEF guiVars, listVars, Accepted
<1>. QED
    BY <1>1, <1>2, <1>3, <1>4, <1>5

LEMMA TypeLsn == TypeOK /\ Accepted /\ LsnStep => TypeOK' /\ Accepted'
<1> SUFFICES ASSUME GuiTyped, ListTyped, ClientTyped, RestTyped, Accepted, LsnStep
             PROVE  GuiTyped' /\ ListTyped' /\ ClientTyped' /\ RestTyped' /\ Accepted'
    BY TypeParts
<1> USE BoundAssumption DEF LsnStep, TestFlag, Accept, AddClient, LogCreated, StartRecv, Started,
                            Listener, Note, Fails
<1>1. GuiTyped'
    BY DEF guiVars, GuiTyped
<1>2. ListTyped'
  <2>1. UNCHANGED <<it, copy, told>> /\ lsn' \in {"none", "test", "accept", "add", "log", "start", "ended"}
      BY DEF guiVars, listVars, cliVars, ListTyped
  <2>2. count' \in 0..MaxClient /\ count <= count'
      BY DEF listVars, ListTyped
  <2>3. \/ count' = count /\ (list' = list \/ (list' = list \union {count} /\ lsn = "add"))
        \/ count' = count + 1 /\ list' = list
      BY DEF listVars
  <2> HIDE DEF LsnStep
  <2>4. list' \subseteq 1..(count')
    <3>1. count \in Nat /\ (lsn = "add" => count \in 1..count)
        BY DEF ListTyped, Accepted, Client
    <3>2. 1..count \subseteq 1..(count')
        BY <2>3, <3>1
    <3>. QED
        BY <2>3, <3>1, <3>2 DEF ListTyped
  <2>. QED
      BY <2>1, <2>2, <2>4 DEF ListTyped
<1>3. ClientTyped'
    BY DEF cliVars, ClientTyped, Accepted
<1>4. RestTyped'
    BY DEF trayVars, RestTyped, Blame
<1>5. Accepted'
    BY DEF guiVars, listVars, ListTyped, Accepted, Client
<1>. QED
    BY <1>1, <1>2, <1>3, <1>4, <1>5

PeerStep(c) == Reads(c) \/ Leave(c) \/ Reset(c) \/ Unlist(c) \/ Delete(c)

LEMMA TypeClient ==
  ASSUME NEW c \in Client
  PROVE  TypeOK /\ Accepted /\ (CliStep(c) \/ PeerStep(c)) => TypeOK' /\ Accepted'
<1> SUFFICES ASSUME GuiTyped, ListTyped, ClientTyped, RestTyped, Accepted, CliStep(c) \/ PeerStep(c)
             PROVE  GuiTyped' /\ ListTyped' /\ ClientTyped' /\ RestTyped' /\ Accepted'
    BY TypeParts
<1> USE DEF CliStep, PeerStep, Recv, RecvEnd, LogMessage, Relay, ProcEnd, Reads, Leave, Reset, Unlist,
            Delete, Quiet, Fails
<1>1. GuiTyped'
    BY DEF guiVars, GuiTyped
<1>2. ListTyped' /\ Accepted'
    BY DEF guiVars, listVars, cliVars, ListTyped, Accepted
<1>3. ClientTyped'
    BY DEF cliVars, ClientTyped
<1>4. RestTyped'
    BY DEF trayVars, RestTyped, Blame
<1>. QED
    BY <1>1, <1>2, <1>3, <1>4

\* What a step can be, once the steps of a client are told apart.
LEMMA Steps ==
  [Next]_vars => \/ GuiStep \/ UserStep \/ LsnStep \/ UNCHANGED vars
                 \/ \E c \in Client : CliStep(c) \/ PeerStep(c)
BY DEF Next, PeerStep

LEMMA TypeNext == TypeOK /\ Accepted /\ [Next]_vars => TypeOK' /\ Accepted'
<1>1. TypeOK /\ Accepted /\ UNCHANGED vars => TypeOK' /\ Accepted'
  <2> SUFFICES ASSUME GuiTyped, ListTyped, ClientTyped, RestTyped, Accepted, UNCHANGED vars
               PROVE  GuiTyped' /\ ListTyped' /\ ClientTyped' /\ RestTyped' /\ Accepted'
      BY TypeParts
  <2>1. GuiTyped' /\ ListTyped' /\ Accepted'
      BY DEF vars, guiVars, listVars, cliVars, GuiTyped, ListTyped, Accepted
  <2>2. ClientTyped' /\ RestTyped'
      BY DEF vars, trayVars, cliVars, ClientTyped, RestTyped
  <2>. QED
      BY <2>1, <2>2
<1>. QED
    BY <1>1, TypeGui, TypeUser, TypeLsn, TypeClient, Steps

-----------------------------------------------------------------------------
(* The record, the window and the icon. *)

LEMMA BlameGrows == [Next]_vars => blame \subseteq blame'
<1> SUFFICES ASSUME [Next]_vars PROVE blame \subseteq blame'
    OBVIOUS
<1>1. CASE GuiStep
    BY <1>1 DEF GuiStep, InitServer, CheckStarted, RunListen, SetTimer, GetClientList, ShowClient,
                OnDestroy, StopListen, SendServerDown, DeleteClient, WaitReceiver,
                CloseListener, FreeServer, InitInstance, Fails
<1>2. CASE UserStep
    BY <1>2 DEF UserStep, OnTimer, CloseWindow, DoubleClick, TrayOpen, Tray, TrayExit
<1>3. CASE LsnStep
    BY <1>3 DEF LsnStep, TestFlag, Accept, AddClient, LogCreated, StartRecv, Note, Fails
<1>4. ASSUME NEW c \in Client, CliStep(c) \/ PeerStep(c)
      PROVE  blame \subseteq blame'
    BY <1>4 DEF CliStep, PeerStep, Recv, RecvEnd, LogMessage, Relay, ProcEnd, Reads, Leave, Reset,
                Unlist, Delete, Fails
<1>. QED
    BY <1>1, <1>2, <1>3, <1>4, Steps DEF vars

\* The one thread that the stale handle of StopListen may end is on record.
LEMMA StopStep ==
  ASSUME TypeOK, StopListen
  PROVE  /\ UNCHANGED peer
         /\ \/ UNCHANGED <<run, proc>>
            \/ /\ "terminated" \in blame'
               /\ \E c \in Client : \/ /\ run' = [run EXCEPT ![c] = "killed"] /\ proc' = proc
                                        /\ run[c] \in {"run", "stopproc"}
                                     \/ /\ proc' = [proc EXCEPT ![c] = "killed"] /\ run' = run
                                        /\ proc[c] \in {"idle", "log", "relay"}
<1>1. ClientTyped
    BY TypeParts
<1>2. run' # run \/ proc' # proc => "terminated" \in blame'
    BY DEF StopListen, Blame
<1>. QED
    BY <1>1, <1>2 DEF StopListen, ClientTyped

LEMMA RecordedNext == TypeOK /\ Accepted /\ Recorded /\ [Next]_vars => Recorded'
<1> SUFFICES ASSUME TypeOK, Accepted, Recorded, [Next]_vars PROVE Recorded'
    OBVIOUS
<1>1. ClientTyped /\ blame \subseteq blame'
    BY TypeParts, BlameGrows
<1>2. CASE UNCHANGED <<run, proc, peer>>
    BY <1>1, <1>2 DEF Recorded
<1>3. CASE GuiStep
  <2>1. ~StopListen => UNCHANGED <<run, proc, peer>>
      BY <1>3 DEF GuiStep, InitServer, CheckStarted, RunListen, SetTimer, GetClientList,
                  ShowClient, OnDestroy, SendServerDown, DeleteClient, WaitReceiver,
                  CloseListener, FreeServer, InitInstance, Fails, cliVars
  <2>2. CASE StopListen
    <3>1. CASE UNCHANGED <<run, proc>>
        BY <1>2, <2>2, <3>1, StopStep
    <3>2. CASE ~UNCHANGED <<run, proc>>
        BY <1>1, <2>2, <3>2, StopStep DEF Recorded, ClientTyped
    <3>. QED
        BY <3>1, <3>2
  <2>. QED
      BY <1>2, <2>1, <2>2
<1>4. CASE UserStep
    BY <1>2, <1>4 DEF UserStep, OnTimer, CloseWindow, DoubleClick, TrayOpen, Tray, TrayExit, cliVars
<1>5. CASE LsnStep
  <2>1. \/ UNCHANGED <<run, proc, peer>>
        \/ UNCHANGED <<run, proc>> /\ \E c \in Client : peer' = [peer EXCEPT ![c] = "up"]
        \/ /\ UNCHANGED peer
           /\ run' = [run EXCEPT ![count] = "run"] /\ proc' = [proc EXCEPT ![count] = "idle"]
    <3>1. CASE TestFlag \/ AddClient \/ LogCreated
        BY <3>1 DEF TestFlag, AddClient, LogCreated, Fails, cliVars
    <3>2. CASE Accept
      <4>1. count < MaxClient => count + 1 \in Client
          BY TypeParts, BoundAssumption DEF ListTyped, Client
      <4>. QED
          BY <3>2, <4>1 DEF Accept, cliVars
    <3>3. CASE StartRecv
        BY <3>3 DEF StartRecv, Started, Fails, cliVars
    <3>. QED
        BY <1>5, <3>1, <3>2, <3>3 DEF LsnStep
  <2>. QED
      BY <1>1, <1>2, <2>1 DEF Recorded, ClientTyped
<1>6. ASSUME NEW c \in Client, CliStep(c)
      PROVE  Recorded'
    BY <1>1, <1>6 DEF CliStep, Recv, RecvEnd, LogMessage, Relay, ProcEnd, Quiet, Fails, cliVars,
                      ClientTyped, Recorded
<1>7. ASSUME NEW c \in Client, PeerStep(c)
      PROVE  Recorded'
    BY <1>1, <1>7 DEF PeerStep, Reads, Leave, Reset, Unlist, Delete, Quiet, Fails, cliVars,
                      ClientTyped, Recorded
<1>. QED
    BY <1>2, <1>3, <1>4, <1>5, <1>6, <1>7, Steps DEF vars, cliVars

LEMMA WindowNext == TypeOK /\ WindowGone /\ [Next]_vars => WindowGone'
<1> SUFFICES ASSUME TypeOK, WindowGone, [Next]_vars PROVE WindowGone'
    OBVIOUS
<1>1. CASE GuiStep
    BY <1>1 DEF GuiStep, InitServer, CheckStarted, RunListen, SetTimer, GetClientList, ShowClient,
                OnDestroy, StopListen, SendServerDown, DownGoesOn, DeleteClient, AfterClear,
                WaitReceiver, CloseListener, FreeServer, InitInstance, Go, Fails,
                guiVars, trayVars, WindowGone
<1>2. CASE UserStep
    BY <1>2 DEF UserStep, OnTimer, CloseWindow, DoubleClick, TrayOpen, Opened, Tray, TrayExit, Go,
                guiVars, trayVars, WindowGone
<1>3. CASE LsnStep
    BY <1>3 DEF LsnStep, TestFlag, Accept, AddClient, LogCreated, StartRecv, Fails,
                guiVars, trayVars, WindowGone
<1>4. ASSUME NEW c \in Client, CliStep(c) \/ PeerStep(c)
      PROVE  WindowGone'
    BY <1>4 DEF CliStep, PeerStep, Recv, RecvEnd, LogMessage, Relay, ProcEnd, Reads, Leave, Reset,
                Unlist, Delete, Quiet, Fails, guiVars, trayVars, WindowGone
<1>. QED
    BY <1>1, <1>2, <1>3, <1>4, Steps DEF vars, guiVars, trayVars, WindowGone

LEMMA IconNext == TypeOK /\ WindowGone /\ IconKept /\ [Next]_vars => IconKept'
<1> SUFFICES ASSUME TypeOK, WindowGone, IconKept, [Next]_vars PROVE IconKept'
    OBVIOUS
<1> USE DEF IconKept, Destroyed
<1>1. blame \subseteq blame'
    BY BlameGrows
<1>2. CASE GuiStep
  <2>1. CASE OnDestroy
      BY <1>1, <2>1, FailuresAssumption DEF OnDestroy, Go
  <2>2. CASE FreeServer
      BY <1>1, <2>2 DEF FreeServer, Go
  <2>3. CASE ~OnDestroy /\ ~FreeServer
      BY <1>1, <1>2, <2>3
      DEF GuiStep, InitServer, CheckStarted, RunListen, SetTimer, GetClientList, ShowClient,
          StopListen, SendServerDown, DownGoesOn, DeleteClient, AfterClear,
          WaitReceiver, CloseListener, InitInstance, Go, Fails, guiVars, trayVars
  <2>. QED
      BY <2>1, <2>2, <2>3
<1>3. CASE UserStep
    BY <1>1, <1>3, FailuresAssumption
    DEF UserStep, OnTimer, CloseWindow, DoubleClick, TrayOpen, Opened, Tray, TrayExit, Go,
        guiVars, trayVars
<1>4. CASE LsnStep
    BY <1>1, <1>4 DEF LsnStep, TestFlag, Accept, AddClient, LogCreated, StartRecv, Fails,
                      guiVars, trayVars
<1>5. ASSUME NEW c \in Client, CliStep(c) \/ PeerStep(c)
      PROVE  IconKept'
    BY <1>1, <1>5 DEF CliStep, PeerStep, Recv, RecvEnd, LogMessage, Relay, ProcEnd, Reads, Leave, Reset,
                      Unlist, Delete, Quiet, Fails, guiVars, trayVars
<1>. QED
    BY <1>2, <1>3, <1>4, <1>5, Steps DEF vars, guiVars, trayVars

-----------------------------------------------------------------------------
(* SERVERDOWN before the deletion. *)

LEMMA ToldNext ==
  TypeOK /\ Accepted /\ Recorded /\ WindowGone /\ ToldFirst /\ [Next]_vars => ToldFirst'
<1> SUFFICES ASSUME TypeOK, Accepted, Recorded, WindowGone, ToldFirst, [Next]_vars,
                    (blame \intersect {"reset", "joined"})' = {}
             PROVE  ToldFirst'
    BY DEF ToldFirst
<1>1. ListTyped /\ ClientTyped
    BY TypeParts
<1>2. "reset" \notin blame /\ "joined" \notin blame /\ "joined" \notin blame'
    BY BlameGrows
<1>3. /\ gui \in Closing => lsn \notin Joining
      /\ gui = "down" => \A c \in list : c <= it => c \in told
      /\ gui \in Closing \ {"down"} => list \subseteq told
      /\ gui = "wait" => it \in told
      /\ \A c \in Client : obj[c] \in {"going", "freed"} => c \in told
    BY <1>2 DEF ToldFirst
<1>4. \A c \in Client : peer[c] # "reset"
    BY <1>2 DEF Recorded
<1>5. CASE /\ UNCHANGED <<it, list, obj, told>> /\ (lsn' \in Joining => lsn \in Joining)
           /\ gui' \in Closing => gui' = gui
    BY <1>3, <1>5 DEF ToldFirst, Closing
<1>6. CASE GuiStep
  <2>1. CASE InitServer \/ CheckStarted \/ RunListen \/ SetTimer \/ GetClientList \/ ShowClient
             \/ OnDestroy \/ FreeServer \/ InitInstance
    <3>1. /\ UNCHANGED <<list, obj, told>> /\ (lsn' \in Joining => lsn \in Joining)
          /\ gui' \in Closing => gui' = gui /\ it' = it
        BY <2>1 DEF InitServer, CheckStarted, RunListen, SetTimer, GetClientList, ShowClient,
                    OnDestroy, FreeServer, InitInstance, Go, Fails, guiVars, listVars, cliVars,
                    Closing, Joining
    <3>. QED
        BY <1>3, <3>1 DEF ToldFirst, Closing
  <2>2. CASE StopListen
    <3>1. /\ it' = 0 /\ gui' = "down" /\ UNCHANGED <<lsn, list, obj, told>>
          /\ lsn \in {"add", "log", "start"} => "joined" \in blame'
        BY <2>2 DEF StopListen, Go, listVars, Blame
    <3>2. \A c \in list : ~(c <= 0)
        BY <1>1 DEF ListTyped
    <3>. QED
        BY <1>2, <1>3, <3>1, <3>2 DEF ToldFirst, Closing, Joining
  <2>3. CASE SendServerDown
    <3>1. CASE Fails("down")
        BY <1>5, <3>1 DEF Fails, guiVars, listVars, cliVars
    <3>2. CASE AtEnd /\ gui' = "delete" /\ it' = 0 /\ UNCHANGED <<lsn, list, obj, told>>
        BY <1>3, <2>3, <3>2 DEF AtEnd, SendServerDown, ToldFirst, Closing
    <3>3. CASE \E n \in Client : /\ Next1(n) /\ told' = told \union {n} /\ gui' = "down" /\ it' = n
                                 /\ UNCHANGED <<lsn, list, obj>>
      <4>1. PICK n \in Client : Next1(n) /\ told' = told \union {n} /\ it' = n
          BY <3>3
      <4>2. \A c \in list : c <= n => c <= it \/ c = n
          BY <1>1, <4>1 DEF Next1, ListTyped, Client
      <4>. QED
          BY <1>3, <2>3, <3>3, <4>1, <4>2 DEF SendServerDown, ToldFirst, Closing
    <3>. QED
        BY <2>3, <3>1, <3>2, <3>3 DEF SendServerDown, DownGoesOn, listVars
  <2>4. CASE DeleteClient
    <3>1. CASE Fails("delete")
        BY <1>5, <3>1 DEF Fails, guiVars, listVars, cliVars
    <3>2. CASE AtEnd /\ gui' = "close" /\ UNCHANGED <<it, lsn, list, obj, told>>
        BY <1>3, <2>4, <3>2 DEF DeleteClient, ToldFirst, Closing
    <3>3. CASE \E n \in Client : /\ Next1(n) /\ it' = n /\ gui' \in {"wait", "delete"}
                                 /\ obj' = [obj EXCEPT ![n] = IF gui' = "wait" THEN "going" ELSE "freed"]
                                 /\ UNCHANGED <<lsn, list, told>>
        BY <1>1, <1>3, <2>4, <3>3 DEF DeleteClient, Next1, ToldFirst, Closing, ClientTyped
    <3>. QED
        BY <2>4, <3>1, <3>2, <3>3 DEF DeleteClient, AfterClear, listVars
  <2>5. CASE WaitReceiver
      BY <1>1, <1>3, <2>5 DEF WaitReceiver, Go, listVars, ToldFirst, Closing, ClientTyped
  <2>6. CASE CloseListener
      BY <1>3, <2>6 DEF CloseListener, Go, listVars, cliVars, ToldFirst, Closing
  <2>. QED
      BY <1>6, <2>1, <2>2, <2>3, <2>4, <2>5, <2>6 DEF GuiStep
<1>7. CASE UserStep
  <2>1. /\ UNCHANGED <<list, obj, told, lsn>>
        /\ gui' \in Closing => gui' = gui /\ it' = it
      BY <1>7 DEF UserStep, OnTimer, CloseWindow, DoubleClick, TrayOpen, Tray, TrayExit, Go,
                  guiVars, listVars, cliVars, Closing
  <2>. QED
      BY <1>3, <2>1 DEF ToldFirst, Closing
<1>8. CASE LsnStep
  <2>1. CASE TestFlag \/ LogCreated \/ StartRecv
      BY <1>5, <2>1 DEF TestFlag, LogCreated, StartRecv, Listener, Fails, guiVars, listVars,
                        cliVars, Joining
  <2>2. CASE AddClient
    <3>1. CASE Fails("listener")
        BY <1>5, <3>1 DEF Fails, guiVars, listVars, cliVars
    <3>2. CASE lsn = "add" /\ UNCHANGED <<guiVars, cliVars>>
      <4>1. gui \notin Closing
          BY <1>3, <3>2 DEF Joining
      <4>. QED
          BY <1>3, <3>2, <4>1 DEF guiVars, cliVars, ToldFirst, Closing
    <3>. QED
        BY <2>2, <3>1, <3>2 DEF AddClient, Listener
  <2>3. CASE Accept
    <3>1. CASE lsn' # "add"
        BY <1>5, <2>3, <3>1 DEF Accept, Listener, guiVars, cliVars, Joining
    <3>2. CASE lsn' = "add"
      <4>1. /\ obj' = [obj EXCEPT ![count'] = "live"] /\ UNCHANGED <<guiVars, list, told>>
            /\ gui \in Closing => "joined" \in blame'
          BY <2>3, <3>2 DEF Accept, Listener, Note, Ending, Closing
      <4>. QED
          BY <1>1, <1>2, <1>3, <4>1 DEF guiVars, ToldFirst, Closing, ClientTyped
    <3>. QED
        BY <3>1, <3>2
  <2>. QED
      BY <1>8, <2>1, <2>2, <2>3 DEF LsnStep
<1>9. ASSUME NEW c \in Client, CliStep(c)
      PROVE  ToldFirst'
    BY <1>5, <1>9 DEF CliStep, Recv, RecvEnd, LogMessage, Relay, ProcEnd, Quiet, Fails,
                      guiVars, listVars, cliVars
<1>10. ASSUME NEW c \in Client, PeerStep(c)
       PROVE  ToldFirst'
    BY <1>4, <1>5, <1>10 DEF PeerStep, Reads, Leave, Reset, Unlist, Delete, Quiet, guiVars, listVars, cliVars
<1>. QED
    BY <1>5, <1>6, <1>7, <1>8, <1>9, <1>10, Steps DEF vars, guiVars, listVars, cliVars

-----------------------------------------------------------------------------
(* An orderly life. *)

\* What has not happened by the end of a step of an orderly life.
LEMMA Undisturbed ==
  ASSUME TypeOK, Recorded, [Next]_vars, Disorder' = {}
  PROVE  /\ Disorder = {}
         /\ "joined" \notin blame' /\ "relayed" \notin blame'
         /\ \A c \in Client : peer[c] # "reset" /\ run[c] # "killed" /\ proc[c] # "killed"
BY BlameGrows DEF Disorder, Recorded

\* Memory is used after it is freed only when the server is gone.
LEMMA FaultlessNext ==
  ASSUME TypeOK, Accepted, Recorded, Faultless, Ordered, [Next]_vars, Disorder' = {}
  PROVE  Faultless'
<1>1. CASE UNCHANGED <<ptr, srv, fault>>
    BY <1>1 DEF Faultless
<1>2. CASE fault' = "none"
    BY <1>2 DEF Faultless
<1>3. \A c \in Client : peer[c] # "reset"
    BY Undisturbed
<1>4. \A c \in Client : obj[c] = "freed" => srv = "freed" \/ gui \in Closing \ {"down"}
    BY DEF Ordered, InTurn
<1>5. CASE GuiStep
  <2>1. CASE InitServer \/ RunListen
      BY <1>2, <2>1 DEF InitServer, RunListen, Running, Fails, guiVars, Faultless
  <2>2. CASE CheckStarted \/ SetTimer \/ OnDestroy \/ StopListen \/ WaitReceiver \/ CloseListener
             \/ FreeServer \/ InitInstance
      BY <1>2, <2>2 DEF CheckStarted, SetTimer, OnDestroy, StopListen, WaitReceiver, CloseListener,
                        FreeServer, InitInstance, Go, Running
  <2>3. CASE GetClientList
      BY <1>2, <2>3 DEF GetClientList, Running, Erased, Ordered, OnNode
  <2>4. CASE ShowClient
    <3>1. copy \subseteq Client
        BY TypeParts, BoundAssumption DEF ListTyped, Client
    <3>. QED
        BY <1>2, <1>4, <2>4, <3>1 DEF ShowClient, Running, Fails, guiVars, Faultless, Closing
  <2>5. CASE SendServerDown
      BY <1>2, <1>3, <2>5 DEF SendServerDown, Running, Erased, Ordered, OnNode
  <2>6. CASE DeleteClient
    <3>1. \A n \in Client : Next1(n) => n > it /\ n \in Nat /\ it \in Nat
        BY TypeParts, BoundAssumption DEF Next1, ListTyped, Client
    <3>2. \A n \in Client : Next1(n) /\ gui = "delete" => obj[n] # "freed"
        BY <3>1 DEF Ordered, InTurn
    <3>. QED
        BY <1>2, <2>6, <3>2 DEF DeleteClient, Running, Erased, Ordered, OnNode
  <2>. QED
      BY <1>5, <2>1, <2>2, <2>3, <2>4, <2>5, <2>6 DEF GuiStep
<1>6. CASE UserStep
    BY <1>2, <1>6 DEF UserStep, OnTimer, CloseWindow, DoubleClick, TrayOpen, Tray, TrayExit, Go, Running
<1>7. CASE LsnStep
  <2>1. CASE TestFlag \/ Accept \/ AddClient \/ LogCreated
      BY <1>2, <2>1 DEF TestFlag, Accept, AddClient, LogCreated, Listener, Running, Fails, guiVars,
                        Faultless
  <2>2. CASE StartRecv
      BY <1>2, <1>4, <2>2 DEF StartRecv, Running, Fails, guiVars, Accepted, Ordered, Calm, Joining,
                              Faultless
  <2>. QED
      BY <1>7, <2>1, <2>2 DEF LsnStep
<1>8. ASSUME NEW c \in Client, CliStep(c)
      PROVE  Faultless'
  <2>1. CASE Recv(c) \/ RecvEnd(c) \/ LogMessage(c)
      BY <1>1, <2>1 DEF Recv, RecvEnd, LogMessage, Quiet, guiVars
  <2>2. CASE Relay(c)
    <3>1. list \subseteq Client
        BY TypeParts, BoundAssumption DEF ListTyped, Client
    <3>. QED
        BY <1>1, <1>4, <2>2, <3>1 DEF Relay, Quiet, Fails, guiVars, Ordered, Calm, Faultless
  <2>3. CASE ProcEnd(c)
      BY <1>1, <2>3 DEF ProcEnd, Quiet, Ordered, Finished, guiVars
  <2>. QED
      BY <1>8, <2>1, <2>2, <2>3 DEF CliStep
<1>9. ASSUME NEW c \in Client, PeerStep(c)
      PROVE  Faultless'
    BY <1>1, <1>3, <1>9 DEF PeerStep, Reads, Leave, Reset, Unlist, Delete, Quiet, guiVars
<1>. QED
    BY <1>1, <1>5, <1>6, <1>7, <1>8, <1>9, Steps DEF vars, guiVars

LEMMA OnNodeNext ==
  ASSUME TypeOK, Recorded, Ordered, [Next]_vars, Disorder' = {}
  PROVE  OnNode'
<1>1. OnNode
    BY DEF Ordered
<1>2. CASE list \subseteq list' /\ (gui' \in {"copy", "down", "delete", "wait"} => gui' = gui /\ it' = it)
    BY <1>1, <1>2 DEF OnNode
<1>3. CASE GuiStep
  <2>1. CASE InitServer \/ CheckStarted \/ RunListen \/ SetTimer \/ ShowClient \/ OnDestroy
             \/ CloseListener \/ FreeServer \/ InitInstance
      BY <1>2, <2>1 DEF InitServer, CheckStarted, RunListen, SetTimer, ShowClient, OnDestroy,
                        CloseListener, FreeServer, InitInstance, Go, Fails, guiVars, listVars
  <2>2. CASE GetClientList \/ SendServerDown \/ DeleteClient
    <3>1. \/ UNCHANGED <<gui, it, list>>
          \/ it' = 0
          \/ gui' \in {"show", "close"}
          \/ it' \in list /\ list' = list
        BY <2>2 DEF GetClientList, SendServerDown, DeleteClient, Next1, Fails, guiVars, listVars
    <3>. QED
        BY <1>1, <3>1 DEF OnNode
  <2>3. CASE StopListen \/ WaitReceiver
      BY <1>1, <2>3 DEF StopListen, WaitReceiver, Go, listVars, OnNode
  <2>. QED
      BY <1>3, <2>1, <2>2, <2>3 DEF GuiStep
<1>4. CASE UserStep
  <2>1. UNCHANGED list /\ \/ it' = 0
                          \/ gui' \notin {"copy", "down", "delete", "wait"}
                          \/ UNCHANGED <<gui, it>>
      BY <1>4 DEF UserStep, OnTimer, CloseWindow, DoubleClick, TrayOpen, Tray, TrayExit, Go,
                  guiVars, listVars
  <2>. QED
      BY <1>1, <2>1 DEF OnNode
<1>5. CASE LsnStep
    BY <1>2, <1>5 DEF LsnStep, TestFlag, Accept, AddClient, LogCreated, StartRecv, Fails,
                      guiVars, listVars
<1>6. ASSUME NEW c \in Client, CliStep(c) \/ PeerStep(c)
      PROVE  OnNode'
    BY <1>2, <1>6, Undisturbed
    DEF CliStep, PeerStep, Recv, RecvEnd, LogMessage, Relay, ProcEnd, Reads, Leave, Reset, Unlist, Delete,
        Quiet, Fails, guiVars, listVars
<1>. QED
    BY <1>2, <1>3, <1>4, <1>5, <1>6, Steps DEF vars, guiVars, listVars

LEMMA CalmNext ==
  ASSUME TypeOK, Recorded, WindowGone, Ordered, [Next]_vars, Disorder' = {}
  PROVE  Calm'
<1>1. Calm /\ "joined" \notin blame' /\ "relayed" \notin blame'
    BY Undisturbed DEF Ordered
<1>2. CASE /\ gui' \in Closing => gui \in Closing
           /\ lsn' \in Joining => lsn \in Joining
           /\ \A c \in Client : proc'[c] = "relay" => proc[c] = "relay"
    BY <1>1, <1>2 DEF Calm
<1>3. CASE GuiStep
  <2>1. CASE InitServer \/ CheckStarted \/ RunListen \/ SetTimer \/ GetClientList \/ ShowClient
             \/ OnDestroy
    <3>1. gui' \in Closing => gui' = gui /\ UNCHANGED <<lsn, proc>>
        BY <2>1 DEF InitServer, CheckStarted, RunListen, SetTimer, GetClientList, ShowClient,
                    OnDestroy, Go, Fails, guiVars, listVars, cliVars, Closing
    <3>. QED
        BY <1>1, <3>1 DEF Calm
  <2>2. CASE StopListen
    <3>1. lsn' = lsn /\ \A c \in Client : proc'[c] = "relay" => proc[c] = "relay"
        BY <2>2, TypeParts DEF StopListen, listVars, ClientTyped
    <3>2. lsn \notin Joining /\ \A c \in Client : proc[c] # "relay"
        BY <1>1, <2>2 DEF StopListen, Blame, Joining
    <3>. QED
        BY <3>1, <3>2 DEF Calm
  <2>3. CASE SendServerDown \/ DeleteClient \/ WaitReceiver \/ CloseListener \/ FreeServer \/ InitInstance
      BY <1>2, <2>3 DEF SendServerDown, DeleteClient, WaitReceiver, CloseListener, FreeServer,
                        InitInstance, Go, Fails, guiVars, listVars, cliVars, Closing
  <2>. QED
      BY <1>3, <2>1, <2>2, <2>3 DEF GuiStep
<1>4. CASE UserStep
    BY <1>2, <1>4 DEF UserStep, OnTimer, CloseWindow, DoubleClick, TrayOpen, Tray, TrayExit, Go,
                      guiVars, listVars, cliVars, Closing
<1>5. CASE LsnStep
  <2>1. CASE TestFlag \/ LogCreated
      BY <1>2, <2>1 DEF TestFlag, LogCreated, Listener, Fails, guiVars, listVars, cliVars, Joining
  <2>2. CASE Accept
    <3>1. UNCHANGED <<gui, proc>> /\ (gui \in Closing => lsn' \notin Joining)
        BY <1>1, <2>2 DEF Accept, Listener, Note, Ending, Closing, Joining, guiVars, cliVars
    <3>. QED
        BY <1>1, <3>1 DEF Calm
  <2>3. CASE AddClient \/ StartRecv
    <3>1. lsn \in Joining /\ UNCHANGED gui
        BY <2>3 DEF AddClient, StartRecv, Listener, Joining, Fails, guiVars
    <3>. QED
        BY <1>1, <3>1 DEF Calm
  <2>. QED
      BY <1>5, <2>1, <2>2, <2>3 DEF LsnStep
<1>6. ASSUME NEW c \in Client, CliStep(c) \/ PeerStep(c)
      PROVE  Calm'
  <2>1. CASE LogMessage(c)
    <3>1. gui \notin Closing /\ UNCHANGED gui
        BY <2>1 DEF LogMessage, Answers, WindowGone, Closing, Quiet, guiVars
    <3>. QED
        BY <3>1 DEF Calm
  <2>2. CASE ~LogMessage(c)
    <3>1. UNCHANGED <<gui, lsn>> /\ \A d \in Client : proc'[d] = "relay" => proc[d] = "relay"
      <4>1. ClientTyped
          BY TypeParts
      <4>. QED
          BY <1>6, <2>2, <4>1
          DEF CliStep, PeerStep, Recv, RecvEnd, Relay, ProcEnd, Reads, Leave, Reset, Unlist, Delete, Quiet,
              Fails, guiVars, listVars, cliVars, ClientTyped
    <3>. QED
        BY <1>2, <3>1
  <2>. QED
      BY <2>1, <2>2
<1>. QED
    BY <1>2, <1>3, <1>4, <1>5, <1>6, Steps DEF vars, guiVars, listVars, cliVars

\* The states in which clients have been deleted.
Emptied == srv = "freed" \/ gui \in Closing \ {"down"}

LEMMA InTurnNext ==
  ASSUME TypeOK, Recorded, WindowGone, Ordered, [Next]_vars, Disorder' = {}
  PROVE  InTurn'
<1>1. \A c \in Client : obj[c] \in {"going", "freed"} => Emptied /\ (gui \in {"delete", "wait"} => c <= it)
    BY DEF Ordered, InTurn, Emptied
<1>2. ListTyped /\ ClientTyped /\ list \subseteq Client /\ MaxClient \in Nat
    BY TypeParts, BoundAssumption DEF ListTyped, Client
<1>3. CASE /\ \A c \in Client : obj'[c] \in {"going", "freed"} => obj[c] \in {"going", "freed"}
           /\ Emptied => Emptied'
           /\ gui' \in {"delete", "wait"} => gui' = gui /\ it' = it
    BY <1>1, <1>3 DEF InTurn, Emptied
<1>4. CASE GuiStep
  <2>1. CASE InitServer \/ CheckStarted \/ RunListen \/ SetTimer \/ GetClientList \/ ShowClient
             \/ OnDestroy \/ StopListen \/ CloseListener \/ FreeServer \/ InitInstance
    <3>1. obj' = obj /\ (gui' \in {"delete", "wait"} => gui' = gui /\ it' = it)
        BY <2>1 DEF InitServer, CheckStarted, RunListen, SetTimer, GetClientList, ShowClient,
                    OnDestroy, StopListen, CloseListener, FreeServer, InitInstance, Go, Fails,
                    guiVars, cliVars
    <3>2. Emptied => Emptied'
        BY <2>1 DEF InitServer, CheckStarted, RunListen, SetTimer, GetClientList, ShowClient,
                    OnDestroy, StopListen, CloseListener, FreeServer, InitInstance, Go, Fails,
                    guiVars, WindowGone, Emptied, Closing
    <3>. QED
        BY <1>3, <3>1, <3>2
  <2>2. CASE SendServerDown
    <3>1. obj' = obj /\ gui = "down" /\ srv # "freed"
        BY <2>2 DEF SendServerDown, Fails, cliVars, WindowGone
    <3>2. \A c \in Client : obj[c] \notin {"going", "freed"}
        BY <1>1, <3>1 DEF Emptied
    <3>. QED
        BY <3>1, <3>2 DEF InTurn
  <2>3. CASE DeleteClient
    <3>1. CASE Fails("delete")
        BY <1>3, <3>1 DEF Fails, guiVars, cliVars, Emptied
    <3>2. CASE gui' = "close" /\ obj' = obj
        BY <3>2 DEF InTurn, Closing
    <3>3. ASSUME NEW n \in Client, Next1(n), it' = n, gui' \in {"wait", "delete"},
                 \A c \in Client : c # n => obj'[c] = obj[c]
          PROVE  InTurn'
      <4>1. n > it /\ n \in Nat /\ it \in Nat /\ gui = "delete"
          BY <1>2, <2>3, <3>3 DEF Next1, ListTyped, Client, DeleteClient
      <4>. QED
          BY <1>1, <3>3, <4>1 DEF InTurn, Closing, Client
    <3>. QED
        BY <1>2, <2>3, <3>1, <3>2, <3>3 DEF DeleteClient, AfterClear, ClientTyped
  <2>4. CASE WaitReceiver
      BY <1>1, <1>2, <2>4 DEF WaitReceiver, Go, InTurn, Closing, ClientTyped, ListTyped
  <2>. QED
      BY <1>4, <2>1, <2>2, <2>3, <2>4 DEF GuiStep
<1>5. CASE UserStep
    BY <1>3, <1>5 DEF UserStep, OnTimer, CloseWindow, DoubleClick, TrayOpen, Tray, TrayExit, Go,
                      guiVars, cliVars, Emptied, Closing
<1>6. CASE LsnStep
  <2>1. UNCHANGED guiVars
      BY <1>6 DEF LsnStep, TestFlag, Accept, AddClient, LogCreated, StartRecv, Fails
  <2>2. obj' = obj \/ obj' = [obj EXCEPT ![count'] = "live"]
      BY <1>6 DEF LsnStep, TestFlag, Accept, AddClient, LogCreated, StartRecv, Fails, cliVars
  <2>. QED
      BY <1>2, <1>3, <2>1, <2>2 DEF guiVars, Emptied, ClientTyped
<1>7. ASSUME NEW c \in Client, CliStep(c) \/ PeerStep(c)
      PROVE  InTurn'
  <2>1. UNCHANGED <<guiVars, obj>>
      BY <1>7, Undisturbed
      DEF CliStep, PeerStep, Recv, RecvEnd, LogMessage, Relay, ProcEnd, Reads, Leave, Reset, Unlist,
          Delete, Quiet, Fails, cliVars
  <2>. QED
      BY <1>3, <2>1 DEF guiVars, Emptied
<1>8. CASE UNCHANGED vars
    BY <1>3, <1>8 DEF vars, guiVars, cliVars, Emptied
<1>. QED
    BY <1>4, <1>5, <1>6, <1>7, <1>8, Steps

\* The client that DeleteClient gets to has its threads, and they are waited for.
LEMMA DeletedWaits ==
  ASSUME TypeOK, Ordered, NEW n \in Client, Next1(n), gui = "delete"
  PROVE  n \in rflag
<1>1. n > it /\ n \in Nat /\ it \in Nat
    BY TypeParts, BoundAssumption DEF Next1, ListTyped, Client
<1>2. obj[n] \notin {"going", "freed"} /\ lsn \notin {"log", "start"}
    BY <1>1 DEF Ordered, InTurn, Calm, Closing, Joining
<1>. QED
    BY <1>2 DEF Next1, Ordered, Threaded

LEMMA ThreadedNext ==
  ASSUME TypeOK, Accepted, Recorded, Ordered, [Next]_vars, Disorder' = {}
  PROVE  Threaded'
<1>1. Threaded
    BY DEF Ordered
<1>2. ListTyped /\ ClientTyped /\ list \subseteq Client /\ MaxClient \in Nat
    BY TypeParts, BoundAssumption DEF ListTyped, Client
<1>3. CASE UNCHANGED <<list, rflag, obj, count, lsn>>
    BY <1>1, <1>3 DEF Threaded
<1>4. CASE GuiStep
  <2>1. CASE RunListen
    <3>1. \/ UNCHANGED <<list, rflag, obj, count, lsn>>
          \/ UNCHANGED <<list, rflag, obj, count>> /\ lsn' = "test"
        BY <2>1 DEF RunListen, Fails, listVars, cliVars
    <3>2. lsn = "none"
        BY <2>1 DEF RunListen, Accepted
    <3>. QED
        BY <1>1, <1>3, <3>1, <3>2 DEF Threaded
  <2>2. CASE DeleteClient
    <3>1. \/ UNCHANGED <<rflag, obj>>
          \/ \E n \in Client : \E what \in {"going", "freed"} :
               rflag' = rflag \ {n} /\ obj' = [obj EXCEPT ![n] = what]
        BY <2>2 DEF DeleteClient, Fails, cliVars
    <3>2. UNCHANGED <<list, count, lsn>>
        BY <2>2 DEF DeleteClient, Fails, listVars
    <3>. QED
        BY <1>1, <1>2, <3>1, <3>2 DEF Threaded, ClientTyped
  <2>3. CASE WaitReceiver
      BY <1>1, <1>2, <2>3 DEF WaitReceiver, listVars, Threaded, ClientTyped
  <2>4. CASE ~RunListen /\ ~DeleteClient /\ ~WaitReceiver
      BY <1>3, <1>4, <2>4
      DEF GuiStep, InitServer, CheckStarted, SetTimer, GetClientList, ShowClient, OnDestroy,
          StopListen, SendServerDown, CloseListener, FreeServer, InitInstance, Fails,
          listVars, cliVars
  <2>. QED
      BY <2>1, <2>2, <2>3, <2>4
<1>5. CASE UserStep
    BY <1>3, <1>5 DEF UserStep, OnTimer, CloseWindow, DoubleClick, TrayOpen, Tray, TrayExit,
                      listVars, cliVars
<1>6. CASE LsnStep
  <2>1. CASE TestFlag \/ LogCreated
    <3>1. UNCHANGED <<list, rflag, obj, count>> /\ (lsn \in {"log", "start"} => lsn' \in {"log", "start"})
        BY <2>1 DEF TestFlag, LogCreated, Listener, Fails, listVars, cliVars
    <3>. QED
        BY <1>1, <3>1 DEF Threaded
  <2>2. CASE Accept
    <3>1. lsn = "accept" /\ UNCHANGED <<list, rflag>>
          /\ (obj' = obj \/ (count' = count + 1 /\ obj' = [obj EXCEPT ![count'] = "live"]))
        BY <2>2 DEF Accept, Listener, cliVars
    <3>2. \A c \in list : c \in rflag \/ obj[c] \in {"going", "freed"}
        BY <1>1, <3>1 DEF Threaded
    <3>3. \A c \in list : c # count + 1
        BY <1>2 DEF ListTyped
    <3>. QED
        BY <1>2, <3>1, <3>2, <3>3 DEF Threaded, ClientTyped
  <2>3. CASE AddClient
      BY <1>1, <2>3 DEF AddClient, Listener, Fails, listVars, cliVars, Threaded
  <2>4. CASE StartRecv
      BY <1>1, <2>4 DEF StartRecv, Fails, listVars, cliVars, Threaded
  <2>. QED
      BY <1>6, <2>1, <2>2, <2>3, <2>4 DEF LsnStep
<1>7. ASSUME NEW c \in Client, CliStep(c) \/ PeerStep(c)
      PROVE  Threaded'
    BY <1>3, <1>7, Undisturbed
    DEF CliStep, PeerStep, Recv, RecvEnd, LogMessage, Relay, ProcEnd, Reads, Leave, Reset, Unlist,
        Delete, Quiet, Fails, listVars, cliVars
<1>8. CASE UNCHANGED vars
    BY <1>3, <1>8 DEF vars, listVars, cliVars
<1>. QED
    BY <1>4, <1>5, <1>6, <1>7, <1>8, Steps

LEMMA FinishedNext ==
  ASSUME TypeOK, Accepted, Recorded, Ordered, [Next]_vars, Disorder' = {}
  PROVE  Finished'
<1>1. Finished
    BY DEF Ordered
<1>2. ClientTyped
    BY TypeParts
<1>3. CASE /\ \A c \in Client : obj'[c] = "freed" => obj[c] = "freed"
           /\ \A c \in Client : proc[c] = "ended" => proc'[c] = "ended"
    BY <1>1, <1>3 DEF Finished
<1>4. CASE GuiStep
  <2>1. CASE DeleteClient
    <3>1. proc' = proc
        BY <2>1 DEF DeleteClient, Fails, cliVars
    <3>2. obj' = obj \/ \E n \in Client : n \in rflag /\ obj' = [obj EXCEPT ![n] = "going"]
        BY <2>1, DeletedWaits DEF DeleteClient, AfterClear, Fails, cliVars
    <3>. QED
        BY <1>2, <1>3, <3>1, <3>2 DEF ClientTyped
  <2>2. CASE WaitReceiver
    <3>1. obj' = [obj EXCEPT ![it] = "freed"] /\ proc' = proc /\ it \in Client /\ proc[it] = "ended"
        BY <2>2, Undisturbed DEF WaitReceiver, Go, Accepted, Recorded
    <3>. QED
        BY <1>1, <1>2, <3>1 DEF Finished, ClientTyped
  <2>3. CASE StopListen
      BY <1>2, <1>3, <2>3 DEF StopListen, ClientTyped
  <2>4. CASE ~DeleteClient /\ ~WaitReceiver /\ ~StopListen
      BY <1>3, <1>4, <2>4
      DEF GuiStep, InitServer, CheckStarted, RunListen, SetTimer, GetClientList, ShowClient,
          OnDestroy, SendServerDown, CloseListener, FreeServer, InitInstance, Fails, cliVars
  <2>. QED
      BY <2>1, <2>2, <2>3, <2>4
<1>5. CASE UserStep
    BY <1>3, <1>5 DEF UserStep, OnTimer, CloseWindow, DoubleClick, TrayOpen, Tray, TrayExit, cliVars
<1>6. CASE LsnStep
  <2>1. CASE TestFlag \/ AddClient \/ LogCreated
      BY <1>3, <2>1 DEF TestFlag, AddClient, LogCreated, Fails, cliVars
  <2>2. CASE Accept
      BY <1>2, <1>3, <2>2 DEF Accept, cliVars, ClientTyped
  <2>3. CASE StartRecv
    <3>1. \/ UNCHANGED <<obj, proc>>
          \/ obj' = obj /\ proc' = [proc EXCEPT ![count] = "idle"] /\ obj[count] # "freed"
        BY <2>3 DEF StartRecv, Fails, cliVars
    <3>. QED
        BY <1>1, <1>2, <3>1 DEF Finished, ClientTyped
  <2>. QED
      BY <1>6, <2>1, <2>2, <2>3 DEF LsnStep
<1>7. ASSUME NEW c \in Client, CliStep(c)
      PROVE  Finished'
    BY <1>2, <1>3, <1>7
    DEF CliStep, Recv, RecvEnd, LogMessage, Relay, ProcEnd, Quiet, Fails, cliVars, ClientTyped
<1>8. ASSUME NEW c \in Client, PeerStep(c)
      PROVE  Finished'
    BY <1>3, <1>8, Undisturbed
    DEF PeerStep, Reads, Leave, Reset, Unlist, Delete, Quiet, Fails, cliVars
<1>9. CASE UNCHANGED vars
    BY <1>3, <1>9 DEF vars, cliVars
<1>. QED
    BY <1>4, <1>5, <1>6, <1>7, <1>8, <1>9, Steps

-----------------------------------------------------------------------------
(* What an orderly life leaves behind. *)

\* A client is listed as soon as the listening thread has let go of it, only a
\* ClientSock has threads, and none is freed under its receiving thread.
Kept ==
  /\ \A c \in Client : /\ obj[c] # "none" => c \in list \/ (lsn = "add" /\ c = count)
                       /\ run[c] # "none" \/ proc[c] # "none" => obj[c] # "none"
                       /\ obj[c] = "freed" => run[c] = "ended"
  /\ lsn \in Joining => obj[count] # "none"

\* The loop of ~ServerClass has deleted what it has passed, and all when it ends.
Swept ==
  /\ gui \in {"delete", "wait"} =>
       \A c \in list : c <= it => obj[c] = "freed" \/ (gui = "wait" /\ c = it)
  /\ gui \in {"close", "free"} \/ srv = "freed" => \A c \in list : obj[c] = "freed"
  /\ srv = "freed" => lsn \notin Joining

Cleared == Disorder = {} => Kept /\ Swept

LEMMA KeptNext ==
  ASSUME TypeOK, Accepted, Recorded, Ordered, Kept, [Next]_vars, Disorder' = {}
  PROVE  Kept'
<1>1. ClientTyped /\ ListTyped /\ list \subseteq Client /\ MaxClient \in Nat
    BY TypeParts, BoundAssumption DEF ListTyped, Client
<1>2. CASE /\ list \subseteq list' /\ UNCHANGED <<count, lsn, run>>
           /\ \A c \in Client : obj'[c] # "freed" \/ obj[c] = "freed"
           /\ \A c \in Client : /\ obj'[c] # "none" <=> obj[c] # "none"
                                /\ proc'[c] # "none" => proc[c] # "none"
  <2>1. lsn \in Joining => count \in Client
      BY DEF Accepted, Joining
  <2>. QED
      BY <1>2, <2>1 DEF Kept
<1>3. CASE GuiStep
  <2>1. CASE DeleteClient
    <3>1. UNCHANGED <<list, count, lsn, run, proc>>
        BY <2>1 DEF DeleteClient, Fails, listVars, cliVars
    <3>2. obj' = obj \/ \E n \in Client : n \in list /\ obj' = [obj EXCEPT ![n] = "going"]
        BY <2>1, DeletedWaits DEF DeleteClient, AfterClear, Fails, cliVars, Next1
    <3>. QED
        BY <1>1, <3>1, <3>2 DEF Kept, ClientTyped, Accepted, Joining
  <2>2. CASE WaitReceiver
    <3>1. obj' = [obj EXCEPT ![it] = "freed"] /\ it \in Client /\ run[it] = "ended"
        BY <2>2, Undisturbed DEF WaitReceiver, Go, Accepted, Recorded
    <3>2. UNCHANGED <<list, count, lsn, run, proc>>
        BY <2>2 DEF WaitReceiver, listVars
    <3>. QED
        BY <1>1, <3>1, <3>2 DEF Kept, ClientTyped
  <2>3. CASE StopListen
    <3>1. "terminated" \notin blame'
        BY DEF Disorder
    <3>2. run' = run /\ proc' = proc
        BY <2>3, <3>1, StopStep
    <3>. QED
        BY <2>3, <3>2 DEF StopListen, listVars, Kept
  <2>4. CASE RunListen
      BY <2>4 DEF RunListen, Accepted, Fails, listVars, cliVars, Kept, Joining
  <2>5. CASE ~DeleteClient /\ ~WaitReceiver /\ ~StopListen /\ ~RunListen
      BY <1>2, <1>3, <2>5
      DEF GuiStep, InitServer, CheckStarted, SetTimer, GetClientList, ShowClient, OnDestroy,
          SendServerDown, CloseListener, FreeServer, InitInstance, Fails, listVars, cliVars
  <2>. QED
      BY <2>1, <2>2, <2>3, <2>4, <2>5
<1>4. CASE UserStep
    BY <1>2, <1>4 DEF UserStep, OnTimer, CloseWindow, DoubleClick, TrayOpen, Tray, TrayExit,
                      listVars, cliVars
<1>5. CASE LsnStep
  <2>1. CASE TestFlag \/ LogCreated
      BY <2>1 DEF TestFlag, LogCreated, Listener, Fails, listVars, cliVars, Kept, Joining
  <2>2. CASE Accept
    <3>1. lsn = "accept" /\ UNCHANGED <<list, run, proc>>
          /\ \/ UNCHANGED <<obj, count>> /\ lsn' = "test"
             \/ /\ count < MaxClient /\ count' = count + 1 /\ lsn' = "add"
                /\ obj' = [obj EXCEPT ![count'] = "live"]
        BY <2>2 DEF Accept, Listener, cliVars
    <3>2. count < MaxClient => count + 1 \in Client
        BY <1>1 DEF ListTyped, Client
    <3>3. \A c \in Client : obj[c] # "none" => c \in list
        BY <3>1 DEF Kept
    <3>. QED
        BY <1>1, <3>1, <3>2, <3>3 DEF Kept, ClientTyped, Joining
  <2>3. CASE AddClient
      BY <2>3 DEF AddClient, Listener, Fails, listVars, cliVars, Kept, Joining
  <2>4. CASE StartRecv
    <3>1. lsn = "start" /\ obj[count] # "none"
        BY <2>4 DEF StartRecv, Joining, Kept
    <3>2. \/ UNCHANGED <<obj, list, run, proc, count, lsn>>
          \/ /\ UNCHANGED <<obj, list, count>> /\ obj[count] # "freed" /\ lsn' = "test"
             /\ run' = [run EXCEPT ![count] = "run"] /\ proc' = [proc EXCEPT ![count] = "idle"]
        BY <2>4 DEF StartRecv, Started, Fails, listVars, cliVars
    <3>. QED
        BY <1>1, <3>1, <3>2 DEF Kept, ClientTyped, Joining
  <2>. QED
      BY <1>5, <2>1, <2>2, <2>3, <2>4 DEF LsnStep
<1>6. ASSUME NEW c \in Client, CliStep(c) \/ PeerStep(c)
      PROVE  Kept'
  <2>1. UNCHANGED <<list, lsn, count, obj>>
      BY <1>6, Undisturbed
      DEF CliStep, PeerStep, Recv, RecvEnd, LogMessage, Relay, ProcEnd, Reads, Leave, Reset, Unlist,
          Delete, Quiet, Fails, listVars, cliVars
  <2>2. \A d \in Client : /\ run[d] = "ended" => run'[d] = "ended"
                          /\ run'[d] # "none" => run[d] # "none"
                          /\ proc'[d] # "none" => proc[d] # "none"
      BY <1>1, <1>6
      DEF CliStep, PeerStep, Recv, RecvEnd, LogMessage, Relay, ProcEnd, Reads, Leave, Reset, Unlist,
          Delete, Quiet, Fails, cliVars, ClientTyped
  <2>. QED
      BY <2>1, <2>2 DEF Kept
<1>7. CASE UNCHANGED vars
    BY <1>7 DEF vars, listVars, cliVars, Kept
<1>. QED
    BY <1>3, <1>4, <1>5, <1>6, <1>7, Steps

LEMMA SweptNext ==
  ASSUME TypeOK, Accepted, Recorded, WindowGone, Ordered, Swept, [Next]_vars, Disorder' = {}
  PROVE  Swept'
<1>1. ClientTyped /\ ListTyped /\ list \subseteq Client /\ MaxClient \in Nat
    BY TypeParts, BoundAssumption DEF ListTyped, Client
<1>2. gui \in Closing => lsn \notin Joining
    BY DEF Ordered, Calm
<1>3. CASE UNCHANGED <<gui, srv, it, list, lsn>> /\ \A c \in Client : obj[c] = "freed" => obj'[c] = "freed"
    BY <1>1, <1>3 DEF Swept
<1>4. CASE GuiStep
  <2>1. CASE InitServer \/ CheckStarted \/ RunListen \/ SetTimer \/ GetClientList \/ ShowClient
             \/ OnDestroy \/ StopListen
    <3>1. UNCHANGED <<list, obj>> /\ (gui' \in {"delete", "wait", "close", "free"} => gui' = gui /\ it' = it)
        BY <2>1 DEF InitServer, CheckStarted, RunListen, SetTimer, GetClientList, ShowClient,
                    OnDestroy, StopListen, Go, Fails, guiVars, listVars, cliVars
    <3>2. srv' = "freed" => srv = "freed" /\ lsn' = lsn
        BY <2>1 DEF InitServer, CheckStarted, RunListen, SetTimer, GetClientList, ShowClient,
                    OnDestroy, StopListen, Go, Fails, guiVars, listVars
    <3>. QED
        BY <3>1, <3>2 DEF Swept
  <2>2. CASE SendServerDown
    <3>1. srv # "freed"
        BY <2>2 DEF SendServerDown, WindowGone
    <3>2. UNCHANGED <<srv, list, obj>>
          /\ \/ gui' = "down"
             \/ gui' = "delete" /\ it' = 0
        BY <2>2 DEF SendServerDown, DownGoesOn, Fails, guiVars, listVars, cliVars
    <3>. QED
        BY <1>1, <3>1, <3>2 DEF Swept, ListTyped
  <2>3. CASE DeleteClient
    <3>1. CASE Fails("delete")
        BY <1>3, <3>1 DEF Fails, guiVars, listVars, cliVars
    <3>2. CASE ~Fails("delete")
      <4>1. gui = "delete" /\ srv # "freed" /\ UNCHANGED <<srv, list>>
          BY <2>3, <3>2 DEF DeleteClient, WindowGone, listVars
      <4>2. \A c \in list : c <= it => obj[c] = "freed"
          BY <4>1 DEF Swept
      <4>3. CASE AtEnd /\ gui' = "close" /\ obj' = obj
          BY <4>1, <4>2, <4>3 DEF AtEnd, Swept
      <4>4. ASSUME NEW n \in Client, Next1(n), it' = n, gui' = "wait",
                   obj' = [obj EXCEPT ![n] = "going"]
            PROVE  Swept'
        <5>1. \A c \in list : c <= n => c <= it \/ c = n
            BY <1>1, <4>4 DEF Next1, ListTyped, Client
        <5>2. n > it
            BY <4>4 DEF Next1
        <5>. QED
            BY <1>1, <4>1, <4>2, <4>4, <5>1, <5>2 DEF Swept, ClientTyped
      <4>. QED
          BY <2>3, <3>2, <4>1, <4>3, <4>4, DeletedWaits DEF DeleteClient, AfterClear
    <3>. QED
        BY <3>1, <3>2
  <2>4. CASE WaitReceiver
    <3>1. gui = "wait" /\ gui' = "delete" /\ obj' = [obj EXCEPT ![it] = "freed"]
          /\ UNCHANGED <<srv, it, list, lsn>> /\ it \in Client
        BY <2>4 DEF WaitReceiver, Go, listVars, Accepted
    <3>. QED
        BY <1>1, <3>1 DEF Swept, ClientTyped
  <2>5. CASE CloseListener \/ FreeServer
    <3>1. gui \in {"close", "free"} /\ UNCHANGED <<list, lsn, obj>> /\ gui' \notin {"delete", "wait"}
        BY <2>5 DEF CloseListener, FreeServer, Go, listVars, cliVars
    <3>. QED
        BY <1>2, <3>1 DEF Swept, Closing
  <2>6. CASE InitInstance
      BY <2>6 DEF InitInstance, Go, listVars, cliVars, Swept
  <2>. QED
      BY <1>4, <2>1, <2>2, <2>3, <2>4, <2>5, <2>6 DEF GuiStep
<1>5. CASE UserStep
  <2>1. UNCHANGED <<srv, list, lsn, obj>>
        /\ (gui' \in {"delete", "wait", "close", "free"} => gui' = gui /\ it' = it)
      BY <1>5 DEF UserStep, OnTimer, CloseWindow, DoubleClick, TrayOpen, Tray, TrayExit, Go,
                  guiVars, listVars, cliVars
  <2>. QED
      BY <2>1 DEF Swept
<1>6. CASE LsnStep
  <2>1. UNCHANGED <<gui, srv, it>>
      BY <1>6 DEF LsnStep, TestFlag, Accept, AddClient, LogCreated, StartRecv, Fails, guiVars
  <2>2. CASE AddClient \/ LogCreated \/ StartRecv
    <3>1. lsn \in Joining
        BY <2>2 DEF AddClient, LogCreated, StartRecv, Listener, Joining
    <3>2. gui \notin Closing /\ srv # "freed"
        BY <1>2, <3>1 DEF Swept
    <3>. QED
        BY <2>1, <3>2 DEF Swept, Closing
  <2>3. CASE TestFlag
      BY <2>1, <2>3 DEF TestFlag, Listener, Fails, listVars, cliVars, Swept, Joining
  <2>4. CASE Accept
    <3>1. list' = list
        BY <2>4 DEF Accept
    <3>2. \A c \in Client : obj[c] = "freed" => obj'[c] = "freed" \/ (c = count + 1 /\ lsn' = "add")
        BY <1>1, <2>4 DEF Accept, Listener, cliVars, ClientTyped
    <3>3. srv = "freed" => lsn' = "test"
        BY <2>4 DEF Accept, Listener
    <3>4. \A c \in list : c # count + 1
        BY <1>1 DEF ListTyped
    <3>. QED
        BY <1>1, <2>1, <3>1, <3>2, <3>3, <3>4 DEF Swept, Joining
  <2>. QED
      BY <1>6, <2>2, <2>3, <2>4 DEF LsnStep
<1>7. ASSUME NEW c \in Client, CliStep(c) \/ PeerStep(c)
      PROVE  Swept'
  <2>1. UNCHANGED <<gui, srv, it, list, lsn, obj>>
      BY <1>7, Undisturbed
      DEF CliStep, PeerStep, Recv, RecvEnd, LogMessage, Relay, ProcEnd, Reads, Leave, Reset, Unlist,
          Delete, Quiet, Fails, guiVars, listVars, cliVars
  <2>. QED
      BY <1>3, <2>1
<1>8. CASE UNCHANGED vars
    BY <1>3, <1>8 DEF vars, guiVars, listVars, cliVars
<1>. QED
    BY <1>4, <1>5, <1>6, <1>7, <1>8, Steps

-----------------------------------------------------------------------------
(* The theorems. *)

LEMMA DialogNext == DialogInv /\ [Next]_vars => DialogInv'
<1> SUFFICES ASSUME DialogInv, [Next]_vars PROVE DialogInv'
    OBVIOUS
<1>1. /\ TypeOK /\ Accepted /\ Recorded /\ WindowGone /\ IconKept /\ ToldFirst /\ InOrder
      /\ TypeOK' /\ Accepted'
    BY TypeNext DEF DialogInv
<1>2. Recorded' /\ WindowGone' /\ IconKept' /\ ToldFirst'
    BY <1>1, RecordedNext, WindowNext, IconNext, ToldNext
<1>3. ASSUME Disorder' = {}
      PROVE  Faultless' /\ Ordered'
  <2>1. Faultless /\ Ordered
      BY <1>1, <1>3, Undisturbed DEF InOrder
  <2>2. Faultless'
      BY <1>1, <1>3, <2>1, FaultlessNext
  <2>3. OnNode' /\ Calm' /\ InTurn'
      BY <1>1, <1>3, <2>1, OnNodeNext, CalmNext, InTurnNext
  <2>4. Threaded' /\ Finished'
      BY <1>1, <1>3, <2>1, ThreadedNext, FinishedNext
  <2>. QED
      BY <2>2, <2>3, <2>4 DEF Ordered
<1>. QED
    BY <1>1, <1>2, <1>3 DEF DialogInv, InOrder

LEMMA DialogInvHolds == Spec => []DialogInv
BY DialogInit, DialogNext, PTL DEF Spec

\* Every variable has its type: the loops of the GUI thread number only accepted
\* clients, and m_stThreadRecv.bThreadFlag is set only where RunRecv has run.
THEOREM TypeCorrect == Spec => []TypeOK
<1>1. DialogInv => TypeOK
    BY DEF DialogInv
<1>. QED
    BY <1>1, DialogInvHolds, PTL

\* In a life in which nothing happens that ~ServerClass is not made for, no
\* memory of the server or of a client is used after it is freed, whatever the
\* timer, the listening thread and the threads of the clients do meanwhile.
THEOREM OrderlyLives == Spec => []OrderlyLife
<1>1. DialogInv => OrderlyLife
    BY DEF DialogInv, InOrder, Faultless, OrderlyLife
<1>. QED
    BY <1>1, DialogInvHolds, PTL

\* ~ServerClass deletes a client only after SendServerDown has sent it
\* SERVERDOWN, unless a connection was reset or a client joined in between.
THEOREM DownComesFirst == Spec => []DownBeforeDelete
<1>1. DialogInv => DownBeforeDelete
    BY DEF DialogInv, ToldFirst, DownBeforeDelete
<1>. QED
    BY <1>1, DialogInvHolds, PTL

\* The window or the icon of the running program is there, and OnDestroy takes
\* the icon away, as long as the shell does what Shell_NotifyIcon asks of it.
THEOREM TrayAlwaysMatches == Spec => []TrayMatches
<1>1. DialogInv => TrayMatches
    BY DEF DialogInv, IconKept, Destroyed, TrayMatches
<1>. QED
    BY <1>1, DialogInvHolds, PTL

\* The server is freed only when every client it ever accepted has been deleted
\* and both threads of each have ended, in a life in which nothing happens that
\* ~ServerClass is not made for: what can outlive it is the listening thread.
THEOREM NothingIsLeft == Spec => []NothingOutlives
<1>1. Init => DialogInv /\ Cleared
    BY DialogInit, BoundAssumption DEF Init, Cleared, Kept, Swept, Joining
<1>2. DialogInv /\ Cleared /\ [Next]_vars => DialogInv' /\ Cleared'
  <2> SUFFICES ASSUME DialogInv, Cleared, [Next]_vars, Disorder' = {}
               PROVE  Kept' /\ Swept'
      BY DialogNext DEF Cleared
  <2>1. /\ TypeOK /\ Accepted /\ Recorded /\ WindowGone
        /\ Ordered /\ Kept /\ Swept
      BY Undisturbed DEF DialogInv, InOrder, Cleared
  <2>. QED
      BY <2>1, KeptNext, SweptNext
<1>3. DialogInv /\ Cleared => NothingOutlives
    BY DEF DialogInv, InOrder, Ordered, Finished, Cleared, Kept, Swept, Joining, NothingOutlives
<1>. QED
    BY <1>1, <1>2, <1>3, PTL DEF Spec

===============================================================================
