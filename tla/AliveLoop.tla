------------------------------ MODULE AliveLoop ------------------------------
(***************************************************************************)
(* The server together with the client library as far as alive requests    *)
(* go: the answer is a message of the type of the request, with the table  *)
(* in its buffer, and RecvMessagePort sends every message of that type     *)
(* back, so that an answer is the next request.                            *)
(***************************************************************************)
EXTENDS ServerClass

VARIABLES
  seen,    \* how many of the messages that reached a client its library has read
  \* History, read by no action:
  asked,   \* the table in the request a processing thread took last
  since    \* the numbers that listed clients have held since it took it

loopVars == <<vars, seen, asked, since>>

LoopInit ==
  /\ Init
  /\ seen = [c \in Conn |-> 0]
  /\ asked = [p \in Conn |-> {}] /\ since = [p \in Conn |-> {}]

\* RecvMessagePort of the client library: the next message, and _lib_SendData of
\* it if it is an alive message.
RecvMessagePort(c) ==
  /\ ~crashed /\ seen[c] < Len(out[c]) /\ c \notin full
  /\ seen' = [seen EXCEPT ![c] = @ + 1]
  /\ IF out[c][seen'[c]].type = "TASKALIVE"
       THEN Receive(c, out[c][seen'[c]])
       ELSE UNCHANGED vars

Held == {task[c] : c \in listed} \ {-1}

\* The history of a step of the server.
NoteHeld ==
  /\ asked' = [p \in Conn |-> IF pc[p] = "idle" THEN msg'[p].alive ELSE asked[p]]
  /\ since' = [p \in Conn |-> IF pc[p] = "idle" THEN Held' ELSE since[p] \union Held']

LoopNext ==
  /\ (Next /\ UNCHANGED seen) \/ \E c \in Conn : RecvMessagePort(c)
  /\ NoteHeld

LoopSpec == LoopInit /\ [][LoopNext]_loopVars

-----------------------------------------------------------------------------
(* Properties. *)

\* The table that goes into an answer has nothing but what the request came with
\* and numbers that clients have held since its handler began, through any
\* number of registrations and of answers sent back, unless its walk has stood on
\* an erased node.
AliveSound ==
  \A p \in Conn :
    pc[p] = "aliveSend" /\ p \notin wild => msg[p].alive \subseteq asked[p] \union since[p]
=============================================================================
