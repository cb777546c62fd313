----------------------------- MODULE MessageRelay -----------------------------
(***************************************************************************)
(* What the server promises of the messages it relays, with nothing said   *)
(* of lists, threads and walks.  Every source has one message in service   *)
(* at a time and serves them in the order they were sent.  The message in  *)
(* service is handed to receivers one by one: a message for ALL to any     *)
(* number of them, a message for ONE to at most one, a message for NONE to *)
(* nobody, and to no receiver twice, except that a message whose handing   *)
(* out was thrown off by the loss of a connection may come again to        *)
(* receivers that have it.                                                 *)
(***************************************************************************)
EXTENDS Naturals, Sequences

CONSTANTS Sources, Receivers

Kind == {"ALL", "ONE", "NONE"}

VARIABLES
  serving,   \* number of the message a source has in service
  kind,      \* whom that message is for
  given,     \* receivers it was handed to
  lost,      \* a connection has been lost
  loose,     \* sources that may hand the message in service out again
  stream     \* what each receiver got, as pairs <<source, number>>

vars == <<serving, kind, given, lost, loose, stream>>

Init ==
  /\ serving = [s \in Sources |-> 0]
  /\ kind    = [s \in Sources |-> "ALL"]
  /\ given   = [s \in Sources |-> {}]
  /\ lost    = FALSE
  /\ loose   = {}
  /\ stream  = [r \in Receivers |-> <<>>]

\* The next message of s goes into service.
Serve(s, k) ==
  /\ serving' = [serving EXCEPT ![s] = @ + 1]
  /\ kind'    = [kind EXCEPT ![s] = k]
  /\ given'   = [given EXCEPT ![s] = {}]
  /\ loose'   = loose \ {s}
  /\ UNCHANGED <<lost, stream>>

Lose == lost' = TRUE /\ UNCHANGED <<serving, kind, given, loose, stream>>

\* Losing a connection may throw off the handing out of a message.
MayLoosen(s) == loose' = loose \/ (lost /\ loose' = loose \union {s})

Loosen(s) == MayLoosen(s) /\ UNCHANGED <<serving, kind, given, lost, stream>>

\* The message in service is handed to one more receiver, or to one again.
Hand(s, r) ==
  /\ serving[s] > 0
  /\ kind[s] = "ALL" \/ (kind[s] = "ONE" /\ given[s] = {})
  /\ MayLoosen(s)
  /\ r \in given[s] => s \in loose'
  /\ given'  = [given EXCEPT ![s] = @ \union {r}]
  /\ stream' = [stream EXCEPT ![r] = Append(@, <<s, serving[s]>>)]
  /\ UNCHANGED <<serving, kind, lost>>

Next ==
  \/ Lose
  \/ \E s \in Sources :
       \/ \E k \in Kind : Serve(s, k)
       \/ Loosen(s)
       \/ \E r \in Receivers : Hand(s, r)

Spec == Init /\ [][Next]_vars
===============================================================================
