------------------------------- MODULE LogList -------------------------------
(***************************************************************************)
(* The list boxes of the two dialogs, as the threads that print into them  *)
(* see them.  A line takes three calls: ask for the number of lines, drop  *)
(* the oldest if there are too many, add the new one.  Each call is a      *)
(* message to the GUI thread, and other threads' calls come in between.    *)
(***************************************************************************)
EXTENDS Naturals, FiniteSets

CONSTANTS
  Threads,   \* the threads that print, the GUI thread among them
  Gui,
  LIMIT      \* 200 in the code

ASSUME ThreadsAssumption == IsFiniteSet(Threads) /\ Gui \in Threads
ASSUME LimitAssumption == LIMIT \in Nat

\* The server's lists IDC_LIST_MESSGE, IDC_LIST_INFO and IDC_LIST_INFO_CLIENT,
\* and IDC_LIST_LOG of the client program, where a thread is one of that program.
List == {"MESSAGE", "INFO", "INFO_CLIENT", "LOG"}

Writers(l) == IF l = "MESSAGE" THEN Threads
              ELSE IF l = "LOG" THEN Threads \ {Gui} ELSE {Gui}

VARIABLES
  lines,   \* number of lines in each list
  step,    \* what a thread does next
  box,     \* the list it does it to
  full     \* history: lists that have been over the limit since they were emptied

vars == <<lines, step, box, full>>

Init ==
  /\ lines = [l \in List |-> 0]
  /\ step = [t \in Threads |-> "idle"] /\ box = [t \in Threads |-> "MESSAGE"]
  /\ full = {}

-----------------------------------------------------------------------------
\* Mutant: == for >.
TooMany_Equal(n) == n = LIMIT + 1

\* Mutant: >= for >.
TooMany_Reached(n) == n >= LIMIT

TooMany(n) == n > LIMIT

GetCount(l, t) ==
  /\ step[t] = "idle"
  /\ box' = [box EXCEPT ![t] = l]
  /\ step' = [step EXCEPT ![t] = IF TooMany(lines[l]) THEN "delete" ELSE "add"]
  /\ UNCHANGED <<lines, full>>

\* Mutant: ResetContent for DeleteString.
Dropped_All(n) == 0

\* DeleteString(0) of an empty list fails, and nothing looks at that.
Dropped(n) == IF n = 0 THEN 0 ELSE n - 1

DeleteString(l, t) ==
  /\ step[t] = "delete" /\ box[t] = l
  /\ lines' = [lines EXCEPT ![l] = Dropped(lines[l])]
  /\ step' = [step EXCEPT ![t] = "add"]
  /\ UNCHANGED <<box, full>>

AddString(l, t) ==
  /\ step[t] = "add" /\ box[t] = l
  /\ lines' = [lines EXCEPT ![l] = lines[l] + 1]
  /\ full' = IF lines'[l] > LIMIT THEN full \union {l} ELSE full
  /\ step' = [step EXCEPT ![t] = "idle"]
  /\ UNCHANGED box

Write(l, t) ==
  t \in Writers(l) /\ (GetCount(l, t) \/ DeleteString(l, t) \/ AddString(l, t))

\* ServerClass::WriteLog formats the line and calls the function of the dialog.
WriteLog(t)         == Write("MESSAGE", t)
m_fn_WriteInfo       == Write("INFO", Gui)
m_fn_WriteInfoClient == Write("INFO_CLIENT", Gui)

\* The client dialog's function, called by the callback of the library.
m_fn_WriteLog(t)     == Write("LOG", t)

\* OnTimer starts the list of clients anew.
ResetContent ==
  /\ step[Gui] = "idle"
  /\ lines' = [lines EXCEPT !["INFO_CLIENT"] = 0]
  /\ full' = full \ {"INFO_CLIENT"}
  /\ UNCHANGED <<step, box>>

Next ==
  \/ \E t \in Threads : WriteLog(t) \/ m_fn_WriteLog(t)
  \/ m_fn_WriteInfo \/ m_fn_WriteInfoClient \/ ResetContent

Spec == Init /\ [][Next]_vars

-----------------------------------------------------------------------------
(* Properties. *)

\* Every variable has its type; a thread prints into lists of its own only, and
\* drops lines only of a list that has been full.
TypeOK ==
  /\ lines \in [List -> Nat]
  /\ step \in [Threads -> {"idle", "delete", "add"}]
  /\ box \in [Threads -> List]
  /\ \A t \in Threads : step[t] # "idle" => t \in Writers(box[t])
  /\ \A t \in Threads : step[t] = "delete" => box[t] \in full
  /\ full \subseteq List

\* However their calls interleave, the threads that print into a list can
\* push it past the limit by one line each, and no further.
Bounded == \A l \in List : lines[l] <= LIMIT + Cardinality(Writers(l))

\* And once it has been full, they never drop all but the last lines of it: the
\* newest are kept, up to one for each of the others.
NewestKept == \A l \in full : lines[l] + Cardinality(Writers(l)) >= LIMIT + 1
=============================================================================
