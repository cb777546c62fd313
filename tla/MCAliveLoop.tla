----------------------------- MODULE MCAliveLoop -----------------------------
(* Values of the constants of AliveLoop for the model checker: a client
   registers, possibly under a second number, possibly for the one of another,
   which registers, asks and sends an answer back, and a third joins.  The table
   has two entries, so that the number 2 does not fit. *)
EXTENDS AliveLoop

Req(type, src) == [type |-> type, src |-> src, dst |-> 0, alive |-> {}]

MC_Requests == <<{Req("TASKREG", 0), Req("TASKREG", 1), Req("TASKREG", 2)},
                 {Req("TASKREG", 0), Req("TASKALIVE", 0)}, {}>>
MC_Quota    == <<2, 3, 0>>
=============================================================================
