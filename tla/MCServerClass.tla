---------------------------- MODULE MCServerClass ----------------------------
(* Values of the constants of ServerClass for the model checker. *)
EXTENDS ServerClass

Req(type, src, dst) == [type |-> type, src |-> src, dst |-> dst, alive |-> {}]

\* One client registers, possibly twice, and another that joins at any time
\* may register too, even for the same number; the second sends to a number
\* and to everybody.
MC_Relaying ==
  <<{Req("TASKREG", 1, 0), Req("TASKREG", 2, 0)},
    {Req("TARGET", 0, 1), Req("BROADCAST", 0, 0)},
    {Req("BROADCAST", 0, 0), Req("TASKREG", 1, 0)}>>
MC_RelayingQuota == <<2, 2, 1>>

\* Two clients broadcast, one of them twice, to each other, to themselves and to a
\* third that joins at any time; the connection of the first may break, so that
\* the two walks, its own and its receiving thread remove it.
MC_Breaking ==
  <<{Req("BROADCAST", 0, 0)}, {Req("BROADCAST", 0, 0)}, {}>>
MC_BreakingQuota == <<2, 1, 0>>

\* Two clients register and one of them sends to a number, while a third
\* connection, the first in the list, may break.
MC_Dropping ==
  <<{}, {Req("TASKREG", 1, 0), Req("TASKREG", 2, 0)},
    {Req("TASKREG", 1, 0), Req("TARGET", 0, 1)}>>
MC_DroppingQuota == <<0, 1, 2>>

\* Two clients that broadcast, register and ask.
MC_Progress ==
  <<{Req("BROADCAST", 0, 0), Req("TASKALIVE", 1, 0)},
    {Req("BROADCAST", 0, 0), Req("TASKREG", 1, 0)}>>
MC_ProgressQuota == <<1, 1>>
=============================================================================
