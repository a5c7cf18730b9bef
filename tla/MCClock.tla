------------------------------ MODULE MCClock -------------------------------
(***************************************************************************)
(* Three threads: two in one process, so that its node has one ready leaf  *)
(* or two, and one in a process of its own.                                *)
(***************************************************************************)
EXTENDS Clock
CONSTANTS t1, t2, t3, p1, p2
MCHome == (t1 :> p1) @@ (t2 :> p1) @@ (t3 :> p2)
MCPrios == {<<t2, "RT">>, <<t2, "TS">>}
MCDoes == {<<t1, "fork">>, <<t1, "interval_sleep">>, <<t2, "time_sleep">>, <<t3, "lock">>}
=============================================================================
