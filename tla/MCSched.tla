------------------------------ MODULE MCSched -------------------------------
(***************************************************************************)
(* Three threads: two in one process, so that its node has one ready leaf  *)
(* or two, and one in a process of its own.                                *)
(***************************************************************************)
EXTENDS Sched
CONSTANTS t1, t2, t3, p1, p2
MCHome == (t1 :> p1) @@ (t2 :> p1) @@ (t3 :> p2)
MCPrios == {<<t1, "RT">>, <<t1, "TS">>, <<t2, "BG">>}
=============================================================================
