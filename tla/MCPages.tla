------------------------------ MODULE MCPages -------------------------------
(***************************************************************************)
(* Instances of Pages.  Shared: three processes, one of them with two      *)
(* threads and one that only reads, have views of one ZFOD set, which      *)
(* pageout() steals, and may exit.  It is one set because do_hand(), which *)
(* reads whose a page is before it waits for the slot, takes pages away    *)
(* from a second.                                                          *)
(* Cow: the data of a process are a COW set of a file; a thread forks      *)
(* while another goes on.  Zfod: fork() of a process whose memory is       *)
(* stolen.                                                                 *)
(***************************************************************************)
EXTENDS Pages, TLC
CONSTANTS t1, t2, t3, t4, v1, v2, v3, a, b, txt

SharedViews == (t1 :> v1) @@ (t2 :> v1) @@ (t3 :> v2) @@ (t4 :> v3)
SharedSet == (v1 :> a) @@ (v2 :> a) @@ (v3 :> a)

CowViews == (t1 :> v1) @@ (t2 :> v1) @@ (t3 :> v2)
CowSet == (v1 :> a) @@ (v2 :> b)
CowKind == (a :> "COW") @@ (b :> "COW") @@ (txt :> "FILE")
CowMaster == (a :> txt) @@ (b :> txt) @@ (txt :> None)

ZfodViews == (t1 :> v1) @@ (t3 :> v2)

AllZero == [s \in Sets |-> "ZERO"]
NoMaster == [s \in Sets |-> None]
NoFork == [t \in Users |-> None]
Forks == [t \in Users |-> IF t = t1 THEN t3 ELSE None]
=============================================================================
