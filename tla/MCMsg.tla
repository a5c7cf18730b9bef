------------------------------- MODULE MCMsg -------------------------------
(***************************************************************************)
(* Small instances of Msg.  The threads of a process are alike, and so are *)
(* the addresses of portrefs.                                              *)
(***************************************************************************)
EXTENDS Msg

Symmetry == Permutations(Clients) \cup Permutations(Servers) \cup Permutations(Refs)

=============================================================================
