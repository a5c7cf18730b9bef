-------------------------------- MODULE Rpc --------------------------------
(***************************************************************************)
(* What msg_send() and the server's calls promise together.  A thread that *)
(* sends on a handle has it to itself until its call returns.  Its request *)
(* is received at most once and answered at most once, in this order; the  *)
(* call returns with the answer, or, when an event breaks it, before the   *)
(* request was received, after it was answered, or after the server has    *)
(* acknowledged an abort - never while a server still works on it.         *)
(*                                                                         *)
(* Module Msg implements this as long as the port stays open.              *)
(***************************************************************************)
CONSTANTS
  Clients,     \* threads that send
  Refs,        \* handles
  Null         \* no handle

VARIABLES
  stage,   \* of a thread's call
  on       \* the handle the call is made on

vars == <<stage, on>>

\* A call is in one stage, on one handle or none.
TypeOK ==
  /\ stage \in [Clients -> {"idle", "posted", "taken", "aborting", "settled"}]
  /\ on \in [Clients -> Refs \cup {Null}]

Init ==
  /\ stage = [c \in Clients |-> "idle"]
  /\ on = [c \in Clients |-> Null]

Step(c, from, to) ==
  /\ stage[c] = from
  /\ stage' = [stage EXCEPT ![c] = to]

\* The request is queued.
Post(c, r) ==
  /\ \A d \in Clients : on[d] # r
  /\ Step(c, "idle", "posted")
  /\ on' = [on EXCEPT ![c] = r]

\* A server receives it.
Take(c) == Step(c, "posted", "taken") /\ UNCHANGED on

\* The server answers it.
Answer(c) == Step(c, "taken", "settled") /\ UNCHANGED on

\* An event breaks the call while a server works on the request, ...
Abort(c) == Step(c, "taken", "aborting") /\ UNCHANGED on

\* ... and the server acknowledges.
Acknowledge(c) == Step(c, "aborting", "settled") /\ UNCHANGED on

\* The call returns: answered, aborted, or withdrawn before it was received.
Finish(c) ==
  /\ Step(c, "settled", "idle") \/ Step(c, "posted", "idle")
  /\ on' = [on EXCEPT ![c] = Null]

Next == \E c \in Clients :
  \/ \E r \in Refs : Post(c, r)
  \/ Take(c) \/ Answer(c) \/ Abort(c) \/ Acknowledge(c) \/ Finish(c)

Spec == Init /\ [][Next]_vars

-----------------------------------------------------------------------------

\* "Only one I/O through a port at a time" (p_sema of struct portref): no two
\* threads have an exchange under way on the same handle.
OneIO ==
  /\ \A c \in Clients : stage[c] = "idle" <=> on[c] = Null
  /\ \A c, d \in Clients : c # d /\ on[c] # Null => on[c] # on[d]

=============================================================================
