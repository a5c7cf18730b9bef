----------------------------- MODULE Rpc_proofs -----------------------------
(***************************************************************************)
(* The exchanges of module Rpc exclude one another, for any number of      *)
(* threads and handles.                                                    *)
(***************************************************************************)
EXTENDS Rpc, TLAPS

\* TypeOK and OneIO together are inductive: each step moves one thread, and
\* only Post and Finish change whether it has a handle.
IInv == TypeOK /\ OneIO

\* Nobody has a handle at the start, so none is shared.
LEMMA RpcInit == Init => IInv
  BY DEF Init, IInv, TypeOK, OneIO

\* Take, Answer, Abort and Acknowledge move a thread between stages other
\* than "idle" and leave every handle where it is.
LEMMA MoveKeepsIInv ==
  ASSUME NEW c \in Clients,
         NEW from \in {"posted", "taken", "aborting"},
         NEW to \in {"taken", "aborting", "settled"},
         IInv, Step(c, from, to), UNCHANGED on
  PROVE  IInv'
<1>1. TypeOK'
  BY DEF IInv, TypeOK, Step
<1>2. \A d \in Clients : stage'[d] = "idle" <=> stage[d] = "idle"
  BY DEF IInv, TypeOK, Step
<1>3. QED
  BY <1>1, <1>2 DEF IInv, OneIO

\* Posting a request (msg_send() from find_portref() to its sleep) is the only
\* step that gives a thread a handle, and the handle is one nobody has.
LEMMA PostKeepsIInv ==
  ASSUME NEW c \in Clients, NEW r \in Refs, Null \notin Refs,
         IInv, Post(c, r)
  PROVE  IInv'
<1>1. TypeOK'
  BY DEF IInv, TypeOK, Post, Step
<1>2. /\ stage' = [stage EXCEPT ![c] = "posted"]
      /\ on' = [on EXCEPT ![c] = r]
      /\ \A d \in Clients : on[d] # r
      /\ r # Null
  BY DEF Post, Step
<1>3. \A d \in Clients : stage'[d] = "idle" <=> on'[d] = Null
  BY <1>2 DEF IInv, TypeOK, OneIO
<1>4. ASSUME NEW d \in Clients, NEW e \in Clients, d # e, on'[d] # Null
      PROVE  on'[d] # on'[e]
  BY <1>2, <1>4 DEF IInv, TypeOK, OneIO
<1>5. QED
  BY <1>1, <1>3, <1>4 DEF IInv, OneIO

\* A call that returns gives its handle back.
LEMMA FinishKeepsIInv ==
  ASSUME NEW c \in Clients, IInv, Finish(c)
  PROVE  IInv'
<1>1. /\ stage' = [stage EXCEPT ![c] = "idle"]
      /\ on' = [on EXCEPT ![c] = Null]
  BY DEF Finish, Step
<1>2. TypeOK'
  BY <1>1 DEF IInv, TypeOK
<1>3. OneIO'
  BY <1>1 DEF IInv, TypeOK, OneIO
<1>4. QED
  BY <1>2, <1>3 DEF IInv

\* Every step keeps the invariant.
LEMMA RpcStep ==
  ASSUME Null \notin Refs, IInv, [Next]_vars
  PROVE  IInv'
<1>1. CASE UNCHANGED vars
  BY <1>1 DEF IInv, TypeOK, OneIO, vars
<1>2. CASE Next
  <2>1. PICK c \in Clients :
          \/ \E r \in Refs : Post(c, r)
          \/ Take(c) \/ Answer(c) \/ Abort(c) \/ Acknowledge(c) \/ Finish(c)
    BY <1>2 DEF Next
  <2>2. CASE \E r \in Refs : Post(c, r)
    BY <2>2, PostKeepsIInv
  <2>3. CASE Take(c)
    BY <2>3, MoveKeepsIInv DEF Take
  <2>4. CASE Answer(c)
    BY <2>4, MoveKeepsIInv DEF Answer
  <2>5. CASE Abort(c)
    BY <2>5, MoveKeepsIInv DEF Abort
  <2>6. CASE Acknowledge(c)
    BY <2>6, MoveKeepsIInv DEF Acknowledge
  <2>7. CASE Finish(c)
    BY <2>7, FinishKeepsIInv
  <2>8. QED
    BY <2>1, <2>2, <2>3, <2>4, <2>5, <2>6, <2>7
<1>3. QED
  BY <1>1, <1>2

\* At most one request is under way on a handle at any time.
THEOREM OneExchangePerHandle ==
  ASSUME Null \notin Refs
  PROVE  Spec => []OneIO
<1>1. Init => IInv
  BY RpcInit
<1>2. IInv /\ [Next]_vars => IInv'
  BY RpcStep
<1>3. IInv => OneIO
  BY DEF IInv
<1>4. QED
  BY <1>1, <1>2, <1>3, PTL DEF Spec

=============================================================================
