------------------------- MODULE MsgProtocol_proofs -------------------------
(***************************************************************************)
(* What the protocol of message passing (Inv of Msg_proofs) comes to: that *)
(* the calls are an implementation of module Rpc, that the port's list and *)
(* the server's hash know the handles in service and hold live ones only,  *)
(* that no server waits for segments alone, that no client sleeps for an   *)
(* answer alone, and that a port which is closed leaves nothing behind.    *)
(***************************************************************************)
EXTENDS Msg_proofs

-----------------------------------------------------------------------------
(* The exchanges of module Rpc.                                            *)

\* Where an exchange stands, by the state of its handle.
Place(c) == IF ~InExchange(c) THEN "idle"
            ELSE IF Posted(c) THEN "posted"
            ELSE IF X(c).state = "IOWAIT" THEN "taken"
            ELSE IF X(c).state = "ABWAIT" THEN "aborting"
            ELSE "settled"

\* The handle it is on.
On(c) == IF InExchange(c) THEN R(c) ELSE Null

\* Nobody gives up a request that is still in the queue.
PostedWait == \A c \in Clients : Posted(c) => InExchange(c) /\ X(c).state = "IOWAIT"

\* The stage that Msg reads off the thread and its semaphore.
LEMMA StageIsPlace ==
  ASSUME Inv, PostedWait, NEW c \in Clients
  PROVE  Stage(c) = Place(c)
<1>1. CASE ~InExchange(c) \/ Posted(c)
  BY <1>1 DEF Stage, Place
<1>2. CASE InExchange(c) /\ ~Posted(c)
  <2>1. CallAt(pc[c], X(c), rep[c], intr[c], c)
    BY <1>2 DEF Inv, Protocol, CallsOK, Waiting
  <2>2. Queued(Asleep(c), c) /\ ~Queued(Zero, c)
    BY SemaValues
  <2>3. CASE pc[c] = "abwait"
    BY <1>2, <2>1, <2>2, <2>3 DEF Stage, Place, CallAt
  <2>4. CASE pc[c] = "iowait"
    BY <1>2, <2>1, <2>4 DEF Stage, Place, CallAt
  <2>5. CASE pc[c] = "kwait"
    BY <1>2, <2>1, <2>5 DEF Stage, Place, CallAt
  <2>6. CASE pc[c] = "copy"
    BY <1>2, <2>1, <2>6 DEF Stage, Place, CallAt
  <2> QED  BY <1>2, <2>3, <2>4, <2>5, <2>6 DEF InExchange
<1> QED  BY <1>1, <1>2

LEMMA StageIsPlaceNext ==
  ASSUME NEW c \in Clients
  PROVE  (Inv /\ PostedWait => Stage(c) = Place(c))'
<1>1. Inv /\ PostedWait => Stage(c) = Place(c)
  BY StageIsPlace
<1> QED  BY <1>1, PTL

\* A step that leaves the exchange of d where it is.
Same(d) ==
  /\ InExchange(d)' <=> InExchange(d)
  /\ InExchange(d) => R(d)' = R(d) /\ X(d)'.state = X(d).state
  /\ Posted(d)' <=> Posted(d)

\* One exchange moves, and takes its request along.
LEMMA OneMoves ==
  ASSUME Inv, Inv', PostedWait, NEW c \in Clients, \A d \in Clients : d # c => Same(d),
         Posted(c)' => InExchange(c)' /\ X(c)'.state = "IOWAIT"
  PROVE  /\ PostedWait'
         /\ \A d \in Clients : d # c => Stage(d)' = Stage(d) /\ On(d)' = On(d)
         /\ Stage(c) = Place(c) /\ Stage(c)' = Place(c)'
<1>1. PostedWait'
  BY DEF PostedWait, Same
<1>2. \A d \in Clients : Stage(d) = Place(d) /\ Stage(d)' = Place(d)'
  <2>1. \A d \in Clients : Stage(d) = Place(d)
    BY StageIsPlace
  <2>2. \A d \in Clients : Stage(d)' = Place(d)'
    BY <1>1, StageIsPlaceNext
  <2> QED  BY <2>1, <2>2
<1>3. \A d \in Clients : d # c => Place(d)' = Place(d) /\ On(d)' = On(d)
  BY DEF Place, On, Same
<1> QED  BY <1>1, <1>2, <1>3

\* None moves.
LEMMA NoneMoves ==
  ASSUME Inv, Inv', PostedWait, \A d \in Clients : Same(d)
  PROVE  PostedWait' /\ UNCHANGED Exchange!vars
<1>1. PostedWait'
  BY DEF PostedWait, Same
<1>2. ASSUME NEW c \in Clients
      PROVE  Stage(c)' = Stage(c) /\ On(c)' = On(c)
  <2>1. Posted(c)' => InExchange(c)' /\ X(c)'.state = "IOWAIT"
    BY <1>1 DEF PostedWait
  <2>2. Stage(c) = Place(c) /\ Stage(c)' = Place(c)'
    BY <2>1, OneMoves
  <2> QED  BY <2>2 DEF Place, On, Same
<1>3. /\ [c \in Clients |-> Stage(c)]' = [c \in Clients |-> Stage(c)]
      /\ [c \in Clients |-> On(c)]' = [c \in Clients |-> On(c)]
  BY <1>2
<1> QED  BY <1>1, <1>3 DEF Exchange!vars, On

\* The step of Rpc that a move is.
LEMMA MoveIs ==
  ASSUME NEW c \in Clients, NEW from, NEW to,
         \A d \in Clients : d # c => Stage(d)' = Stage(d) /\ On(d)' = On(d),
         Stage(c) = from, Stage(c)' = to
  PROVE  /\ Exchange!Step(c, from, to)
         /\ [d \in Clients |-> On(d)]' = [[d \in Clients |-> On(d)] EXCEPT ![c] = On(c)']
<1>1. [d \in Clients |-> Stage(d)]' = [[d \in Clients |-> Stage(d)] EXCEPT ![c] = to]
  OBVIOUS
<1>2. [d \in Clients |-> On(d)]' = [[d \in Clients |-> On(d)] EXCEPT ![c] = On(c)']
  OBVIOUS
<1> QED  BY <1>1, <1>2 DEF Exchange!Step

\* What the moves are called there: a request is posted, ...
LEMMA PostIs ==
  ASSUME NEW c \in Clients, NEW r \in Refs,
         \A d \in Clients : d # c => Stage(d)' = Stage(d) /\ On(d)' = On(d),
         Stage(c) = "idle", Stage(c)' = "posted", On(c)' = r, \A d \in Clients : On(d) # r
  PROVE  Exchange!Next
<1>1. /\ Exchange!Step(c, "idle", "posted")
      /\ [d \in Clients |-> On(d)]' = [[d \in Clients |-> On(d)] EXCEPT ![c] = r]
  BY MoveIs
<1>2. Exchange!Post(c, r)
  BY <1>1 DEF Exchange!Post, On
<1> QED  BY <1>2 DEF Exchange!Next

\* ... it is taken, answered, aborted or its abort acknowledged, ...
LEMMA PassIs ==
  ASSUME NEW c \in Clients, NEW from, NEW to,
         \A d \in Clients : d # c => Stage(d)' = Stage(d) /\ On(d)' = On(d),
         Stage(c) = from, Stage(c)' = to, On(c)' = On(c),
         \/ from = "posted" /\ to = "taken"
         \/ from = "taken" /\ to \in {"settled", "aborting"}
         \/ from = "aborting" /\ to = "settled"
  PROVE  Exchange!Next
<1>1. Exchange!Step(c, from, to)
  BY MoveIs
<1>2. [d \in Clients |-> On(d)]' = [d \in Clients |-> On(d)]
  OBVIOUS
<1>3. Exchange!Take(c) \/ Exchange!Answer(c) \/ Exchange!Abort(c) \/ Exchange!Acknowledge(c)
  BY <1>1, <1>2 DEF Exchange!Take, Exchange!Answer, Exchange!Abort, Exchange!Acknowledge, On
<1> QED  BY <1>3 DEF Exchange!Next

\* ... and the call returns.
LEMMA FinishIs ==
  ASSUME NEW c \in Clients,
         \A d \in Clients : d # c => Stage(d)' = Stage(d) /\ On(d)' = On(d),
         Stage(c) \in {"posted", "settled"}, Stage(c)' = "idle", On(c)' = Null
  PROVE  Exchange!Next
<1>1. /\ Exchange!Step(c, Stage(c), "idle")
      /\ [d \in Clients |-> On(d)]' = [[d \in Clients |-> On(d)] EXCEPT ![c] = Null]
  BY MoveIs
<1>2. Exchange!Finish(c)
  BY <1>1 DEF Exchange!Finish, On
<1> QED  BY <1>2 DEF Exchange!Next

-----------------------------------------------------------------------------
(* The moves of the clients.                                               *)

\* The queue stays, or has a message more.
LEMMA PostedSame ==
  ASSUME port'.queue = port.queue
  PROVE  \A d \in Clients : Posted(d)' <=> Posted(d)
BY DEF Posted

LEMMA PostedMore ==
  ASSUME Inv, NEW n \in Sendable, port' = Enqueue(port, n)
  PROVE  \A d \in Clients : Posted(d)' <=> Posted(d) \/ (n.from = d /\ n.op \in {"IO", "DUP"})
<1>1. port \in WidePort /\ port.queue \in Seq(Sendable)
  BY DEF Inv, Typed, KernelTyped, WidePort
<1>2. port'.queue = Append(port.queue, n)
  BY <1>1 DEF Enqueue, WidePort
<1>3. ToSet(port'.queue) = ToSet(port.queue) \cup {n}
  BY <1>1, <1>2, ToSetAppend
<1> QED  BY <1>3 DEF Posted

\* Nobody else has an exchange on a handle that c has, closes or has made,
\* or on one that is free.
Private(c, r) == \A d \in Clients : d # c /\ InExchange(d) => R(d) # r

LEMMA PrivateHandles ==
  ASSUME MsgAssumption, Inv, NEW c \in Clients
  PROVE  /\ Has(c) \/ pc[c] = "shut" => Private(c, R(c))
         /\ \A r \in Refs : ~ref[r].alloc => Private(c, r)
         /\ pc[c] = "kwait" => Private(c, my[c].new)
<1>1. \A d \in Clients : InExchange(d) => Using(d) /\ Has(d) /\ pc[d] # "opening" /\ pc[d] # "shut"
  BY WaitersHave DEF InExchange, Waiting, Using
<1>2. Has(c) => Private(c, R(c))
  BY <1>1, OneCall DEF Private
<1>3. pc[c] = "shut" => Private(c, R(c))
  BY <1>1, Zenon DEF Private, Inv, Protocol, TablesOK, AloneOK
<1>4. \A r \in Refs : ~ref[r].alloc => Private(c, r)
  BY <1>1, Zenon DEF Private, Inv, Protocol, TablesOK, UsersOK
<1>5. pc[c] = "kwait" => Private(c, my[c].new)
  BY <1>1, Zenon DEF Private, Inv, Protocol, TablesOK, NewOK
<1> QED  BY <1>2, <1>3, <1>4, <1>5

\* The exchanges of the other clients.
LEMMA OthersSame ==
  ASSUME Inv, NEW c \in Clients, OthersStay(c), \A d \in Clients : d # c => (Posted(d)' <=> Posted(d)),
         \A r \in Refs : ref'[r].state = ref[r].state \/ Private(c, r)
  PROVE  \A d \in Clients : d # c => Same(d)
<1> SUFFICES ASSUME NEW d \in Clients, d # c
             PROVE  Same(d)
  OBVIOUS
<1>1. pc'[d] = pc[d] /\ my'[d] = my[d]
  BY DEF OthersStay
<1>2. InExchange(d) => R(d) \in Refs /\ ref'[R(d)].state = ref[R(d)].state
  BY DEF Private, InExchange, Inv, Typed, LocalsSet
<1> QED  BY <1>1, <1>2 DEF Same, InExchange, R, X

\* The client itself is in no exchange, before and after.
LEMMA OutsideSame ==
  ASSUME NEW c \in Clients, ~InExchange(c), ~InExchange(c)', Posted(c)' <=> Posted(c)
  PROVE  Same(c)
BY DEF Same

\* Before a request is posted, and outside of exchanges.
LEMMA CallsRestNow ==
  ASSUME MsgAssumption, Inv, NEW c \in Clients, OthersStay(c),
         \/ \E k \in Slots, r \in Refs : MsgConnect(c, k, r)
         \/ \E k \in Slots, kd \in Kinds : SendFind(c, k, kd)
         \/ \E k, j \in Slots : CloneFind(c, k, j)
         \/ \E k, j \in Slots : ForkPort(c, k, j)
         \/ \E k \in Slots : MsgDisconnect(c, k)
         \/ MsgConnectDone(c) \/ FindBroken(c) \/ ShutClient(c) \/ ShutDone(c)
  PROVE  \A d \in Clients : Same(d)
<1>0. /\ pc \in [Threads -> ClientPcs \cup ServerPcs] /\ c \in Threads /\ ref \in [Refs -> WideRef]
      /\ LocalsSet
  BY DEF Inv, Typed, ThreadsTyped, KernelTyped, Threads
<1>1. ASSUME NEW k \in Slots, NEW r \in Refs, MsgConnect(c, k, r)
      PROVE  \A d \in Clients : Same(d)
  <2>1. PICK n : n = Message("CONNECT", c, r, Null, FALSE)
    OBVIOUS
  <2>2. n \in Sendable /\ n.op = "CONNECT"
    BY <2>1 DEF Message, Sendable, Messages, Ops
  <2>3. /\ pc[c] = "out" /\ pc' = [pc EXCEPT ![c] = "opening"] /\ port' = Enqueue(port, n) /\ ~ref[r].alloc
        /\ \E z : ref' = [ref EXCEPT ![r] = z]
    BY <1>1, <2>1, Zenon DEF MsgConnect, Goto
  <2>4. \A d \in Clients : Posted(d)' <=> Posted(d)
    BY <2>2, <2>3, PostedMore
  <2>5. Private(c, r)
    BY <2>3, PrivateHandles
  <2>6. \A p \in Refs : ref'[p].state = ref[p].state \/ Private(c, p)
    BY <1>0, <2>3, <2>5
  <2>7. ~InExchange(c) /\ ~InExchange(c)'
    BY <1>0, <2>3 DEF InExchange
  <2> QED  BY <2>4, <2>6, <2>7, OthersSame, OutsideSame
<1>2. ASSUME NEW k \in Slots, NEW kd \in Kinds, SendFind(c, k, kd)
      PROVE  \A d \in Clients : Same(d)
  <2>1. /\ pc[c] = "out" /\ pc' = [pc EXCEPT ![c] = "find"] /\ port' = port /\ slots[k] \in Refs
        /\ ref' = [ref EXCEPT ![slots[k]].sema = PSema(@, c)]
    BY <1>2, Zenon DEF SendFind, Goto, InService
  <2>2. \A p \in Refs : ref'[p].state = ref[p].state
    BY <1>0, <2>1 DEF WideRef
  <2>3. ~InExchange(c) /\ ~InExchange(c)'
    BY <1>0, <2>1 DEF InExchange
  <2> QED  BY <2>1, <2>2, <2>3, PostedSame, OthersSame, OutsideSame
<1>3. ASSUME NEW k \in Slots, NEW j \in Slots, CloneFind(c, k, j)
      PROVE  \A d \in Clients : Same(d)
  <2>1. /\ pc[c] = "out" /\ pc' = [pc EXCEPT ![c] = "cfind"] /\ port' = port /\ slots[k] \in Refs
        /\ ref' = [ref EXCEPT ![slots[k]].sema = PSema(@, c)]
    BY <1>3, Zenon DEF CloneFind, Goto, InService
  <2>2. \A p \in Refs : ref'[p].state = ref[p].state
    BY <1>0, <2>1 DEF WideRef
  <2>3. ~InExchange(c) /\ ~InExchange(c)'
    BY <1>0, <2>1 DEF InExchange
  <2> QED  BY <2>1, <2>2, <2>3, PostedSame, OthersSame, OutsideSame
<1>4. ASSUME NEW k \in Slots, NEW j \in Slots, ForkPort(c, k, j)
      PROVE  \A d \in Clients : Same(d)
  <2>1. /\ pc[c] = "out" /\ pc' = pc /\ port' = port /\ slots[k] \in Refs
        /\ ref' = [ref EXCEPT ![slots[k]].refs = @ + 1]
    BY <1>4, Zenon DEF ForkPort, InService
  <2>2. \A p \in Refs : ref'[p].state = ref[p].state
    BY <1>0, <2>1 DEF WideRef
  <2>3. ~InExchange(c) /\ ~InExchange(c)'
    BY <2>1 DEF InExchange
  <2> QED  BY <2>1, <2>2, <2>3, PostedSame, OthersSame, OutsideSame
<1>5. ASSUME NEW k \in Slots, MsgDisconnect(c, k)
      PROVE  \A d \in Clients : Same(d)
  <2>1. /\ pc[c] = "out" /\ (pc' = pc \/ pc' = [pc EXCEPT ![c] = "shut"]) /\ port' = port
        /\ slots[k] \in Refs /\ ref' = [ref EXCEPT ![slots[k]].refs = @ - 1]
    BY <1>5, Zenon DEF MsgDisconnect, Goto, InService
  <2>2. \A p \in Refs : ref'[p].state = ref[p].state
    BY <1>0, <2>1 DEF WideRef
  <2>3. ~InExchange(c) /\ ~InExchange(c)'
    BY <1>0, <2>1 DEF InExchange
  <2> QED  BY <2>1, <2>2, <2>3, PostedSame, OthersSame, OutsideSame
<1>6. CASE MsgConnectDone(c)
  <2>1. /\ pc[c] = "opening" /\ pc' = [pc EXCEPT ![c] = "out"] /\ port' = port
        /\ ref' = ref \/ ref' = [ref EXCEPT ![R(c)] = FreeRef]
    BY <1>6, Zenon DEF MsgConnectDone, Awake, Return, Goto
  <2>2. Private(c, R(c))
    BY <2>1, PrivateHandles DEF Has
  <2>3. \A p \in Refs : ref'[p].state = ref[p].state \/ Private(c, p)
    BY <1>0, <2>1, <2>2
  <2>4. ~InExchange(c) /\ ~InExchange(c)'
    BY <1>0, <2>1 DEF InExchange
  <2> QED  BY <2>1, <2>3, <2>4, PostedSame, OthersSame, OutsideSame
<1>7. CASE FindBroken(c)
  <2>1. /\ pc[c] \in {"find", "cfind"} /\ pc' = [pc EXCEPT ![c] = "out"] /\ port' = port /\ ref' = ref
    BY <1>7 DEF FindBroken, Broken, Return, Goto
  <2>2. ~InExchange(c) /\ ~InExchange(c)'
    BY <1>0, <2>1 DEF InExchange
  <2> QED  BY <2>1, <2>2, PostedSame, OthersSame, OutsideSame
<1>8. CASE ShutClient(c)
  <2>1. PICK n : n = Message("DISCONNECT", c, R(c), Null, FALSE)
    OBVIOUS
  <2>2. R(c) \in Refs /\ pc[c] = "shut"
    BY <1>0, <1>8 DEF ShutClient, LocalsSet
  <2>3. n \in Sendable /\ n.op = "DISCONNECT"
    BY <2>1, <2>2 DEF Message, Sendable, Messages, Ops
  <2>4. /\ port' = port \/ port' = Enqueue(port, n)
        /\ \E l \in {"closing", "out"} : pc' = [pc EXCEPT ![c] = l]
    BY <1>8, <2>1, Zenon DEF ShutClient, Goto, Return
  <2>5. \A p \in Refs : p # R(c) => ref'[p] = ref[p]
    BY <1>0, <1>8 DEF ShutClient
  <2>6. \A d \in Clients : Posted(d)' <=> Posted(d)
    BY <2>3, <2>4, PostedMore, PostedSame
  <2>7. \A p \in Refs : ref'[p].state = ref[p].state \/ Private(c, p)
    BY <2>2, <2>5, PrivateHandles
  <2>8. ~InExchange(c) /\ ~InExchange(c)'
    BY <1>0, <2>2, <2>4 DEF InExchange
  <2> QED  BY <2>6, <2>7, <2>8, OthersSame, OutsideSame
<1>9. CASE ShutDone(c)
  <2>1. /\ pc[c] = "closing" /\ pc' = [pc EXCEPT ![c] = "out"] /\ port' = port /\ ref' = ref
    BY <1>9 DEF ShutDone, Awake, Return, Goto
  <2>2. ~InExchange(c) /\ ~InExchange(c)'
    BY <1>0, <2>1 DEF InExchange
  <2> QED  BY <2>1, <2>2, PostedSame, OthersSame, OutsideSame
<1> QED  BY <1>1, <1>2, <1>3, <1>4, <1>5, <1>6, <1>7, <1>8, <1>9, Zenon

\* A request is posted on a handle its sender has for himself.
LEMMA PostMoves ==
  ASSUME MsgAssumption, Inv, Inv', PostedWait, NEW c \in Clients, OthersStay(c), NEW r \in Refs, Has(c),
         ~InExchange(c), InExchange(c)', R(c) = r, R(c)' = r, NEW n \in Sendable, n.from = c, n.op \in {"IO", "DUP"},
         port' = Enqueue(port, n), ref'[r].state = "IOWAIT",
         \A p \in Refs : p # r => ref'[p].state = ref[p].state \/ ~ref[p].alloc
  PROVE  PostedWait' /\ Exchange!Next
<1>1. Private(c, r) /\ \A p \in Refs : ~ref[p].alloc => Private(c, p)
  BY PrivateHandles
<1>2. \A d \in Clients : Posted(d)' <=> Posted(d) \/ d = c
  BY PostedMore
<1>3. \A d \in Clients : d # c => Same(d)
  <2>1. \A p \in Refs : ref'[p].state = ref[p].state \/ Private(c, p)
    BY <1>1
  <2>2. \A d \in Clients : d # c => (Posted(d)' <=> Posted(d))
    BY <1>2
  <2> QED  BY <2>1, <2>2, OthersSame
<1>4. X(c)'.state = "IOWAIT"
  BY DEF X, R
<1>5. /\ PostedWait'
      /\ \A d \in Clients : d # c => Stage(d)' = Stage(d) /\ On(d)' = On(d)
      /\ Stage(c) = Place(c) /\ Stage(c)' = Place(c)'
  BY <1>3, <1>4, OneMoves
<1>6. Stage(c) = "idle" /\ Stage(c)' = "posted" /\ On(c)' = r /\ \A d \in Clients : On(d) # r
  <2>1. Null # r
    BY DEF MsgAssumption
  <2> QED  BY <1>1, <1>2, <1>5, <2>1 DEF Place, On, Private
<1> QED  BY <1>5, <1>6, PostIs

\* An exchange ends: the call was answered, its abort acknowledged, or its
\* request taken out of the queue.
LEMMA ReturnMoves ==
  ASSUME MsgAssumption, Inv, Inv', PostedWait, NEW c \in Clients, OthersStay(c), InExchange(c), pc'[c] = "out",
         \A d \in Clients : d # c => (Posted(d)' <=> Posted(d)), ~Posted(c)',
         Posted(c) \/ X(c).state \in {"IODONE", "ABDONE"},
         \A p \in Refs : p # R(c) => ref'[p].state = ref[p].state \/ Private(c, p)
  PROVE  PostedWait' /\ Exchange!Next
<1>1. Private(c, R(c))
  BY WaitersHave, PrivateHandles DEF Has, Waiting
<1>2. \A d \in Clients : d # c => Same(d)
  <2>1. \A p \in Refs : ref'[p].state = ref[p].state \/ Private(c, p)
    BY <1>1
  <2> QED  BY <2>1, OthersSame
<1>3. /\ PostedWait'
      /\ \A d \in Clients : d # c => Stage(d)' = Stage(d) /\ On(d)' = On(d)
      /\ Stage(c) = Place(c) /\ Stage(c)' = Place(c)'
  BY <1>2, OneMoves
<1>4. Stage(c) \in {"posted", "settled"} /\ Stage(c)' = "idle" /\ On(c)' = Null
  BY <1>3 DEF Place, On, InExchange
<1> QED  BY <1>3, <1>4, FinishIs

\* msg_send() and dup_port() post.
LEMMA PostsMove ==
  ASSUME MsgAssumption, Inv, Inv', PostedWait, NEW c \in Clients, OthersStay(c),
         SendPost(c) \/ \E n \in Refs : ClonePost(c, n)
  PROVE  PostedWait' /\ Exchange!Next
<1>0. /\ pc \in [Threads -> ClientPcs \cup ServerPcs] /\ ref \in [Refs -> WideRef]
      /\ my \in [Clients -> Local] /\ c \in Threads
  BY DEF Inv, Typed, ThreadsTyped, KernelTyped, Threads
<1>1. Has(c) /\ pc[c] \in {"find", "cfind"} /\ ~InExchange(c)
  BY DEF SendPost, ClonePost, Awake, Has, Owns, X, R, InExchange
<1>2. PICK r \in Refs, x \in WideRef : r = R(c) /\ x = X(c) /\ x = ref[r] /\ x.port /\ x.alloc
  BY <1>1, InCall
<1>3. CASE SendPost(c)
  <2>1. PICK n \in Sendable : n = Message("IO", c, r, Null, my[c].kind = "write")
    BY SentTyped
  <2>2. n.from = c /\ n.op = "IO"
    BY <2>1 DEF Message
  <2>3. /\ port' = Enqueue(port, n) /\ pc' = [pc EXCEPT ![c] = "iowait"] /\ my' = my
        /\ ref' = [ref EXCEPT ![r].state = "IOWAIT", ![r].iowait = PSema(@, c)]
    BY <1>2, <1>3, <2>1 DEF SendPost, Goto
  <2>4. ref'[r].state = "IOWAIT" /\ \A p \in Refs : p # r => ref'[p].state = ref[p].state
    BY <1>0, <2>3 DEF WideRef
  <2>5. InExchange(c)' /\ R(c)' = r
    BY <1>0, <1>2, <2>3 DEF InExchange, R
  <2> QED  BY <1>1, <1>2, <2>2, <2>3, <2>4, <2>5, PostMoves
<1>4. ASSUME NEW p \in Refs, ClonePost(c, p)
      PROVE  PostedWait' /\ Exchange!Next
  <2>1. PICK n \in Sendable : n = DupMessage(c, p)
    BY <1>2, SentTyped DEF DupMessage
  <2>2. n.from = c /\ n.op = "DUP"
    BY <2>1 DEF DupMessage, Message
  <2>3. X(c).port
    BY <1>2
  <2>4. /\ port' = Enqueue(port, n) /\ pc' = [pc EXCEPT ![c] = "kwait"] /\ my' = [my EXCEPT ![c].new = p]
        /\ ref' = [ref EXCEPT ![p] = DupRef, ![r].state = "IOWAIT", ![r].iowait = PSema(@, c)]
        /\ ~ref[p].alloc
    BY <1>2, <1>4, <2>1, <2>3, ZenonT(60) DEF ClonePost, Goto
  <2>5. p # r
    BY <1>2, <2>4
  <2>6. ref'[r].state = "IOWAIT" /\ \A q \in Refs : q # r => ref'[q].state = ref[q].state \/ ~ref[q].alloc
    BY <1>0, <2>4, <2>5 DEF WideRef
  <2>7. InExchange(c)' /\ R(c)' = r
    BY <1>0, <1>2, <2>4 DEF InExchange, R, Local
  <2> QED  BY <1>1, <1>2, <2>2, <2>4, <2>6, <2>7, PostMoves
<1> QED  BY <1>3, <1>4

\* The ways out of msg_send() and clone() after the answer.
LEMMA DoneMoves ==
  ASSUME MsgAssumption, Inv, Inv', PostedWait, NEW c \in Clients, OthersStay(c),
         SendDone(c) \/ CopyDone(c) \/ MapFails(c) \/ AbortDone(c) \/ IntrDone(c) \/ CloneDone(c)
  PROVE  PostedWait' /\ Exchange!Next
<1>0. /\ pc \in [Threads -> ClientPcs \cup ServerPcs] /\ ref \in [Refs -> WideRef] /\ c \in Threads
  BY DEF Inv, Typed, ThreadsTyped, KernelTyped, Threads
<1>1. /\ pc[c] \in {"iowait", "copy", "abwait", "kwait"} /\ Has(c) /\ Waiting(c) /\ InExchange(c)
      /\ \/ pc[c] = "copy"
         \/ ~Queued(X(c).iowait, c) /\ ~intr[c]
         \/ pc[c] = "iowait" /\ X(c).state # "IOWAIT"
      /\ Return(c) /\ port' = port
  BY DEF SendDone, CopyDone, MapFails, AbortDone, IntrDone, CloneDone, Awake, Broken, Has, Owns, Waiting, InExchange
<1>2. PICK r \in Refs, x \in WideRef :
        /\ r = R(c) /\ x = X(c) /\ x = ref[r]
        /\ CallAt(pc[c], x, rep[c], intr[c], c)
  BY <1>1, InCall
<1>3. x.state \in {"IODONE", "ABDONE"}
  BY <1>1, <1>2, SemaValues DEF CallAt
<1>4. pc'[c] = "out"
  BY <1>0, <1>1 DEF Return, Goto
<1>5. ~Posted(c)
  BY <1>2, <1>3 DEF PostedWait
<1>6. \A d \in Clients : Posted(d)' <=> Posted(d)
  BY <1>1, PostedSame
<1>7. \A p \in Refs : p # r => ref'[p].state = ref[p].state \/ Private(c, p)
  <2>1. CASE CloneDone(c)
    <3>1. Private(c, my[c].new)
      BY <2>1, PrivateHandles DEF CloneDone, Awake
    <3>2. \A p \in Refs : p # r => ref'[p] = ref[p] \/ p = my[c].new
      BY <1>0, <1>2, <2>1 DEF CloneDone
    <3> QED  BY <3>1, <3>2
  <2>2. CASE SendDone(c) \/ CopyDone(c) \/ MapFails(c) \/ AbortDone(c) \/ IntrDone(c)
    <3>1. \E z : ref' = [ref EXCEPT ![r] = z]
      BY <1>2, <2>2, Zenon DEF SendDone, CopyDone, MapFails, AbortDone, IntrDone
    <3> QED  BY <1>0, <3>1
  <2> QED  BY <2>1, <2>2
<1> QED  BY <1>1, <1>2, <1>3, <1>4, <1>5, <1>6, <1>7, ReturnMoves

\* msg_send() takes its message back.
LEMMA WithdrawMoves ==
  ASSUME MsgAssumption, Inv, Inv', PostedWait, NEW c \in Clients, OthersStay(c), IntrWithdraw(c)
  PROVE  PostedWait' /\ Exchange!Next
<1>0. /\ pc \in [Threads -> ClientPcs \cup ServerPcs] /\ ref \in [Refs -> WideRef] /\ c \in Threads
      /\ port \in WidePort /\ port.queue \in Seq(Sendable) /\ MessagesOK /\ Spread(port.queue)
  BY MessagesTyped DEF Inv, Protocol, MessagesOK, Typed, ThreadsTyped, KernelTyped, Threads
<1>1. InQueue(c) /\ pc[c] = "iowait" /\ InExchange(c) /\ Return(c)
  BY DEF IntrWithdraw, Interrupted, Broken, InExchange
<1>2. PICK k \in 1..Len(port.queue) : k = PlaceOf(c) /\ Sent(c, port.queue[k])
  BY <1>1 DEF InQueue, PlaceOf
<1>3. PICK m : m = port.queue[k]
  OBVIOUS
<1>4. m \in ToSet(port.queue) /\ m.from = c /\ m.op = "IO"
  BY <1>2, <1>3 DEF ToSet, Sent
<1>5. \A n \in ToSet(port.queue) : n.op \in {"IO", "DUP"} => n.pr = R(n.from)
  BY <1>0 DEF MessagesOK, Known
<1>6. /\ port' = [port EXCEPT !.queue = RemoveAt(@, k), !.wait = AdjSema(@, -1)]
      /\ \E z : ref' = [ref EXCEPT ![R(c)] = z]
  BY <1>2, Zenon DEF IntrWithdraw
<1>7. port'.queue = RemoveAt(port.queue, k)
  BY <1>0, <1>6 DEF WidePort
<1>8. /\ ToSet(port'.queue) = ToSet(port.queue) \ {m}
      /\ \A n \in ToSet(port'.queue) : n.pr # m.pr
  BY <1>0, <1>3, <1>7, ToSetRemove
<1>9. \A d \in Clients : d # c => (Posted(d)' <=> Posted(d))
  BY <1>4, <1>8 DEF Posted
<1>10. Posted(c) /\ ~Posted(c)'
  BY <1>4, <1>5, <1>8 DEF Posted
<1>11. pc'[c] = "out"
  BY <1>0, <1>1 DEF Return, Goto
<1>12. \A p \in Refs : p # R(c) => ref'[p].state = ref[p].state
  BY <1>0, <1>6
<1> QED  BY <1>1, <1>9, <1>10, <1>11, <1>12, ReturnMoves

\* It asks for an abort instead.
LEMMA AbortMoves ==
  ASSUME MsgAssumption, Inv, Inv', PostedWait, NEW c \in Clients, OthersStay(c), IntrAbort(c)
  PROVE  PostedWait' /\ Exchange!Next
<1>0. /\ pc \in [Threads -> ClientPcs \cup ServerPcs] /\ ref \in [Refs -> WideRef] /\ c \in Threads
      /\ MessagesOK
  BY DEF Inv, Protocol, Typed, ThreadsTyped, KernelTyped, Threads
<1>1. pc[c] = "iowait" /\ InExchange(c) /\ Has(c) /\ Interrupted(c)
  BY DEF IntrAbort, Interrupted, Broken, InExchange, Has, Owns
<1>2. PICK r \in Refs : r = R(c) /\ ref[r].state = "IOWAIT"
  BY <1>1, InterruptedCall
<1>3. PICK n \in Sendable : n = Message("ABORT", c, r, Null, FALSE)
  BY SentTyped
<1>4. n.op = "ABORT"
  BY <1>3 DEF Message
<1>5. /\ port' = Enqueue(port, n) /\ pc' = [pc EXCEPT ![c] = "abwait"] /\ my' = my
      /\ ref' = [ref EXCEPT ![r].state = "ABWAIT", ![r].iowait = PSema(@, c)]
  BY <1>2, <1>3, Zenon DEF IntrAbort, Goto
<1>6. \A d \in Clients : Posted(d)' <=> Posted(d)
  BY <1>4, <1>5, PostedMore
<1>7. ~Posted(c)
  <2> SUFFICES ASSUME NEW m \in ToSet(port.queue), m.from = c, m.op \in {"IO", "DUP"}
               PROVE  FALSE
    BY DEF Posted
  <2>1. m.op = "IO"
    BY <1>0, <1>1 DEF MessagesOK, Known, WaitsFor
  <2>2. PICK i \in 1..Len(port.queue) : m = port.queue[i]
    BY DEF ToSet
  <2> QED  BY <2>1, <2>2 DEF IntrAbort, InQueue, Sent
<1>8. /\ ref'[r].state = "ABWAIT" /\ \A p \in Refs : p # r => ref'[p].state = ref[p].state
      /\ pc'[c] = "abwait" /\ R(c)' = r
  BY <1>0, <1>2, <1>5 DEF WideRef, R
<1>9. Private(c, r)
  BY <1>1, <1>2, PrivateHandles
<1>10. \A d \in Clients : d # c => Same(d)
  BY <1>6, <1>8, <1>9, OthersSame
<1>11. /\ PostedWait'
       /\ \A d \in Clients : d # c => Stage(d)' = Stage(d) /\ On(d)' = On(d)
       /\ Stage(c) = Place(c) /\ Stage(c)' = Place(c)'
  BY <1>6, <1>7, <1>10, OneMoves
<1>12. Stage(c) = "taken" /\ Stage(c)' = "aborting" /\ On(c)' = On(c)
  BY <1>1, <1>2, <1>6, <1>7, <1>8, <1>11 DEF Place, On, InExchange, X, R
<1> QED  BY <1>11, <1>12, PassIs

\* Every step of a client is a step of Rpc, or none.
LEMMA ClientMoves ==
  ASSUME MsgAssumption, Orderly, Inv, Inv', PostedWait, NEW c \in Clients, ClientCalls(c) \/ ClientRuns(c)
  PROVE  PostedWait' /\ [Exchange!Next]_(Exchange!vars)
<1>1. OthersStay(c)
  BY ClientAlone DEF Inv
<1>2. \/ \E k \in Slots, r \in Refs : MsgConnect(c, k, r)
      \/ \E k \in Slots, kd \in Kinds : SendFind(c, k, kd)
      \/ \E k, j \in Slots : CloneFind(c, k, j)
      \/ \E k, j \in Slots : ForkPort(c, k, j)
      \/ \E k \in Slots : MsgDisconnect(c, k)
      \/ MsgConnectDone(c) \/ FindBroken(c) \/ ShutClient(c) \/ ShutDone(c)
      \/ SendPost(c) \/ \E n \in Refs : ClonePost(c, n)
      \/ SendDone(c) \/ CopyDone(c) \/ MapFails(c) \/ AbortDone(c) \/ IntrDone(c) \/ CloneDone(c)
      \/ IntrGone(c) \/ IntrWithdraw(c) \/ IntrAbort(c) \/ SendMap(c)
  BY Zenon DEF ClientCalls, ClientRuns
<1>3. CASE SendMap(c)
  <2>1. /\ pc[c] = "iowait" /\ pc' = [pc EXCEPT ![c] = "copy"] /\ my' = my /\ ref' = ref /\ port' = port
    BY <1>3 DEF SendMap, Awake, Goto
  <2>2. pc \in [Threads -> ClientPcs \cup ServerPcs] /\ c \in Threads
    BY DEF Inv, Typed, ThreadsTyped, Threads
  <2>3. \A d \in Clients : Posted(d)' <=> Posted(d)
    BY <2>1, PostedSame
  <2>4. \A d \in Clients : d # c => Same(d)
    BY <1>1, <2>1, <2>3, OthersSame
  <2>5. Same(c)
    BY <2>1, <2>2, <2>3 DEF Same, InExchange, R, X
  <2> QED  BY <2>4, <2>5, NoneMoves
<1>4. CASE IntrGone(c)
  BY <1>4, IntrGoneOK
<1>5. CASE SendPost(c) \/ \E n \in Refs : ClonePost(c, n)
  BY <1>1, <1>5, PostsMove
<1>6. CASE SendDone(c) \/ CopyDone(c) \/ MapFails(c) \/ AbortDone(c) \/ IntrDone(c) \/ CloneDone(c)
  BY <1>1, <1>6, DoneMoves
<1>7. CASE IntrWithdraw(c)
  BY <1>1, <1>7, WithdrawMoves
<1>8. CASE IntrAbort(c)
  BY <1>1, <1>8, AbortMoves
<1>9. CASE \/ \E k \in Slots, r \in Refs : MsgConnect(c, k, r)
           \/ \E k \in Slots, kd \in Kinds : SendFind(c, k, kd)
           \/ \E k, j \in Slots : CloneFind(c, k, j)
           \/ \E k, j \in Slots : ForkPort(c, k, j)
           \/ \E k \in Slots : MsgDisconnect(c, k)
           \/ MsgConnectDone(c) \/ FindBroken(c) \/ ShutClient(c) \/ ShutDone(c)
  <2>1. \A d \in Clients : Same(d)
    BY <1>1, <1>9, CallsRestNow
  <2> QED  BY <2>1, NoneMoves
<1> QED  BY <1>2, <1>3, <1>4, <1>5, <1>6, <1>7, <1>8, <1>9

-----------------------------------------------------------------------------
(* The moves of the servers.                                               *)

\* An exchange that a server's step does not touch.
LEMMA ServedSame ==
  ASSUME Inv, NEW s \in Servers, ClientsStay(s), NEW d \in Clients, Posted(d)' <=> Posted(d),
         InExchange(d) => ref'[R(d)].state = ref[R(d)].state
  PROVE  Same(d)
<1>1. pc'[d] = pc[d] /\ my'[d].pr = my[d].pr
  BY DEF ClientsStay
<1> QED  BY <1>1 DEF Same, InExchange, R, X

\* The states a handle has during an exchange.
LEMMA ExchangeStates ==
  ASSUME Inv, NEW d \in Clients, InExchange(d)
  PROVE  R(d) \in Refs /\ ref[R(d)].state \in {"IOWAIT", "IODONE", "ABWAIT", "ABDONE"}
<1>1. CallAt(pc[d], X(d), rep[d], intr[d], d) /\ R(d) \in Refs
  BY DEF Inv, Protocol, CallsOK, Waiting, Typed, LocalsSet, InExchange
<1> QED  BY <1>1 DEF CallAt, InExchange, X, R

\* The server works for himself, opens a handle or closes one.
LEMMA ServerQuietMoves ==
  ASSUME Inv, Inv', PostedWait, NEW s \in Servers, ClientsStay(s), port'.queue = port.queue,
         \A p \in Refs : ref'[p].state = ref[p].state \/ ref[p].state \in {"OPENING", "CLOSING"}
  PROVE  PostedWait' /\ [Exchange!Next]_(Exchange!vars)
<1>1. \A d \in Clients : Posted(d)' <=> Posted(d)
  BY PostedSame
<1>2. \A d \in Clients : InExchange(d) => ref'[R(d)].state = ref[R(d)].state
  BY ExchangeStates
<1>3. \A d \in Clients : Same(d)
  BY <1>1, <1>2, ServedSame
<1> QED  BY <1>3, NoneMoves

\* The answer to a request, or to an abort.
LEMMA AnswerMoves ==
  ASSUME MsgAssumption, Inv, Inv', PostedWait, NEW s \in Servers, ClientsStay(s), port'.queue = port.queue,
         NEW m \in held, ref[m.pr].state \in {"IOWAIT", "ABWAIT"}, ref'[m.pr].state \in {"IODONE", "ABDONE"},
         \A p \in Refs : p # m.pr => ref'[p].state = ref[p].state
  PROVE  PostedWait' /\ Exchange!Next
<1>1. PICK c, r : c = m.from /\ r = m.pr
  OBVIOUS
<1>2. /\ c \in Clients /\ r \in Refs /\ R(c) = r /\ Waiting(c)
      /\ CallAt(pc[c], ref[r], rep[c], intr[c], c) /\ ref[r].state \in StatesOf(m.op)
  BY <1>1, HeldFrom
<1>3. InExchange(c)
  BY <1>1, <1>2 DEF Waiting, CallAt
<1>4. \A d \in Clients : Posted(d)' <=> Posted(d)
  BY PostedSame
<1>5. \A d \in Clients : d # c => Same(d)
  <2> SUFFICES ASSUME NEW d \in Clients, d # c
               PROVE  Same(d)
    OBVIOUS
  <2>1. Has(c)
    BY <1>2, WaitersHave
  <2>2. InExchange(d) => Has(d)
    BY WaitersHave DEF Waiting
  <2>3. InExchange(d) => R(d) # r
    BY <1>2, <2>1, <2>2, OneCall
  <2>4. InExchange(d) => ref'[R(d)].state = ref[R(d)].state
    BY <1>1, <2>3, ExchangeStates
  <2> QED  BY <1>4, <2>4, ServedSame
<1>6. ~Posted(c)
  <2> SUFFICES ASSUME NEW n \in ToSet(port.queue), n.from = c, n.op \in {"IO", "DUP"}
               PROVE  FALSE
    BY DEF Posted
  <2>1. MessagesOK
    BY DEF Inv, Protocol
  <2>2. n.pr = r
    BY <1>2, <2>1 DEF MessagesOK, Known
  <2>3. Aborts(n, m)
    BY <1>1, <2>1, <2>2 DEF MessagesOK
  <2> QED  BY <2>3 DEF Aborts
<1>7. /\ PostedWait'
      /\ \A d \in Clients : d # c => Stage(d)' = Stage(d) /\ On(d)' = On(d)
      /\ Stage(c) = Place(c) /\ Stage(c)' = Place(c)'
  BY <1>2, <1>4, <1>5, <1>6, OneMoves
<1>8. InExchange(c)' /\ R(c)' = R(c)
  BY <1>2, <1>3 DEF ClientsStay, InExchange, R
<1>9. On(c)' = On(c) /\ Stage(c) \in {"taken", "aborting"} /\ Stage(c)' = "settled"
  BY <1>1, <1>2, <1>3, <1>4, <1>6, <1>7, <1>8 DEF Place, On, X, R
<1> QED  BY <1>2, <1>7, <1>9, PassIs

\* What is behind the first of a queue.
LEMMA TailRest ==
  ASSUME NEW T, NEW q \in Seq(T), q # << >>
  PROVE  \A x \in ToSet(q) : x = Head(q) \/ x \in ToSet(Tail(q))
<1> SUFFICES ASSUME NEW x \in ToSet(q), x # Head(q)
             PROVE  x \in ToSet(Tail(q))
  OBVIOUS
<1>1. PICK i \in 1..Len(q) : x = q[i]
  BY DEF ToSet
<1>2. PICK p : p = Tail(q)
  OBVIOUS
<1>3. i - 1 \in 1..Len(p) /\ p[i - 1] = x
  BY <1>1, <1>2
<1>4. i - 1 \in DOMAIN p
  BY <1>2, <1>3
<1> QED  BY <1>2, <1>3, <1>4 DEF ToSet

\* msg_receive() takes a message.
LEMMA TakeMoves ==
  ASSUME MsgAssumption, Inv, Inv', PostedWait, NEW s \in Servers, ClientsStay(s), RecvTake(s)
  PROVE  PostedWait' /\ [Exchange!Next]_(Exchange!vars)
<1>0. /\ ref \in [Refs -> WideRef] /\ port \in WidePort /\ port.queue \in Seq(Sendable) /\ MessagesOK
  BY MessagesTyped DEF Inv, Protocol, Typed, KernelTyped
<1>1. PICK q, t, m : q = port.queue /\ t = Tail(q) /\ m = Head(q)
  OBVIOUS
<1>2. q # << >> /\ port.queue \in Seq(Sendable) /\ Spread(q)
  BY <1>0, <1>1 DEF RecvTake, MessagesOK
<1>3. /\ m \in ToSet(q) /\ t \in Seq(Sendable)
      /\ \A n \in ToSet(t) : n \in ToSet(q) /\ n.pr # m.pr
      /\ \A n \in ToSet(q) : n = m \/ n \in ToSet(t)
  BY <1>0, <1>1, <1>2, TailSpread, TailRest
<1>4. m \in Sendable /\ m.from \in Clients /\ m.op \in Ops /\ m.pr \in Refs
  BY <1>1, <1>3, MessagesTyped DEF Inv, Sendable, Messages
<1>5. ref' = [ref EXCEPT ![m.pr].msg = m] /\ port'.queue = t
  <2>1. /\ ref' = [ref EXCEPT ![m.pr].msg = m]
        /\ port' = CASE m.op = "CONNECT"    -> RefPort([port EXCEPT !.queue = t], m.pr)
                     [] m.op = "DISCONNECT" -> DerefPort([port EXCEPT !.queue = t], m.pr)
                     [] OTHER               -> [port EXCEPT !.queue = t]
    BY <1>1, Zenon DEF RecvTake
  <2>2. PICK p : p = [port EXCEPT !.queue = t]
    OBVIOUS
  <2>3. p.queue = t /\ RefPort(p, m.pr).queue = t /\ DerefPort(p, m.pr).queue = t
    BY <1>0, <1>3, <2>2 DEF RefPort, DerefPort, WidePort
  <2> QED  BY <2>1, <2>2, <2>3
<1>6. \A p \in Refs : ref'[p].state = ref[p].state
  BY <1>0, <1>5 DEF WideRef
<1>7. \A d \in Clients : Posted(d)' <=> Posted(d) /\ ~(d = m.from /\ m.op \in {"IO", "DUP"})
  <2> SUFFICES ASSUME NEW d \in Clients
               PROVE  Posted(d)' <=> Posted(d) /\ ~(d = m.from /\ m.op \in {"IO", "DUP"})
    OBVIOUS
  <2>1. \A n \in ToSet(q) : n.op \in {"IO", "DUP"} => n.pr = R(n.from)
    BY <1>0, <1>1 DEF MessagesOK, Known
  <2>2. CASE d = m.from /\ m.op \in {"IO", "DUP"}
    BY <1>3, <1>5, <2>1, <2>2 DEF Posted
  <2>3. CASE ~(d = m.from /\ m.op \in {"IO", "DUP"})
    BY <1>1, <1>3, <1>5, <2>3 DEF Posted
  <2> QED  BY <2>2, <2>3
<1>8. CASE m.op \notin {"IO", "DUP"}
  <2>1. \A d \in Clients : Same(d)
    BY <1>6, <1>7, <1>8, ServedSame, ExchangeStates
  <2> QED  BY <2>1, NoneMoves
<1>9. CASE m.op \in {"IO", "DUP"}
  <2>1. PICK c \in Clients : c = m.from
    BY <1>4
  <2>2. \A d \in Clients : d # c => Same(d)
    BY <1>6, <1>7, <2>1, ServedSame, ExchangeStates
  <2>3. Posted(c) /\ ~Posted(c)'
    BY <1>1, <1>3, <1>7, <1>9, <2>1 DEF Posted
  <2>4. /\ PostedWait'
        /\ \A d \in Clients : d # c => Stage(d)' = Stage(d) /\ On(d)' = On(d)
        /\ Stage(c) = Place(c) /\ Stage(c)' = Place(c)'
    BY <2>2, <2>3, OneMoves
  <2>5. InExchange(c) /\ X(c).state = "IOWAIT"
    BY <2>3 DEF PostedWait
  <2>6. InExchange(c)' /\ R(c)' = R(c) /\ X(c)'.state = "IOWAIT"
    BY <1>6, <2>5, ExchangeStates DEF ClientsStay, InExchange, R, X
  <2>7. Stage(c) = "posted" /\ Stage(c)' = "taken" /\ On(c)' = On(c)
    BY <2>3, <2>4, <2>5, <2>6 DEF Place, On
  <2>8. Exchange!Next
    BY <2>4, <2>7, PassIs
  <2> QED  BY <2>4, <2>8
<1> QED  BY <1>8, <1>9

\* The steps of a server that answer nobody and take no message.
LEMMA QuietSteps ==
  ASSUME MsgAssumption, Inv, NEW s \in Servers,
         \/ RecvFind(s) \/ RecvWait(s) \/ RecvBroken(s) \/ RecvNothing(s) \/ RecvReturn(s)
         \/ ReplyRuns(s) \/ DupWake(s) \/ DupHash(s)
  PROVE  /\ port'.queue = port.queue
         /\ \A p \in Refs : ref'[p].state = ref[p].state \/ ref[p].state \in {"OPENING", "CLOSING"}
<1>0. ref \in [Refs -> WideRef] /\ port \in WidePort /\ MessagesOK
  BY DEF Inv, Protocol, Typed, KernelTyped
<1>1. CASE RecvFind(s) \/ RecvWait(s) \/ RecvBroken(s) \/ RecvNothing(s) \/ ReplyRuns(s) \/ DupHash(s)
  <2>1. /\ ref' = ref
        /\ \/ port' = port
           \/ \E w : port' = [port EXCEPT !.sema = w]
           \/ \E w : port' = [port EXCEPT !.wait = w]
    BY <1>1 DEF RecvFind, RecvWait, RecvBroken, RecvNothing, ReplyRuns, DupHash
  <2> QED  BY <1>0, <2>1 DEF WidePort
<1>2. CASE DupWake(s)
  <2>1. ref' = [ref EXCEPT ![got[s].pr].iowait = VSema(@)] /\ port' = port
    BY <1>2 DEF DupWake
  <2> QED  BY <1>0, <2>1 DEF WideRef
<1>3. CASE RecvReturn(s)
  <2>1. PICK m : m = got[s]
    OBVIOUS
  <2>2. m \in InHands
    BY <1>3, <2>1 DEF RecvReturn, InHands
  <2>3. m \in Sendable /\ m.pr \in Refs /\ m.op \in Ops /\ Known(m)
    BY <1>0, <2>2, MessagesTyped DEF Inv, AllMsgs, MessagesOK
  <2>4. ref' = ref \/ (m.op = "DISCONNECT" /\ ref' = [ref EXCEPT ![m.pr] = FreeRef])
    BY <2>1, <2>3, <1>3, ZenonT(60) DEF RecvReturn
  <2>5. m.op = "DISCONNECT" => ref[m.pr].state = "CLOSING"
    BY <2>3 DEF Known, StatesOf
  <2>6. port'.queue = port.queue
    BY <1>0, <1>3 DEF RecvReturn, WidePort
  <2> QED  BY <1>0, <2>4, <2>5, <2>6
<1> QED  BY <1>1, <1>2, <1>3

\* A server's answer is one to a waiting sender, or none of Rpc's.
LEMMA AnswerSteps ==
  ASSUME MsgAssumption, Inv, NEW s \in Servers, NEW m \in held, ServerAnswers(s, m)
  PROVE  /\ port'.queue = port.queue
         /\ \/ \A p \in Refs : ref'[p].state = ref[p].state \/ ref[p].state \in {"OPENING", "CLOSING"}
            \/ /\ ref[m.pr].state \in {"IOWAIT", "ABWAIT"} /\ ref'[m.pr].state \in {"IODONE", "ABDONE"}
               /\ \A p \in Refs : p # m.pr => ref'[p].state = ref[p].state
<1>0. ref \in [Refs -> WideRef] /\ port \in WidePort /\ m.pr \in Refs
  BY HeldFrom DEF Inv, Typed, KernelTyped
<1>1. CASE MsgAccept(s, m)
  <2>1. /\ port' = port
        /\ \/ ref' = ref
           \/ /\ ref[m.pr].state = "OPENING"
              /\ ref' = [ref EXCEPT ![m.pr].state = "IODONE", ![m.pr].iowait = VSema(@)]
    BY <1>1, Zenon DEF MsgAccept
  <2> QED  BY <1>0, <2>1 DEF WideRef
<1>2. CASE MsgErr(s, m)
  <2>1. /\ port' = port \/ port' = DerefPort(port, m.pr)
        /\ \/ ref' = ref
           \/ /\ ref[m.pr].state \in {"IOWAIT", "OPENING"}
              /\ ref' = [ref EXCEPT ![m.pr].state = IF @ = "OPENING" THEN "ABDONE" ELSE "IODONE",
                                    ![m.pr].iowait = VSema(@)]
    BY <1>2, ZenonT(60) DEF MsgErr
  <2>2. port'.queue = port.queue
    BY <1>0, <2>1 DEF DerefPort, WidePort
  <2> QED  BY <1>0, <2>1, <2>2 DEF WideRef
<1>3. ASSUME NEW a \in Answers, ReplyDone(s, m, a)
      PROVE  /\ port'.queue = port.queue
             /\ ref[m.pr].state = "IOWAIT" /\ ref'[m.pr].state = "IODONE"
             /\ \A p \in Refs : p # m.pr => ref'[p].state = ref[p].state
  <2>1. /\ port' = port /\ ref[m.pr].state = "IOWAIT"
        /\ \E w, v : ref' = [ref EXCEPT ![m.pr].msg = Null, ![m.pr].state = "IODONE",
                                       ![m.pr].iowait = w, ![m.pr].svwait = v]
    BY <1>3 DEF ReplyDone, Wanted
  <2> QED  BY <1>0, <2>1 DEF WideRef
<1>4. ASSUME NEW a \in Answers, ReplyDup(s, m, a)
      PROVE  /\ port'.queue = port.queue
             /\ ref[m.pr].state = "IOWAIT" /\ ref'[m.pr].state = "IODONE"
             /\ \A p \in Refs : p # m.pr => ref'[p].state = ref[p].state
  <2>1. /\ \E n : port' = RefPort(port, n)
        /\ ref[m.pr].state = "IOWAIT"
        /\ ref' = [ref EXCEPT ![m.pr].state = "IODONE"]
    BY <1>4 DEF ReplyDup, Wanted
  <2>2. port'.queue = port.queue
    BY <1>0, <2>1 DEF RefPort, WidePort
  <2> QED  BY <1>0, <2>1, <2>2 DEF WideRef
<1>5. CASE ReplyAbort(s, m)
  <2>1. /\ port' = port /\ ref[m.pr].state = "ABWAIT"
        /\ \/ ref' = ref
           \/ ref' = [ref EXCEPT ![m.pr].state = "ABDONE", ![m.pr].iowait = VSema(@)]
    BY <1>5, Zenon DEF ReplyAbort
  <2> QED  BY <1>0, <2>1 DEF WideRef
<1>6. CASE ReplyRefused(s, m)
  BY <1>6 DEF ReplyRefused
<1>7. \/ MsgAccept(s, m) \/ MsgErr(s, m) \/ ReplyAbort(s, m) \/ ReplyRefused(s, m)
      \/ \E a \in Answers : ReplyDone(s, m, a)
      \/ \E a \in Answers : ReplyDup(s, m, a)
  BY Zenon DEF ServerAnswers
<1> QED  BY <1>1, <1>2, <1>3, <1>4, <1>5, <1>6, <1>7

\* Every step of a server is a step of Rpc, or none.
LEMMA ServerMoves ==
  ASSUME MsgAssumption, Orderly, Inv, Inv', PostedWait, NEW s \in Servers,
         RecvFind(s) \/ ServerRuns(s) \/ ClosePort(s) \/ \E m \in held : ServerAnswers(s, m)
  PROVE  PostedWait' /\ [Exchange!Next]_(Exchange!vars)
<1>1. /\ ClientsStay(s)
      /\ \/ RecvFind(s) \/ RecvWait(s) \/ RecvBroken(s) \/ RecvTake(s) \/ RecvNothing(s) \/ RecvReturn(s)
         \/ ReplyRuns(s) \/ DupWake(s) \/ DupHash(s)
         \/ \E m \in held : ServerAnswers(s, m)
  BY ServerOrderly
<1>2. CASE \/ RecvFind(s) \/ RecvWait(s) \/ RecvBroken(s) \/ RecvNothing(s) \/ RecvReturn(s)
           \/ ReplyRuns(s) \/ DupWake(s) \/ DupHash(s)
  BY <1>1, <1>2, QuietSteps, ServerQuietMoves
<1>3. CASE RecvTake(s)
  BY <1>1, <1>3, TakeMoves
<1>4. ASSUME NEW m \in held, ServerAnswers(s, m)
      PROVE  PostedWait' /\ [Exchange!Next]_(Exchange!vars)
  BY <1>1, <1>4, AnswerSteps, AnswerMoves, ServerQuietMoves
<1> QED  BY <1>1, <1>2, <1>3, <1>4

\* An event takes a sleeper off his semaphore; his call goes on.
LEMMA SignalMoves ==
  ASSUME MsgAssumption, Inv, Inv', PostedWait, NEW t \in Threads, Signal(t)
  PROVE  PostedWait' /\ [Exchange!Next]_(Exchange!vars)
<1>0. ref \in [Refs -> WideRef] /\ port \in WidePort
  BY DEF Inv, Typed, KernelTyped
<1>1. /\ pc' = pc /\ my' = my
      /\ \/ ref' = ref
         \/ \E r, w : ref' = [ref EXCEPT ![r].sema = w]
         \/ \E r, w : ref' = [ref EXCEPT ![r].iowait = w]
      /\ \/ port' = port
         \/ \E w : port' = [port EXCEPT !.sema = w]
         \/ \E w : port' = [port EXCEPT !.wait = w]
  BY DEF Signal, clientVars
<1>2. port'.queue = port.queue /\ \A p \in Refs : ref'[p].state = ref[p].state
  <2>1. port'.queue = port.queue
    BY <1>0, <1>1 DEF WidePort
  <2>2. ASSUME NEW p \in Refs
        PROVE  ref'[p].state = ref[p].state
    <3>1. CASE ref' = ref
      BY <3>1
    <3>2. CASE \E r, w : ref' = [ref EXCEPT ![r].sema = w]
      BY <1>0, <3>2 DEF WideRef
    <3>3. CASE \E r, w : ref' = [ref EXCEPT ![r].iowait = w]
      BY <1>0, <3>3 DEF WideRef
    <3> QED  BY <1>1, <3>1, <3>2, <3>3
  <2> QED  BY <2>1, <2>2
<1>3. \A d \in Clients : Posted(d)' <=> Posted(d)
  BY <1>2, PostedSame
<1>4. \A d \in Clients : Same(d)
  BY <1>1, <1>2, <1>3, ExchangeStates DEF Same, InExchange, R, X
<1> QED  BY <1>4, NoneMoves

\* Every step of Msg is a step of Rpc, or none, ...
LEMMA RpcMoves ==
  ASSUME MsgAssumption, Orderly, Inv, Inv', PostedWait, [Next]_vars
  PROVE  PostedWait' /\ [Exchange!Next]_(Exchange!vars)
<1>1. CASE UNCHANGED vars
  <2>1. pc' = pc /\ my' = my /\ ref' = ref /\ port' = port
    BY <1>1 DEF vars
  <2>2. \A d \in Clients : Same(d)
    BY <2>1 DEF Same, InExchange, R, X, Posted
  <2> QED  BY <2>2, NoneMoves
<1>2. CASE Next
  <2>1. \/ \E c \in Clients : ClientCalls(c) \/ ClientRuns(c)
        \/ \E s \in Servers : RecvFind(s) \/ ServerRuns(s) \/ ClosePort(s) \/ \E m \in held : ServerAnswers(s, m)
        \/ \E t \in Threads : Signal(t)
    BY <1>2, Zenon DEF Next
  <2> QED  BY <2>1, ClientMoves, ServerMoves, SignalMoves
<1> QED  BY <1>1, <1>2

\* ... and no exchange is under way at first.
LEMMA RpcInit ==
  ASSUME MsgAssumption, Init
  PROVE  PostedWait /\ Exchange!Init
<1>1. \A c \in Clients : ~InExchange(c) /\ ~Posted(c)
  <2>1. ToSet(port.queue) = {}
    BY DEF Init, ToSet
  <2>2. \A c \in Clients : pc[c] = "out"
    BY DEF Init, Threads
  <2> QED  BY <2>1, <2>2 DEF InExchange, Posted
<1>2. \A c \in Clients : Stage(c) = "idle" /\ On(c) = Null
  BY <1>1 DEF Stage, On
<1>3. /\ [c \in Clients |-> Stage(c)] = [c \in Clients |-> "idle"]
      /\ [c \in Clients |-> On(c)] = [c \in Clients |-> Null]
  BY <1>2
<1> QED  BY <1>1, <1>3 DEF PostedWait, Exchange!Init, On

\* What msg_send(), the server's calls and the events make of an exchange is
\* what module Rpc promises: on a handle one at a time, each request taken at
\* most once and answered at most once, and no call returns while a server
\* works on it.
THEOREM CallsFollowRpc ==
  ASSUME Orderly
  PROVE  Spec => ImplementsRpc
<1>1. Init => PostedWait /\ Exchange!Init
  BY MsgAssumption, RpcInit
<1>2. Inv /\ Inv' /\ PostedWait /\ [Next]_vars => PostedWait' /\ [Exchange!Next]_(Exchange!vars)
  BY MsgAssumption, RpcMoves
<1>3. Spec => Exchange!Init /\ [][Exchange!Next]_(Exchange!vars)
  BY <1>1, <1>2, Invariance, PTL DEF Spec
<1> QED  BY <1>3 DEF ImplementsRpc, Exchange!Spec

-----------------------------------------------------------------------------
(* What the port's list and the server's hash know of the handles.         *)

\* Handle r is on the list of the port and in the hash, or on its way there.
Hashed(r) ==
  r \in port.refs /\ (r \in hash \/ \E s \in Servers : pc[s] = "duphash" /\ got[s].new = r)

\* The new handle of c's clone has been granted, and c is about to be told.
Granted(c) ==
  /\ my[c].new \in port.refs
  /\ \E s \in Servers : pc[s] = "dupwake" /\ got[s].pr = R(c) /\ got[s].new = my[c].new

ListsOK ==
  /\ \A k \in Slots : InService(k) => Hashed(slots[k])
  /\ \A c \in Clients : pc[c] = "kwait" /\ rep[c] = "ok" => Hashed(my[c].new) \/ Granted(c)
  /\ \A c \in Clients : pc[c] = "opening" /\ X(c).state = "IODONE" => R(c) \in port.refs \cap hash
  /\ \A m \in InHands \cup held : m.op = "CONNECT" => m.pr \in port.refs
  /\ \A m \in held : m.op = "CONNECT" => m.pr \in hash

\* Nobody but c is opening handle p.
Apart(c, p) == \A d \in Clients : d # c /\ pc[d] = "opening" => R(d) # p

\* What a client's step may do to all this: his slots come to hold handles
\* that are known, and only his own handle opens.
Lists(c) ==
  /\ port'.refs = port.refs
  /\ \A k \in Slots : slots'[k] = slots[k] \/ slots'[k] \notin Refs \/ Hashed(slots'[k])
  /\ \A p \in Refs : ref'[p].state = ref[p].state \/ Apart(c, p)
  /\ pc'[c] = "kwait" => rep'[c] # "ok"
  /\ pc'[c] = "opening" => ref'[my'[c].pr].state # "IODONE"

LEMMA ClientLists ==
  ASSUME Inv, ListsOK, NEW c \in Clients, OthersStay(c), Lists(c)
  PROVE  ListsOK'
<1>1. /\ got' = got /\ hash' = hash /\ held' = held /\ port'.refs = port.refs
      /\ \A s \in Servers : pc'[s] = pc[s]
      /\ \A d \in Clients : d # c => pc'[d] = pc[d] /\ my'[d] = my[d] /\ rep'[d] = rep[d]
  BY DEF OthersStay, Lists
<1>2. (\A r : Hashed(r)' <=> Hashed(r)) /\ InHands' = InHands
  BY <1>1 DEF Hashed, InHands
<1>3. \A k \in Slots : InService(k)' => Hashed(slots'[k])
  BY DEF Lists, InService, ListsOK
<1>4. ASSUME NEW d \in Clients, pc'[d] = "kwait", rep'[d] = "ok"
      PROVE  (Hashed(my[d].new) \/ Granted(d))'
  <2>1. d # c /\ pc[d] = "kwait" /\ rep[d] = "ok" /\ my'[d] = my[d]
    BY <1>1, <1>4 DEF Lists
  <2>2. Hashed(my[d].new) \/ Granted(d)
    BY <2>1 DEF ListsOK
  <2>3. Hashed(my[d].new)' <=> Hashed(my[d].new)
    BY <1>1, <2>1 DEF Hashed
  <2>4. Granted(d)' <=> Granted(d)
    BY <1>1, <2>1 DEF Granted, R
  <2> QED  BY <2>2, <2>3, <2>4
<1>5. ASSUME NEW d \in Clients, pc'[d] = "opening", X(d)'.state = "IODONE"
      PROVE  R(d)' \in port'.refs \cap hash'
  <2>1. d # c /\ pc[d] = "opening" /\ my'[d] = my[d]
    BY <1>1, <1>5 DEF Lists, X
  <2>2. R(d) \in Refs
    BY <2>1 DEF Inv, Typed, LocalsSet
  <2>3. ref'[R(d)].state = ref[R(d)].state
    BY <2>1, <2>2 DEF Lists, Apart
  <2>4. R(d) \in port.refs \cap hash
    BY <1>5, <2>1, <2>3 DEF ListsOK, X, R
  <2> QED  BY <1>1, <2>1, <2>4 DEF R
<1>6. /\ \A m \in InHands' \cup held' : m.op = "CONNECT" => m.pr \in port'.refs
      /\ \A m \in held' : m.op = "CONNECT" => m.pr \in hash'
  BY <1>1, <1>2 DEF ListsOK
<1>7. \A k \in Slots : InService(k)' => Hashed(slots[k])'
  <2> SUFFICES ASSUME NEW k \in Slots, InService(k)'
               PROVE  Hashed(slots[k])'
    OBVIOUS
  <2>1. Hashed(slots'[k])
    BY <1>3
  <2> QED  BY <1>1, <2>1 DEF Hashed
<1> QED  BY <1>4, <1>5, <1>6, <1>7 DEF ListsOK

\* Which handles nobody else is opening.
LEMMA ApartHandles ==
  ASSUME MsgAssumption, Inv, NEW c \in Clients
  PROVE  /\ Using(c) => Apart(c, R(c))
         /\ \A k \in Slots : Apart(c, slots[k])
         /\ \A r \in Refs : ~ref[r].alloc => Apart(c, r)
         /\ pc[c] = "kwait" => Apart(c, my[c].new)
<1>1. \A d \in Clients : pc[d] = "opening" => Using(d)
  BY DEF Using
<1>2. Using(c) => Apart(c, R(c))
  BY Zenon DEF Apart, Inv, Protocol, TablesOK, AloneOK
<1>3. ASSUME NEW k \in Slots
      PROVE  Apart(c, slots[k])
  <2>1. k \in SlotsOf(slots[k])
    BY DEF SlotsOf
  <2>2. \A d \in Clients : pc[d] = "opening" => SlotsOf(R(d)) = {}
    BY Zenon DEF Inv, Protocol, TablesOK, AloneOK
  <2> QED  BY <2>1, <2>2 DEF Apart
<1>4. \A r \in Refs : ~ref[r].alloc => Apart(c, r)
  BY <1>1, Zenon DEF Apart, Inv, Protocol, TablesOK, UsersOK
<1>5. pc[c] = "kwait" => Apart(c, my[c].new)
  BY <1>1, Zenon DEF Apart, Inv, Protocol, TablesOK, NewOK
<1> QED  BY <1>2, <1>3, <1>4, <1>5

\* A call begins, or ends without an exchange.
LEMMA CallsList ==
  ASSUME MsgAssumption, Inv, ListsOK, NEW c \in Clients,
         \/ \E k \in Slots, r \in Refs : MsgConnect(c, k, r)
         \/ \E k \in Slots, kd \in Kinds : SendFind(c, k, kd)
         \/ \E k, j \in Slots : CloneFind(c, k, j)
         \/ \E k, j \in Slots : ForkPort(c, k, j)
         \/ \E k \in Slots : MsgDisconnect(c, k)
         \/ FindBroken(c) \/ ShutClient(c) \/ ShutDone(c)
  PROVE  Lists(c)
<1>0. /\ pc \in [Threads -> ClientPcs \cup ServerPcs] /\ c \in Threads /\ ref \in [Refs -> WideRef]
      /\ slots \in [Slots -> Refs \cup {Null, Reserved}] /\ my \in [Clients -> Local] /\ port \in WidePort
      /\ LocalsSet /\ Null \notin Refs /\ Reserved \notin Refs
  BY DEF Inv, Typed, ThreadsTyped, KernelTyped, Threads, MsgAssumption
<1>1. ASSUME NEW k \in Slots, NEW r \in Refs, MsgConnect(c, k, r)
      PROVE  Lists(c)
  <2>1. PICK z : z = [NewRef("OPENING") EXCEPT !.iowait = PSema(@, c)]
    OBVIOUS
  <2>2. PICK y : y = [NoCall EXCEPT !.slot = k, !.pr = r]
    OBVIOUS
  <2>3. z.state = "OPENING" /\ y.pr = r
    BY <2>1, <2>2 DEF NewRef, NoCall
  <2>4. /\ pc' = [pc EXCEPT ![c] = "opening"] /\ ~ref[r].alloc
        /\ slots' = [slots EXCEPT ![k] = Reserved]
        /\ ref' = [ref EXCEPT ![r] = z] /\ my' = [my EXCEPT ![c] = y]
        /\ \E n : port' = Enqueue(port, n)
    BY <1>1, <2>1, <2>2, Zenon DEF MsgConnect, Goto
  <2>5. port'.refs = port.refs
    BY <1>0, <2>4 DEF Enqueue, WidePort
  <2>6. \A p \in Refs : ref'[p].state = ref[p].state \/ Apart(c, p)
    BY <1>0, <2>4, ApartHandles
  <2> QED  BY <1>0, <2>3, <2>4, <2>5, <2>6 DEF Lists
<1>2. ASSUME NEW k \in Slots, NEW kd \in Kinds, SendFind(c, k, kd)
      PROVE  Lists(c)
  <2>1. /\ pc' = [pc EXCEPT ![c] = "find"] /\ port' = port /\ slots' = slots
        /\ ref' = [ref EXCEPT ![slots[k]].sema = PSema(@, c)]
    BY <1>2, Zenon DEF SendFind, Goto
  <2> QED  BY <1>0, <2>1 DEF Lists, WideRef
<1>3. ASSUME NEW k \in Slots, NEW j \in Slots, CloneFind(c, k, j)
      PROVE  Lists(c)
  <2>1. /\ pc' = [pc EXCEPT ![c] = "cfind"] /\ port' = port /\ slots' = [slots EXCEPT ![j] = Reserved]
        /\ ref' = [ref EXCEPT ![slots[k]].sema = PSema(@, c)]
    BY <1>3, Zenon DEF CloneFind, Goto
  <2> QED  BY <1>0, <2>1 DEF Lists, WideRef
<1>4. ASSUME NEW k \in Slots, NEW j \in Slots, ForkPort(c, k, j)
      PROVE  Lists(c)
  <2>1. /\ pc[c] = "out" /\ pc' = pc /\ port' = port /\ InService(k) /\ slots' = [slots EXCEPT ![j] = slots[k]]
        /\ ref' = [ref EXCEPT ![slots[k]].refs = @ + 1]
    BY <1>4, Zenon DEF ForkPort
  <2>2. Hashed(slots[k])
    BY <2>1 DEF ListsOK
  <2>3. \A i \in Slots : slots'[i] = slots[i] \/ slots'[i] = slots[k]
    BY <1>0, <2>1
  <2>4. \A p \in Refs : ref'[p].state = ref[p].state
    BY <1>0, <2>1 DEF WideRef
  <2> QED  BY <2>1, <2>2, <2>3, <2>4 DEF Lists
<1>5. ASSUME NEW k \in Slots, MsgDisconnect(c, k)
      PROVE  Lists(c)
  <2>1. /\ pc[c] = "out" /\ (pc' = pc \/ pc' = [pc EXCEPT ![c] = "shut"]) /\ port' = port
        /\ slots' = [slots EXCEPT ![k] = Null] /\ ref' = [ref EXCEPT ![slots[k]].refs = @ - 1]
    BY <1>5, Zenon DEF MsgDisconnect, DeletePortref, Goto
  <2> QED  BY <1>0, <2>1 DEF Lists, WideRef
<1>6. CASE FindBroken(c)
  <2>1. /\ pc' = [pc EXCEPT ![c] = "out"] /\ port' = port /\ ref' = ref
        /\ slots' = slots \/ slots' = [slots EXCEPT ![my[c].slot] = Null]
    BY <1>6, Zenon DEF FindBroken, Return, Goto
  <2> QED  BY <1>0, <2>1 DEF Lists
<1>7. CASE ShutClient(c)
  <2>1. R(c) \in Refs /\ Using(c)
    BY <1>0, <1>7 DEF ShutClient, LocalsSet, Using
  <2>2. /\ slots' = slots /\ \E l \in {"closing", "out"} : pc' = [pc EXCEPT ![c] = l]
        /\ port' = port \/ \E n : port' = Enqueue(port, n)
    BY <1>7, Zenon DEF ShutClient, Goto, Return
  <2>3. port'.refs = port.refs
    BY <1>0, <2>2 DEF Enqueue, WidePort
  <2>4. \A p \in Refs : p # R(c) => ref'[p] = ref[p]
    BY <1>0, <1>7 DEF ShutClient
  <2>5. \A p \in Refs : ref'[p].state = ref[p].state \/ Apart(c, p)
    BY <2>1, <2>4, ApartHandles
  <2> QED  BY <1>0, <2>2, <2>3, <2>5 DEF Lists
<1>8. CASE ShutDone(c)
  <2>1. pc' = [pc EXCEPT ![c] = "out"] /\ port' = port /\ ref' = ref /\ slots' = slots
    BY <1>8 DEF ShutDone, Return, Goto
  <2> QED  BY <1>0, <2>1 DEF Lists
<1> QED  BY <1>1, <1>2, <1>3, <1>4, <1>5, <1>6, <1>7, <1>8, Zenon

\* msg_connect() returns: its handle has been accepted, or it is freed.
LEMMA ConnectDoneLists ==
  ASSUME MsgAssumption, Inv, ListsOK, NEW c \in Clients, MsgConnectDone(c)
  PROVE  Lists(c)
<1>0. /\ pc \in [Threads -> ClientPcs \cup ServerPcs] /\ c \in Threads /\ ref \in [Refs -> WideRef]
      /\ slots \in [Slots -> Refs \cup {Null, Reserved}] /\ LocalsSet /\ Null \notin Refs
  BY DEF Inv, Typed, ThreadsTyped, KernelTyped, Threads, MsgAssumption
<1>1. /\ pc[c] = "opening" /\ pc' = [pc EXCEPT ![c] = "out"] /\ port' = port
      /\ ref' = ref \/ ref' = [ref EXCEPT ![R(c)] = FreeRef]
      /\ \/ slots' = [slots EXCEPT ![my[c].slot] = Null]
         \/ X(c).state = "IODONE" /\ slots' = [slots EXCEPT ![my[c].slot] = R(c)]
  BY Zenon DEF MsgConnectDone, Awake, Return, Goto
<1>2. X(c).state = "IODONE" => Hashed(R(c))
  BY <1>1 DEF ListsOK, Hashed
<1>3. Apart(c, R(c))
  BY <1>1, ApartHandles DEF Using
<1>4. \A p \in Refs : ref'[p].state = ref[p].state \/ Apart(c, p)
  BY <1>0, <1>1, <1>3
<1>5. \A k \in Slots : slots'[k] = slots[k] \/ slots'[k] \notin Refs \/ Hashed(slots'[k])
  BY <1>0, <1>1, <1>2
<1> QED  BY <1>0, <1>1, <1>4, <1>5 DEF Lists

\* clone() returns: the server has granted the new handle, or it is freed.
LEMMA CloneDoneLists ==
  ASSUME MsgAssumption, Inv, ListsOK, NEW c \in Clients, CloneDone(c)
  PROVE  Lists(c)
<1>0. /\ pc \in [Threads -> ClientPcs \cup ServerPcs] /\ c \in Threads /\ ref \in [Refs -> WideRef]
      /\ slots \in [Slots -> Refs \cup {Null, Reserved}] /\ LocalsSet /\ Null \notin Refs
  BY DEF Inv, Typed, ThreadsTyped, KernelTyped, Threads, MsgAssumption
<1>1. PICK n : n = my[c].new
  OBVIOUS
<1>2. /\ pc[c] = "kwait" /\ ~Queued(X(c).iowait, c) /\ ~intr[c] /\ pc' = [pc EXCEPT ![c] = "out"] /\ port' = port
      /\ \/ slots' = [slots EXCEPT ![my[c].slot] = Null]
         \/ rep[c] # "err" /\ slots' = [slots EXCEPT ![my[c].slot] = n]
  BY <1>1, Zenon DEF CloneDone, Awake, Return, Goto
<1>3. Waiting(c) /\ R(c) \in Refs /\ n \in Refs
  BY <1>0, <1>1, <1>2 DEF Waiting, InExchange, LocalsSet
<1>4. \A p \in Refs : p # R(c) /\ p # n => ref'[p] = ref[p]
  BY <1>0, <1>1 DEF CloneDone
<1>5. Apart(c, R(c)) /\ Apart(c, n)
  BY <1>1, <1>2, ApartHandles DEF Using
<1>6. \A p \in Refs : ref'[p].state = ref[p].state \/ Apart(c, p)
  BY <1>4, <1>5
<1>7. X(c).iowait # Asleep(c) /\ rep[c] \in {"ok", "err"}
  <2>1. X(c).iowait # Asleep(c)
    BY <1>2, SemaValues
  <2>2. CallAt("kwait", X(c), rep[c], intr[c], c)
    BY <1>2, <1>3 DEF Inv, Protocol, CallsOK
  <2> QED  BY <2>1, <2>2 DEF CallAt
<1>8. ASSUME rep[c] # "err"
      PROVE  Hashed(n)
  <2>1. Hashed(n) \/ Granted(c)
    BY <1>1, <1>2, <1>7, <1>8 DEF ListsOK
  <2>2. ASSUME NEW s \in Servers, pc[s] = "dupwake", got[s].pr = R(c)
        PROVE  FALSE
    <3>1. PICK d \in Clients : R(d) = R(c) /\ DupOwed(d)
      BY <2>2 DEF Inv, Protocol, CallsOK
    <3>2. Has(c) /\ Has(d)
      BY <1>3, <3>1, WaitersHave DEF DupOwed, Waiting, InExchange
    <3>3. c = d
      BY <3>1, <3>2, OneCall
    <3> QED  BY <1>7, <3>1, <3>3 DEF DupOwed
  <2> QED  BY <2>1, <2>2 DEF Granted
<1>9. \A k \in Slots : slots'[k] = slots[k] \/ slots'[k] \notin Refs \/ Hashed(slots'[k])
  BY <1>0, <1>2, <1>8
<1> QED  BY <1>0, <1>2, <1>6, <1>9 DEF Lists

\* An exchange begins, or goes on, or ends: the handles are the ones they were.
LEMMA ExchangeLists ==
  ASSUME MsgAssumption, Inv, ListsOK, NEW c \in Clients,
         \/ SendPost(c) \/ \E n \in Refs : ClonePost(c, n)
         \/ SendDone(c) \/ CopyDone(c) \/ MapFails(c) \/ AbortDone(c) \/ IntrDone(c)
         \/ IntrGone(c) \/ IntrWithdraw(c) \/ IntrAbort(c) \/ SendMap(c)
  PROVE  Lists(c)
<1>0. /\ pc \in [Threads -> ClientPcs \cup ServerPcs] /\ c \in Threads /\ ref \in [Refs -> WideRef]
      /\ slots \in [Slots -> Refs \cup {Null, Reserved}] /\ port \in WidePort
      /\ LocalsSet /\ Null \notin Refs /\ EventsOK
  BY DEF Inv, Protocol, Typed, ThreadsTyped, KernelTyped, Threads, MsgAssumption
<1>1. Using(c) /\ pc[c] \in {"find", "cfind", "iowait", "copy", "abwait"}
  BY ZenonT(60) DEF SendPost, ClonePost, SendDone, CopyDone, MapFails, AbortDone, IntrDone, IntrGone,
         IntrWithdraw, IntrAbort, SendMap, Awake, Broken, Interrupted, Using
<1>2. Apart(c, R(c))
  BY <1>1, ApartHandles
<1>3. ASSUME NEW n \in Refs, ClonePost(c, n)
      PROVE  Lists(c)
  <2>1. /\ slots' = slots \/ slots' = [slots EXCEPT ![my[c].slot] = Null]
        /\ \E l \in {"kwait", "out"} : pc' = [pc EXCEPT ![c] = l]
        /\ port' = port \/ \E m : port' = Enqueue(port, m)
    BY <1>3, Zenon DEF ClonePost, Goto, Return, Awake
  <2>2. pc[c] = "cfind" /\ rep[c] = "none" /\ ~ref[n].alloc
    BY <1>0, <1>3 DEF EventsOK, Waiting, InExchange, ClonePost, Awake
  <2>3. rep'[c] # "ok"
    <3>1. rep' = rep \/ rep' = [rep EXCEPT ![c] = "none"]
      BY <1>3, Zenon DEF ClonePost, Return
    <3>2. rep \in [Clients -> {"none", "ok", "segs", "err"}]
      BY DEF Inv, Typed, ThreadsTyped
    <3> QED  BY <2>2, <3>1, <3>2
  <2>4. \A p \in Refs : p # R(c) /\ p # n => ref'[p] = ref[p]
    BY <1>0, <1>3 DEF ClonePost
  <2>5. \A p \in Refs : ref'[p].state = ref[p].state \/ Apart(c, p)
    BY <1>2, <2>2, <2>4, ApartHandles
  <2>6. port'.refs = port.refs
    BY <1>0, <2>1 DEF Enqueue, WidePort
  <2> QED  BY <1>0, <2>1, <2>3, <2>5, <2>6 DEF Lists
<1>4. CASE ~\E n \in Refs : ClonePost(c, n)
  <2>1. /\ slots' = slots
        /\ \E l \in {"iowait", "copy", "abwait", "out"} : pc' = [pc EXCEPT ![c] = l]
        /\ \/ port' = port \/ \E m : port' = Enqueue(port, m)
           \/ \E q, w : port' = [port EXCEPT !.queue = q, !.wait = w]
    BY <1>4, ZenonT(60) DEF SendPost, SendDone, CopyDone, MapFails, AbortDone, IntrDone, IntrGone,
         IntrWithdraw, IntrAbort, SendMap, Goto, Return
  <2>2. port'.refs = port.refs
    BY <1>0, <2>1 DEF Enqueue, WidePort
  <2>3. \A p \in Refs : p # R(c) => ref'[p] = ref[p]
    BY <1>0, <1>4 DEF SendPost, SendDone, CopyDone, MapFails, AbortDone, IntrDone, IntrGone,
         IntrWithdraw, IntrAbort, SendMap
  <2>4. \A p \in Refs : ref'[p].state = ref[p].state \/ Apart(c, p)
    BY <1>2, <2>3
  <2> QED  BY <1>0, <2>1, <2>2, <2>4 DEF Lists
<1> QED  BY <1>3, <1>4

\* What a server's step may do to it: only handles that open or close leave
\* the list and the hash, and what he grants or accepts is known.
LEMMA ServerLists ==
  ASSUME Inv, ListsOK, NEW s \in Servers, ClientsStay(s),
         \A r \in Refs : ref[r].state \notin {"OPENING", "CLOSING"} =>
           /\ r \in port.refs => r \in port'.refs
           /\ r \in hash => r \in hash',
         \A m \in InHands' \cup held' : m.op = "CONNECT" => m.pr \in port'.refs,
         \A m \in held' : m.op = "CONNECT" => m.pr \in hash',
         \A u \in Servers : pc[u] = "duphash" =>
           (pc'[u] = "duphash" /\ got'[u] = got[u]) \/ got[u].new \in hash',
         \A u \in Servers : pc[u] = "dupwake" => pc'[u] \in {"dupwake", "duphash"} /\ got'[u] = got[u],
         \A c \in Clients : pc[c] = "kwait" /\ rep'[c] = "ok" =>
           rep[c] = "ok" \/ (/\ my[c].new \in port'.refs
                             /\ \E u \in Servers : pc'[u] = "dupwake" /\ got'[u].pr = R(c)
                                                   /\ got'[u].new = my[c].new),
         \A c \in Clients : pc[c] = "opening" /\ ref'[R(c)].state = "IODONE" =>
           ref[R(c)].state = "IODONE" \/ R(c) \in port'.refs \cap hash'
  PROVE  ListsOK'
<1>1. /\ slots' = slots
      /\ \A c \in Clients : pc'[c] = pc[c] /\ my'[c].pr = my[c].pr /\ my'[c].new = my[c].new
  BY DEF ClientsStay
<1>2. ASSUME NEW r \in Refs, ref[r].state \notin {"OPENING", "CLOSING"}, Hashed(r)
      PROVE  Hashed(r)'
  <2>1. r \in port'.refs
    BY <1>2 DEF Hashed
  <2>2. CASE r \in hash
    BY <1>2, <2>1, <2>2 DEF Hashed
  <2>3. CASE \E u \in Servers : pc[u] = "duphash" /\ got[u].new = r
    BY <2>1, <2>3 DEF Hashed
  <2> QED  BY <1>2, <2>2, <2>3 DEF Hashed
<1>3. ASSUME NEW k \in Slots, InService(k)'
      PROVE  Hashed(slots[k])'
  <2>1. PICK r \in Refs : r = slots[k]
    BY <1>1, <1>3 DEF InService
  <2>2. k \in SlotsOf(r) /\ InService(k)
    BY <2>1 DEF SlotsOf, InService
  <2>3. ref[r].state \notin {"OPENING", "CLOSING"} /\ Hashed(r)
    BY <2>1, <2>2, Zenon DEF Inv, Protocol, TablesOK, HandlesKept, ListsOK
  <2>4. Hashed(r)'
    BY <1>2, <2>3
  <2> QED  BY <1>1, <2>1, <2>4 DEF Hashed
<1>4. ASSUME NEW c \in Clients, pc'[c] = "kwait", rep'[c] = "ok"
      PROVE  (Hashed(my[c].new) \/ Granted(c))'
  <2>1. pc[c] = "kwait" /\ R(c)' = R(c) /\ my'[c].new = my[c].new
    BY <1>1, <1>4 DEF R
  <2>2. PICK n \in Refs : n = my[c].new
    BY <2>1 DEF Inv, Typed, LocalsSet
  <2>3. ref[n].state \notin {"OPENING", "CLOSING"}
    BY <2>1, <2>2, Zenon DEF Inv, Protocol, TablesOK, NewOK
  <2>4. CASE rep[c] = "ok" /\ Hashed(n)
    <3>1. Hashed(n)'
      BY <1>2, <2>3, <2>4
    <3> QED  BY <2>1, <2>2, <3>1 DEF Hashed
  <2>5. CASE rep[c] = "ok" /\ Granted(c)
    <3>1. n \in port'.refs
      BY <2>2, <2>3, <2>5 DEF Granted
    <3>2. PICK u \in Servers : pc[u] = "dupwake" /\ got[u].pr = R(c) /\ got[u].new = n
      BY <2>2, <2>5 DEF Granted
    <3>3. pc'[u] \in {"dupwake", "duphash"} /\ got'[u] = got[u]
      BY <3>2
    <3>4. CASE pc'[u] = "dupwake"
      BY <2>1, <2>2, <3>1, <3>2, <3>3, <3>4 DEF Granted
    <3>5. CASE pc'[u] = "duphash"
      BY <2>1, <2>2, <3>1, <3>2, <3>3, <3>5 DEF Hashed
    <3> QED  BY <3>3, <3>4, <3>5
  <2>6. CASE rep[c] # "ok"
    BY <1>4, <2>1, <2>6 DEF Granted
  <2> QED  BY <2>1, <2>2, <2>4, <2>5, <2>6 DEF ListsOK
<1>5. ASSUME NEW c \in Clients, pc'[c] = "opening", X(c)'.state = "IODONE"
      PROVE  R(c)' \in port'.refs \cap hash'
  <2>1. pc[c] = "opening" /\ R(c)' = R(c)
    BY <1>1, <1>5 DEF R
  <2>2. R(c) \in Refs
    BY <2>1 DEF Inv, Typed, LocalsSet
  <2>3. ref'[R(c)].state = "IODONE"
    BY <1>5, <2>1 DEF X, R
  <2>4. CASE ref[R(c)].state = "IODONE"
    BY <2>1, <2>2, <2>4 DEF ListsOK, X, R
  <2>5. CASE ref[R(c)].state # "IODONE"
    BY <2>1, <2>3, <2>5
  <2> QED  BY <2>4, <2>5
<1> QED  BY <1>3, <1>4, <1>5 DEF ListsOK

\* A message that is asked to connect is the only one on its handle.
LEMMA ConnectAlone ==
  ASSUME Inv, NEW m \in InHands \cup held, NEW n \in InHands \cup held, n.op = "CONNECT", m.pr = n.pr
  PROVE  ref[m.pr].state = "OPENING" /\ (m \in held => n = m)
<1>1. MessagesOK /\ Known(n)
  BY DEF Inv, Protocol, MessagesOK
<1>2. ref[m.pr].state = "OPENING"
  BY <1>1 DEF Known, StatesOf
<1>3. m \in held => n = m
  BY <1>1 DEF MessagesOK, Aborts
<1> QED  BY <1>2, <1>3

\* The steps of a server that take, hash or grant nothing.
LEMMA RestLists ==
  ASSUME Inv, ListsOK, NEW s \in Servers, ClientsStay(s), pc[s] \notin {"rcvd", "dupwake", "duphash"},
         pc'[s] \notin {"rcvd"}, port'.refs = port.refs, hash' = hash, held' \subseteq held,
         \A c \in Clients : pc[c] = "kwait" /\ rep'[c] = "ok" => rep[c] = "ok",
         \A c \in Clients : pc[c] = "opening" => ref'[R(c)].state = ref[R(c)].state
  PROVE  ListsOK'
<1>1. \A u \in Servers : u # s => pc'[u] = pc[u] /\ got'[u] = got[u]
  BY DEF ClientsStay
<1>2. InHands' = InHands
  <2>1. \A u \in Servers : pc'[u] = "rcvd" <=> pc[u] = "rcvd"
    BY <1>1
  <2>2. \A u \in Servers : pc[u] = "rcvd" => got'[u] = got[u]
    BY <1>1
  <2> QED  BY <2>1, <2>2 DEF InHands
<1>3. /\ \A m \in InHands' \cup held' : m.op = "CONNECT" => m.pr \in port'.refs
      /\ \A m \in held' : m.op = "CONNECT" => m.pr \in hash'
  BY <1>2 DEF ListsOK
<1>4. /\ \A u \in Servers : pc[u] = "duphash" => pc'[u] = "duphash" /\ got'[u] = got[u]
      /\ \A u \in Servers : pc[u] = "dupwake" => pc'[u] \in {"dupwake", "duphash"} /\ got'[u] = got[u]
  BY <1>1
<1> QED  BY <1>3, <1>4, ServerLists

\* The states a handle has while msg_connect() waits.
LEMMA OpenStates ==
  ASSUME Inv, NEW c \in Clients, pc[c] = "opening"
  PROVE  R(c) \in Refs /\ ref[R(c)].state \in {"OPENING", "ABDONE", "IODONE"}
<1>1. R(c) \in Refs /\ CallAt(pc[c], X(c), rep[c], intr[c], c)
  BY DEF Inv, Protocol, CallsOK, Waiting, Typed, LocalsSet
<1> QED  BY <1>1 DEF CallAt, X, R

\* A server receives, and has a handle hashed.
LEMMA ReceiveLists ==
  ASSUME MsgAssumption, Inv, ListsOK, NEW s \in Servers, ClientsStay(s),
         \/ RecvFind(s) \/ RecvWait(s) \/ RecvBroken(s) \/ RecvNothing(s) \/ ClosePort(s)
         \/ ReplyRuns(s) \/ DupWake(s) \/ DupHash(s)
  PROVE  ListsOK'
<1>0. /\ pc \in [Threads -> ClientPcs \cup ServerPcs] /\ s \in Threads /\ ref \in [Refs -> WideRef]
      /\ port \in WidePort /\ got \in [Servers -> Sendable \cup Refs \cup {Null}]
  BY DEF Inv, Typed, KernelTyped, ThreadsTyped, ServerTyped, Threads
<1>1. /\ \A u \in Servers : u # s => pc'[u] = pc[u] /\ got'[u] = got[u]
      /\ rep' = rep
  BY DEF ClientsStay, RecvFind, RecvWait, RecvBroken, RecvNothing, ClosePort, ReplyRuns, DupWake, DupHash
<1>2. CASE RecvFind(s) \/ RecvWait(s) \/ RecvBroken(s) \/ RecvNothing(s) \/ ClosePort(s) \/ ReplyRuns(s)
  <2>1. /\ ref' = ref /\ hash' = hash /\ held' = held /\ pc[s] \notin {"rcvd", "dupwake", "duphash"}
        /\ (\E l \in {"find", "rwait", "out", "dport"} : pc' = [pc EXCEPT ![s] = l]) \/ pc' = pc
        /\ \/ port' = port
           \/ \E w : port' = [port EXCEPT !.sema = w]
           \/ \E w : port' = [port EXCEPT !.wait = w]
           \/ \E w : port' = [port EXCEPT !.inproc = FALSE, !.sema = w]
    BY <1>2, ZenonT(60) DEF RecvFind, RecvWait, RecvBroken, RecvNothing, ClosePort, ReplyRuns, Awake, Broken, Goto, serverVars
  <2>2. port'.refs = port.refs /\ pc'[s] # "rcvd"
    BY <1>0, <2>1 DEF WidePort
  <2> QED  BY <1>1, <2>1, <2>2, RestLists
<1>3. CASE DupWake(s)
  <2>1. /\ pc[s] = "dupwake" /\ pc' = [pc EXCEPT ![s] = "duphash"] /\ got' = got /\ hash' = hash /\ held' = held
        /\ port' = port /\ ref' = [ref EXCEPT ![got[s].pr].iowait = VSema(@)]
    BY <1>3 DEF DupWake, Goto, serverVars
  <2>2. \A p \in Refs : ref'[p].state = ref[p].state
    BY <1>0, <2>1 DEF WideRef
  <2>3. \A c \in Clients : pc[c] = "opening" => ref'[R(c)].state = ref[R(c)].state
    BY <2>2, OpenStates
  <2>4. InHands' = InHands
    <3>1. \A u \in Servers : pc'[u] = "rcvd" <=> pc[u] = "rcvd"
      BY <1>0, <1>1, <2>1
    <3> QED  BY <2>1, <3>1 DEF InHands
  <2>5. /\ \A m \in InHands' \cup held' : m.op = "CONNECT" => m.pr \in port'.refs
        /\ \A m \in held' : m.op = "CONNECT" => m.pr \in hash'
    BY <2>1, <2>4 DEF ListsOK
  <2>6. /\ \A u \in Servers : pc[u] = "duphash" => pc'[u] = "duphash" /\ got'[u] = got[u]
        /\ \A u \in Servers : pc[u] = "dupwake" => pc'[u] \in {"dupwake", "duphash"} /\ got'[u] = got[u]
    BY <1>0, <1>1, <2>1
  <2> QED  BY <1>1, <2>1, <2>3, <2>5, <2>6, ServerLists
<1>4. CASE DupHash(s)
  <2>1. /\ pc[s] = "duphash" /\ pc' = [pc EXCEPT ![s] = "out"] /\ hash' = hash \cup {got[s].new} /\ held' = held
        /\ port' = port /\ ref' = ref
    BY <1>4 DEF DupHash, Goto
  <2>2. InHands' = InHands
    <3>1. \A u \in Servers : pc'[u] = "rcvd" <=> pc[u] = "rcvd"
      BY <1>0, <1>1, <2>1
    <3>2. \A u \in Servers : pc[u] = "rcvd" => got'[u] = got[u]
      BY <1>1, <2>1
    <3> QED  BY <3>1, <3>2 DEF InHands
  <2>3. /\ \A m \in InHands' \cup held' : m.op = "CONNECT" => m.pr \in port'.refs
        /\ \A m \in held' : m.op = "CONNECT" => m.pr \in hash'
    BY <2>1, <2>2 DEF ListsOK
  <2>4. /\ \A u \in Servers : pc[u] = "duphash" => (pc'[u] = "duphash" /\ got'[u] = got[u]) \/ got[u].new \in hash'
        /\ \A u \in Servers : pc[u] = "dupwake" => pc'[u] \in {"dupwake", "duphash"} /\ got'[u] = got[u]
    BY <1>1, <2>1
  <2> QED  BY <1>1, <2>1, <2>3, <2>4, ServerLists
<1> QED  BY <1>2, <1>3, <1>4

\* msg_receive() takes a message: CONNECT and DISCONNECT change the port's list.
LEMMA TakeLists ==
  ASSUME MsgAssumption, Inv, ListsOK, NEW s \in Servers, ClientsStay(s), RecvTake(s)
  PROVE  ListsOK'
<1>0. /\ pc \in [Threads -> ClientPcs \cup ServerPcs] /\ s \in Threads /\ ref \in [Refs -> WideRef]
      /\ port \in WidePort /\ got \in [Servers -> Sendable \cup Refs \cup {Null}]
      /\ port.queue \in Seq(Sendable) /\ MessagesOK
  BY MessagesTyped DEF Inv, Protocol, Typed, KernelTyped, ThreadsTyped, ServerTyped, Threads
<1>1. PICK m : m = Head(port.queue)
  OBVIOUS
<1>2. /\ pc[s] = "rwait" /\ port.queue # << >> /\ rep' = rep /\ hash' = hash /\ held' = held
      /\ pc' = [pc EXCEPT ![s] = "rcvd"] /\ got' = [got EXCEPT ![s] = m]
      /\ ref' = [ref EXCEPT ![m.pr].msg = m]
  BY <1>1 DEF RecvTake, Awake, Goto
<1>3. m \in ToSet(port.queue)
  BY <1>0, <1>1, <1>2, TailSpread DEF MessagesOK
<1>4. m \in Sendable /\ m.pr \in Refs /\ m.op \in Ops /\ Known(m)
  BY <1>0, <1>3, MessagesTyped DEF Inv, Sendable, Messages, MessagesOK
<1>5. /\ m.op = "CONNECT" => port'.refs = port.refs \cup {m.pr}
      /\ m.op = "DISCONNECT" => port'.refs = port.refs \ {m.pr}
      /\ m.op \notin {"CONNECT", "DISCONNECT"} => port'.refs = port.refs
  <2>1. PICK p : p = [port EXCEPT !.queue = Tail(@)]
    OBVIOUS
  <2>2. p.refs = port.refs /\ RefPort(p, m.pr).refs = port.refs \cup {m.pr}
        /\ DerefPort(p, m.pr).refs = port.refs \ {m.pr}
    BY <1>0, <2>1 DEF RefPort, DerefPort, WidePort
  <2>3. port' = CASE m.op = "CONNECT"    -> RefPort(p, m.pr)
                  [] m.op = "DISCONNECT" -> DerefPort(p, m.pr)
                  [] OTHER               -> p
    BY <1>1, <2>1, Zenon DEF RecvTake
  <2> QED  BY <2>2, <2>3
<1>6. m.op = "DISCONNECT" => ref[m.pr].state = "CLOSING"
  BY <1>4 DEF Known, StatesOf
<1>7. \A u \in Servers : u # s => pc'[u] = pc[u] /\ got'[u] = got[u]
  BY DEF ClientsStay
<1>8. InHands' = InHands \cup {m}
  <2>1. got'[s] = m /\ pc'[s] = "rcvd"
    BY <1>0, <1>2
  <2> QED  BY <1>2, <1>7, <2>1 DEF InHands
<1>9. /\ \A n \in InHands' \cup held' : n.op = "CONNECT" => n.pr \in port'.refs
      /\ \A n \in held' : n.op = "CONNECT" => n.pr \in hash'
  <2>1. ASSUME NEW n \in InHands' \cup held', n.op = "CONNECT"
        PROVE  n.pr \in port'.refs
    <3>1. CASE n = m
      BY <1>5, <2>1, <3>1
    <3>2. CASE n # m
      <4>1. n \in InHands \cup held /\ n.pr \in port.refs
        BY <1>2, <1>8, <2>1, <3>2 DEF ListsOK
      <4>2. ref[n.pr].state = "OPENING"
        BY <1>0, <2>1, <4>1 DEF MessagesOK, Known, StatesOf
      <4> QED  BY <1>4, <1>5, <1>6, <4>1, <4>2 DEF Ops
    <3> QED  BY <3>1, <3>2
  <2> QED  BY <1>2, <2>1 DEF ListsOK
<1>10. \A p \in Refs : ref'[p].state = ref[p].state
  BY <1>0, <1>2 DEF WideRef
<1>11. \A c \in Clients : pc[c] = "opening" => ref'[R(c)].state = ref[R(c)].state
  BY <1>10, OpenStates
<1>12. \A r \in Refs : ref[r].state \notin {"OPENING", "CLOSING"} =>
         /\ r \in port.refs => r \in port'.refs
         /\ r \in hash => r \in hash'
  BY <1>2, <1>5, <1>6
<1>13. /\ \A u \in Servers : pc[u] = "duphash" => pc'[u] = "duphash" /\ got'[u] = got[u]
       /\ \A u \in Servers : pc[u] = "dupwake" => pc'[u] \in {"dupwake", "duphash"} /\ got'[u] = got[u]
  BY <1>2, <1>7
<1> QED  BY <1>2, <1>9, <1>11, <1>12, <1>13, ServerLists

\* ... and hands it out: the hash learns of who has connected, or has left.
LEMMA ReturnLists ==
  ASSUME MsgAssumption, Inv, ListsOK, NEW s \in Servers, ClientsStay(s), RecvReturn(s)
  PROVE  ListsOK'
<1>0. /\ pc \in [Threads -> ClientPcs \cup ServerPcs] /\ ref \in [Refs -> WideRef]
      /\ port \in WidePort /\ s \in Threads /\ MessagesOK
      /\ got \in [Servers -> Sendable \cup Refs \cup {Null}]
  BY DEF Inv, Protocol, Typed, ThreadsTyped, KernelTyped, ServerTyped, Threads
<1>1. PICK m : m = got[s]
  OBVIOUS
<1>2. pc[s] = "rcvd" /\ rep' = rep /\ pc' = [pc EXCEPT ![s] = "out"]
  BY DEF RecvReturn, Goto
<1>3. m \in InHands
  BY <1>1, <1>2 DEF InHands
<1>4. m \in Sendable /\ m.pr \in Refs /\ m.op \in Ops /\ Known(m)
  BY <1>0, <1>3, MessagesTyped DEF Inv, AllMsgs, MessagesOK
<1>5. \/ m.op = "CONNECT" /\ hash' = hash \cup {m.pr} /\ held' = held \cup {m} /\ ref' = ref
      \/ /\ m.op = "DISCONNECT" /\ hash' = hash \ {m.pr} /\ held' = {h \in held : h.pr # m.pr}
         /\ ref' = [ref EXCEPT ![m.pr] = FreeRef]
      \/ m.op \notin {"CONNECT", "DISCONNECT"} /\ hash' = hash /\ held' = held \cup {m} /\ ref' = ref
  BY <1>1, <1>4, ZenonT(60) DEF RecvReturn
<1>6. port'.refs = port.refs
  BY <1>0 DEF RecvReturn, WidePort
<1>7. m.op = "DISCONNECT" => ref[m.pr].state = "CLOSING"
  BY <1>4 DEF Known, StatesOf
<1>8. \A u \in Servers : u # s => pc'[u] = pc[u] /\ got'[u] = got[u]
  BY DEF ClientsStay
<1>9. InHands' \subseteq InHands
  BY <1>0, <1>2, <1>8 DEF InHands
<1>10. /\ \A n \in InHands' \cup held' : n.op = "CONNECT" => n.pr \in port'.refs
       /\ \A n \in held' : n.op = "CONNECT" => n.pr \in hash'
  <2>1. InHands' \cup held' \subseteq InHands \cup held
    BY <1>3, <1>5, <1>9
  <2>2. \A n \in held : n.op = "CONNECT" => n.pr \in hash /\ ref[n.pr].state = "OPENING"
    BY <1>0 DEF ListsOK, MessagesOK, Known, StatesOf
  <2>3. \A n \in held' : n.op = "CONNECT" => n.pr \in hash'
    BY <1>5, <1>7, <2>2
  <2> QED  BY <1>6, <2>1, <2>3 DEF ListsOK
<1>11. \A c \in Clients : pc[c] = "opening" => ref'[R(c)].state = ref[R(c)].state
  BY <1>0, <1>5, <1>7, OpenStates
<1>12. \A r \in Refs : ref[r].state \notin {"OPENING", "CLOSING"} =>
         /\ r \in port.refs => r \in port'.refs
         /\ r \in hash => r \in hash'
  BY <1>5, <1>6, <1>7
<1>13. /\ \A u \in Servers : pc[u] = "duphash" => pc'[u] = "duphash" /\ got'[u] = got[u]
       /\ \A u \in Servers : pc[u] = "dupwake" => pc'[u] \in {"dupwake", "duphash"} /\ got'[u] = got[u]
  BY <1>2, <1>8
<1> QED  BY <1>2, <1>10, <1>11, <1>12, <1>13, ServerLists

\* An answer that neither accepts, nor refuses a connection, nor grants.
LEMMA ReplyLists ==
  ASSUME MsgAssumption, Inv, ListsOK, NEW s \in Servers, ClientsStay(s), NEW m \in held,
         \/ ReplyAbort(s, m) \/ ReplyRefused(s, m)
         \/ \E a \in Answers : ReplyDone(s, m, a)
  PROVE  ListsOK'
<1>0. /\ pc \in [Threads -> ClientPcs \cup ServerPcs] /\ s \in Threads /\ ref \in [Refs -> WideRef]
      /\ rep \in [Clients -> {"none", "ok", "segs", "err"}]
  BY DEF Inv, Typed, KernelTyped, ThreadsTyped, Threads
<1>1. /\ pc[s] = "out" /\ port' = port /\ hash' = hash /\ held' \subseteq held
      /\ pc' = pc \/ pc' = [pc EXCEPT ![s] = "svwait"]
  BY DEF ReplyAbort, ReplyRefused, ReplyDone, Holds, Answered, Goto
<1>2. /\ m.pr \in Refs /\ m.from \in Clients /\ m.op \in Ops /\ pc[m.from] \in WaitsFor(m.op)
      /\ ref[m.pr].state \in StatesOf(m.op)
      /\ m.op # "ABORT" /\ ref[m.pr].state # "ABWAIT" => ref[m.pr].msg = m
  BY HeldFrom
<1>3. \A p \in Refs : ref'[p].state = ref[p].state \/ ref[p].state \in {"IOWAIT", "ABWAIT"}
  <2>1. CASE ReplyAbort(s, m) \/ ReplyRefused(s, m)
    <3>1. \/ ref' = ref
          \/ /\ ref[m.pr].state = "ABWAIT"
             /\ ref' = [ref EXCEPT ![m.pr].state = "ABDONE", ![m.pr].iowait = VSema(@)]
      BY <2>1, Zenon DEF ReplyAbort, ReplyRefused
    <3> QED  BY <1>0, <1>2, <3>1
  <2>2. ASSUME NEW a \in Answers, ReplyDone(s, m, a)
        PROVE  \A p \in Refs : ref'[p].state = ref[p].state \/ ref[p].state \in {"IOWAIT", "ABWAIT"}
    <3>1. /\ ref[m.pr].state = "IOWAIT"
          /\ \E w, v : ref' = [ref EXCEPT ![m.pr].msg = Null, ![m.pr].state = "IODONE",
                                         ![m.pr].iowait = w, ![m.pr].svwait = v]
      BY <2>2 DEF ReplyDone, Wanted
    <3> QED  BY <1>0, <1>2, <3>1
  <2> QED  BY <2>1, <2>2
<1>4. \A c \in Clients : pc[c] = "opening" => ref'[R(c)].state = ref[R(c)].state
  BY <1>3, OpenStates
<1>5. \A c \in Clients : pc[c] = "kwait" /\ rep'[c] = "ok" => rep[c] = "ok"
  <2>1. CASE ReplyAbort(s, m) \/ ReplyRefused(s, m)
    BY <2>1 DEF ReplyAbort, ReplyRefused
  <2>2. ASSUME NEW a \in Answers, ReplyDone(s, m, a)
        PROVE  \A c \in Clients : pc[c] = "kwait" /\ rep'[c] = "ok" => rep[c] = "ok"
    <3>1. /\ ref[m.pr].state = "IOWAIT" /\ m.op \in {"IO", "DUP", "ABORT"}
          /\ a = "err" \/ ref[m.pr].msg.op # "DUP"
          /\ rep' = [rep EXCEPT ![ref[m.pr].msg.from] = a]
      BY <2>2, ZenonT(30) DEF ReplyDone, Wanted
    <3>2. m.op \in {"IO", "DUP"} /\ ref[m.pr].msg = m
      BY <1>2, <3>1 DEF StatesOf
    <3>3. m.op = "IO" => pc[m.from] \in {"iowait", "abwait"}
      BY <1>2 DEF WaitsFor
    <3>4. rep' = [rep EXCEPT ![m.from] = a] /\ (a = "err" \/ m.op # "DUP")
      BY <3>1, <3>2
    <3> QED  BY <1>0, <1>2, <3>2, <3>3, <3>4
  <2> QED  BY <2>1, <2>2
<1>6. pc[s] \notin {"rcvd", "dupwake", "duphash"} /\ pc'[s] \notin {"rcvd"} /\ port'.refs = port.refs
  BY <1>0, <1>1
<1> QED  BY <1>1, <1>4, <1>5, <1>6, RestLists

\* msg_accept(): the handle is known by now.
LEMMA AcceptLists ==
  ASSUME MsgAssumption, Inv, ListsOK, NEW s \in Servers, ClientsStay(s), NEW m \in held, MsgAccept(s, m)
  PROVE  ListsOK'
<1>0. ref \in [Refs -> WideRef] /\ m.pr \in Refs
  BY HeldFrom DEF Inv, Typed, KernelTyped
<1>1. /\ pc' = pc /\ got' = got /\ rep' = rep /\ port' = port /\ hash' = hash /\ held' \subseteq held
      /\ m.op = "CONNECT"
      /\ \/ ref' = ref
         \/ ref' = [ref EXCEPT ![m.pr].state = "IODONE", ![m.pr].iowait = VSema(@)]
  BY Zenon DEF MsgAccept, Answered
<1>2. m.pr \in port.refs \cap hash
  BY <1>1 DEF ListsOK
<1>3. InHands' = InHands
  BY <1>1 DEF InHands
<1>4. /\ \A n \in InHands' \cup held' : n.op = "CONNECT" => n.pr \in port'.refs
      /\ \A n \in held' : n.op = "CONNECT" => n.pr \in hash'
  BY <1>1, <1>3 DEF ListsOK
<1>5. \A p \in Refs : p # m.pr => ref'[p] = ref[p]
  BY <1>0, <1>1
<1>6. \A c \in Clients : pc[c] = "opening" /\ ref'[R(c)].state = "IODONE" =>
        ref[R(c)].state = "IODONE" \/ R(c) \in port'.refs \cap hash'
  BY <1>1, <1>2, <1>5, OpenStates
<1> QED  BY <1>1, <1>4, <1>6, ServerLists

\* msg_err(): a refused connection leaves list and hash, any other answer does not.
LEMMA ErrLists ==
  ASSUME MsgAssumption, Inv, ListsOK, NEW s \in Servers, ClientsStay(s), NEW m \in held, MsgErr(s, m)
  PROVE  ListsOK'
<1>0. /\ ref \in [Refs -> WideRef] /\ m.pr \in Refs /\ m \in Sendable /\ MessagesOK
      /\ port \in WidePort /\ rep \in [Clients -> {"none", "ok", "segs", "err"}]
  BY HeldFrom DEF Inv, Protocol, Typed, KernelTyped, ThreadsTyped
<1>1. /\ pc' = pc /\ got' = got
      /\ rep' = rep \/ \E c : rep' = [rep EXCEPT ![c] = "err"]
      /\ \/ ref' = ref
         \/ ref' = [ref EXCEPT ![m.pr].state = IF @ = "OPENING" THEN "ABDONE" ELSE "IODONE",
                               ![m.pr].iowait = VSema(@)]
      /\ m.op \in {"CONNECT", "IO", "DUP"}
  BY ZenonT(60) DEF MsgErr, ErrTold
<1>2. held' = held \ {m}
  BY <1>1 DEF MsgErr, Answered
<1>3. /\ hash' = hash \/ (ref[m.pr].state = "OPENING" /\ hash' = hash \ {m.pr})
      /\ port'.refs = port.refs \/ (ref[m.pr].state = "OPENING" /\ port'.refs = port.refs \ {m.pr})
  <2>1. /\ hash' = hash \/ (ref[m.pr].state = "OPENING" /\ hash' = hash \ {m.pr})
        /\ port' = port \/ (ref[m.pr].state = "OPENING" /\ port' = DerefPort(port, m.pr))
    BY ZenonT(60) DEF MsgErr
  <2> QED  BY <1>0, <2>1 DEF DerefPort, WidePort
<1>4. InHands' = InHands
  BY <1>1 DEF InHands
<1>5. \A n \in InHands \cup held' : n.op = "CONNECT" => n.pr # m.pr
  <2> SUFFICES ASSUME NEW n \in InHands \cup held', n.op = "CONNECT", n.pr = m.pr
               PROVE  FALSE
    OBVIOUS
  <2>1. n \in held \cup InHands /\ m \in InHands \cup held /\ m \in held
    BY <1>2
  <2>2. n = m
    BY <2>1, ConnectAlone
  <2>3. n \in InHands
    BY <1>2, <2>2
  <2>4. Aborts(n, m)
    BY <1>0, <2>3 DEF MessagesOK
  <2> QED  BY <2>4 DEF Aborts
<1>6. /\ \A n \in InHands' \cup held' : n.op = "CONNECT" => n.pr \in port'.refs
      /\ \A n \in held' : n.op = "CONNECT" => n.pr \in hash'
  <2>1. InHands' \cup held' \subseteq InHands \cup held
    BY <1>2, <1>4
  <2>2. /\ \A n \in InHands \cup held : n.op = "CONNECT" => n.pr \in port.refs
        /\ \A n \in held : n.op = "CONNECT" => n.pr \in hash
    BY DEF ListsOK
  <2>3. ASSUME NEW n \in InHands \cup held', n.op = "CONNECT"
        PROVE  n.pr \in port'.refs /\ (n \in held' => n.pr \in hash')
    <3>1. n.pr # m.pr /\ n.pr \in port.refs
      BY <1>4, <1>5, <2>1, <2>2, <2>3
    <3>2. n \in held' => n.pr \in hash
      BY <1>2, <2>2, <2>3
    <3> QED  BY <1>3, <3>1, <3>2
  <2> QED  BY <1>4, <2>3
<1>7. \A p \in Refs : p # m.pr => ref'[p] = ref[p]
  BY <1>0, <1>1
<1>8. ASSUME NEW c \in Clients, pc[c] = "opening", ref'[R(c)].state = "IODONE"
      PROVE  ref[R(c)].state = "IODONE"
  <2>1. CASE R(c) # m.pr
    BY <1>7, <1>8, <2>1, OpenStates
  <2>2. CASE R(c) = m.pr
    <3>1. ref[m.pr].state \in {"OPENING", "ABDONE", "IODONE"} /\ ref[m.pr].state \in StatesOf(m.op)
      BY <1>8, <2>2, OpenStates, HeldFrom
    <3>2. ref[m.pr].state = "OPENING"
      BY <1>1, <3>1 DEF StatesOf
    <3>3. ref' = ref \/ ref'[m.pr].state = "ABDONE"
      BY <1>0, <1>1, <3>2 DEF WideRef
    <3> QED  BY <1>8, <2>2, <3>2, <3>3
  <2> QED  BY <2>1, <2>2
<1>9. \A c \in Clients : rep'[c] = "ok" => rep[c] = "ok"
  BY <1>0, <1>1
<1>10. \A r \in Refs : ref[r].state \notin {"OPENING", "CLOSING"} =>
         /\ r \in port.refs => r \in port'.refs
         /\ r \in hash => r \in hash'
  BY <1>3
<1> QED  BY <1>1, <1>6, <1>8, <1>9, <1>10, ServerLists

\* msg_reply() grants a DUP: the new handle joins the list, the hash is next.
LEMMA GrantLists ==
  ASSUME MsgAssumption, Inv, ListsOK, NEW s \in Servers, ClientsStay(s), NEW m \in held, NEW a \in Answers,
         ReplyDup(s, m, a)
  PROVE  ListsOK'
<1>0. /\ pc \in [Threads -> ClientPcs \cup ServerPcs] /\ s \in Threads /\ port \in WidePort
      /\ ref \in [Refs -> WideRef] /\ rep \in [Clients -> {"none", "ok", "segs", "err"}]
      /\ got \in [Servers -> Sendable \cup Refs \cup {Null}]
  BY DEF Inv, Typed, KernelTyped, ThreadsTyped, ServerTyped, Threads
<1>1. /\ pc[s] = "out" /\ hash' = hash /\ held' \subseteq held /\ pc' = [pc EXCEPT ![s] = "dupwake"]
      /\ m.op \in {"IO", "DUP", "ABORT"} /\ ref[m.pr].state = "IOWAIT"
      /\ ref' = [ref EXCEPT ![m.pr].state = "IODONE"]
  BY DEF ReplyDup, Holds, Wanted, Answered, Goto
<1>2. /\ m.pr \in Refs /\ m.from \in Clients /\ R(m.from) = m.pr /\ ref[m.pr].state \in StatesOf(m.op)
      /\ m.op # "ABORT" /\ ref[m.pr].state # "ABWAIT" => ref[m.pr].msg = m
  BY HeldFrom
<1>3. ref[m.pr].msg = m
  BY <1>1, <1>2 DEF StatesOf
<1>4. /\ m.op = "DUP" /\ port' = RefPort(port, m.new) /\ got' = [got EXCEPT ![s] = m]
      /\ rep' = [rep EXCEPT ![m.from] = "ok"]
  BY <1>3 DEF ReplyDup
<1>5. m.new = my[m.from].new
  BY <1>4 DEF Inv, Protocol, MessagesOK, Known
<1>6. port'.refs = port.refs \cup {m.new}
  BY <1>0, <1>4 DEF RefPort, WidePort
<1>7. /\ pc'[s] = "dupwake" /\ got'[s] = m /\ \A u \in Servers : u # s => pc'[u] = pc[u] /\ got'[u] = got[u]
  BY <1>0, <1>1, <1>4 DEF ClientsStay
<1>8. InHands' = InHands
  <2>1. \A u \in Servers : pc'[u] = "rcvd" <=> pc[u] = "rcvd"
    BY <1>1, <1>7
  <2>2. \A u \in Servers : pc[u] = "rcvd" => got'[u] = got[u]
    BY <1>1, <1>7
  <2> QED  BY <2>1, <2>2 DEF InHands
<1>9. /\ \A n \in InHands' \cup held' : n.op = "CONNECT" => n.pr \in port'.refs
      /\ \A n \in held' : n.op = "CONNECT" => n.pr \in hash'
  BY <1>1, <1>6, <1>8 DEF ListsOK
<1>10. \A c \in Clients : pc[c] = "kwait" /\ rep'[c] = "ok" =>
         rep[c] = "ok" \/ (/\ my[c].new \in port'.refs
                           /\ \E u \in Servers : pc'[u] = "dupwake" /\ got'[u].pr = R(c)
                                                 /\ got'[u].new = my[c].new)
  <2> SUFFICES ASSUME NEW c \in Clients, rep'[c] = "ok", rep[c] # "ok"
               PROVE  /\ my[c].new \in port'.refs
                      /\ \E u \in Servers : pc'[u] = "dupwake" /\ got'[u].pr = R(c)
                                            /\ got'[u].new = my[c].new
    OBVIOUS
  <2>1. c = m.from
    BY <1>0, <1>4
  <2> QED  BY <1>2, <1>5, <1>6, <1>7, <2>1
<1>11. \A c \in Clients : pc[c] = "opening" /\ ref'[R(c)].state = "IODONE" => ref[R(c)].state = "IODONE"
  <2>1. \A p \in Refs : p # m.pr => ref'[p] = ref[p]
    BY <1>0, <1>1
  <2> QED  BY <1>1, <2>1, OpenStates
<1>12. \A r \in Refs : (r \in port.refs => r \in port'.refs) /\ (r \in hash => r \in hash')
  BY <1>1, <1>6
<1>13. /\ \A u \in Servers : pc[u] = "duphash" => pc'[u] = "duphash" /\ got'[u] = got[u]
       /\ \A u \in Servers : pc[u] = "dupwake" => pc'[u] \in {"dupwake", "duphash"} /\ got'[u] = got[u]
  BY <1>1, <1>7
<1> QED  BY <1>9, <1>10, <1>11, <1>12, <1>13, ServerLists

\* A step that changes nothing of all this.
LEMMA ListsKept ==
  ASSUME Inv, ListsOK, pc' = pc, my' = my, rep' = rep, slots' = slots, got' = got, hash' = hash, held' = held,
         port'.refs = port.refs, \A p \in Refs : ref'[p].state = ref[p].state
  PROVE  ListsOK'
<1>1. /\ \A r : Hashed(r)' <=> Hashed(r)
      /\ \A c \in Clients : Granted(c)' <=> Granted(c)
      /\ InHands' = InHands
  BY DEF Hashed, Granted, InHands, R
<1>2. \A c \in Clients : pc[c] = "opening" => ref'[R(c)].state = ref[R(c)].state
  BY OpenStates
<1>3. \A k \in Slots : InService(k)' => Hashed(slots[k])'
  BY <1>1 DEF ListsOK, InService, Hashed
<1>4. \A c \in Clients : pc'[c] = "kwait" /\ rep'[c] = "ok" => (Hashed(my[c].new) \/ Granted(c))'
  BY <1>1 DEF ListsOK, Hashed
<1>5. \A c \in Clients : pc'[c] = "opening" /\ X(c)'.state = "IODONE" => R(c)' \in port'.refs \cap hash'
  BY <1>2 DEF ListsOK, X, R
<1>6. /\ \A m \in InHands' \cup held' : m.op = "CONNECT" => m.pr \in port'.refs
      /\ \A m \in held' : m.op = "CONNECT" => m.pr \in hash'
  BY <1>1 DEF ListsOK
<1> QED  BY <1>3, <1>4, <1>5, <1>6 DEF ListsOK

\* An event changes neither a slot, nor the list, nor a state.
LEMMA SignalLists ==
  ASSUME MsgAssumption, Inv, ListsOK, NEW t \in Threads, Signal(t)
  PROVE  ListsOK'
<1>0. ref \in [Refs -> WideRef] /\ port \in WidePort
  BY DEF Inv, Typed, KernelTyped
<1>1. /\ pc' = pc /\ my' = my /\ rep' = rep /\ slots' = slots /\ got' = got /\ hash' = hash /\ held' = held
      /\ \/ ref' = ref
         \/ \E r, w : ref' = [ref EXCEPT ![r].sema = w]
         \/ \E r, w : ref' = [ref EXCEPT ![r].iowait = w]
      /\ \/ port' = port
         \/ \E w : port' = [port EXCEPT !.sema = w]
         \/ \E w : port' = [port EXCEPT !.wait = w]
  BY DEF Signal, clientVars, serverVars
<1>2. port'.refs = port.refs
  BY <1>0, <1>1 DEF WidePort
<1>3. ASSUME NEW p \in Refs
      PROVE  ref'[p].state = ref[p].state
  <2>1. CASE ref' = ref
    BY <2>1
  <2>2. CASE \E r, w : ref' = [ref EXCEPT ![r].sema = w]
    BY <1>0, <2>2 DEF WideRef
  <2>3. CASE \E r, w : ref' = [ref EXCEPT ![r].iowait = w]
    BY <1>0, <2>3 DEF WideRef
  <2> QED  BY <1>1, <2>1, <2>2, <2>3
<1> QED  BY <1>1, <1>2, <1>3, ListsKept

\* What is known of the handles is true throughout.
LEMMA ListsStep ==
  ASSUME MsgAssumption, Inv, port'.named, ListsOK, [Next]_vars
  PROVE  ListsOK'
<1>1. CASE UNCHANGED vars
  <2>1. /\ pc' = pc /\ my' = my /\ rep' = rep /\ slots' = slots /\ got' = got /\ hash' = hash /\ held' = held
        /\ ref' = ref /\ port' = port
    BY <1>1 DEF vars
  <2> QED  BY <2>1, ListsKept
<1>2. ASSUME NEW c \in Clients, ClientCalls(c) \/ ClientRuns(c)
      PROVE  ListsOK'
  <2>1. OthersStay(c)
    BY <1>2, ClientAlone DEF Inv
  <2>2. \/ \/ \E k \in Slots, r \in Refs : MsgConnect(c, k, r)
           \/ \E k \in Slots, kd \in Kinds : SendFind(c, k, kd)
           \/ \E k, j \in Slots : CloneFind(c, k, j)
           \/ \E k, j \in Slots : ForkPort(c, k, j)
           \/ \E k \in Slots : MsgDisconnect(c, k)
           \/ FindBroken(c) \/ ShutClient(c) \/ ShutDone(c)
        \/ MsgConnectDone(c)
        \/ CloneDone(c)
        \/ \/ SendPost(c) \/ \E n \in Refs : ClonePost(c, n)
           \/ SendDone(c) \/ CopyDone(c) \/ MapFails(c) \/ AbortDone(c) \/ IntrDone(c)
           \/ IntrGone(c) \/ IntrWithdraw(c) \/ IntrAbort(c) \/ SendMap(c)
    BY <1>2, Zenon DEF ClientCalls, ClientRuns
  <2>3. Lists(c)
    BY <2>2, CallsList, ConnectDoneLists, CloneDoneLists, ExchangeLists
  <2> QED  BY <2>1, <2>3, ClientLists
<1>3. ASSUME NEW s \in Servers,
             RecvFind(s) \/ ServerRuns(s) \/ ClosePort(s) \/ \E m \in held : ServerAnswers(s, m)
      PROVE  ListsOK'
  <2>1. /\ ClientsStay(s)
        /\ \/ RecvFind(s) \/ RecvWait(s) \/ RecvBroken(s) \/ RecvTake(s) \/ RecvNothing(s) \/ RecvReturn(s)
           \/ ReplyRuns(s) \/ DupWake(s) \/ DupHash(s) \/ ClosePort(s)
           \/ \E m \in held : ServerAnswers(s, m)
    BY <1>3, ServerAlone
  <2>2. ASSUME NEW m \in held, ServerAnswers(s, m)
        PROVE  ListsOK'
    <3>1. \/ MsgAccept(s, m) \/ MsgErr(s, m)
          \/ ReplyAbort(s, m) \/ ReplyRefused(s, m) \/ \E a \in Answers : ReplyDone(s, m, a)
          \/ \E a \in Answers : ReplyDup(s, m, a)
      BY <2>2, Zenon DEF ServerAnswers
    <3> QED  BY <2>1, <3>1, AcceptLists, ErrLists, ReplyLists, GrantLists
  <2> QED  BY <2>1, <2>2, ReceiveLists, TakeLists, ReturnLists
<1>4. CASE Next
  <2>1. \/ \E c \in Clients : ClientCalls(c) \/ ClientRuns(c)
        \/ \E s \in Servers : RecvFind(s) \/ ServerRuns(s) \/ ClosePort(s) \/ \E m \in held : ServerAnswers(s, m)
        \/ \E t \in Threads : Signal(t)
    BY <1>4, Zenon DEF Next
  <2> QED  BY <1>2, <1>3, <2>1, SignalLists
<1> QED  BY <1>1, <1>4

LEMMA ListsInit ==
  ASSUME MsgAssumption, Init
  PROVE  ListsOK
<1>1. /\ \A k \in Slots : slots[k] = Null
      /\ \A c \in Clients : pc[c] = "out"
      /\ \A s \in Servers : pc[s] = "out"
      /\ held = {}
  BY DEF Init, Threads
<1> QED  BY <1>1 DEF ListsOK, InService, InHands, MsgAssumption

\* Every handle a client can use is on the list of its port, and the server
\* that granted a clone of it is the only one who may not have hashed it yet:
\* accepts, refusals, grants and closes keep the three tables in step.
THEOREM HandlesRegistered ==
  ASSUME Orderly
  PROVE  Spec => []Registered
<1>1. Init => ListsOK
  BY MsgAssumption, ListsInit
<1>2. Inv /\ Inv' /\ ListsOK /\ [Next]_vars => ListsOK'
  BY MsgAssumption, ListsStep DEF Inv, Protocol, ServerStays
<1>3. ListsOK => Registered
  BY DEF ListsOK, Registered, Hashed
<1> QED  BY <1>1, <1>2, <1>3, Invariance, PTL DEF Spec

-----------------------------------------------------------------------------
(* A server in msg_reply() and the client it waits for.                    *)

NoneWaits(w) == w.q = << >> /\ w.cnt >= 0
OneWaits(w)  == w.q # << >> /\ Tail(w.q) = << >> /\ w.cnt = -1

\* c has the segments of an answer on handle r to copy.
SegmentsAt(c, r) ==
  R(c) = r /\ (pc[c] = "copy" \/ (pc[c] = "iowait" /\ rep[c] = "segs"))

SegmentsOK ==
  \A r \in Refs :
    \/ NoneWaits(ref[r].svwait)
    \/ OneWaits(ref[r].svwait) /\ \E c \in Clients : SegmentsAt(c, r)

\* A unit for p_svwait lets the one who waits there go.
LEMMA SvwaitGiven ==
  ASSUME NEW w \in SemaType(Servers), NoneWaits(w) \/ OneWaits(w)
  PROVE  NoneWaits(VSema(w))
<1>1. w.q \in Seq(Servers) /\ w.cnt \in Int
  BY DEF SemaType
<1>2. CASE NoneWaits(w)
  BY <1>1, <1>2 DEF NoneWaits, VSema, SemaType
<1>3. CASE OneWaits(w)
  BY <1>1, <1>3 DEF NoneWaits, OneWaits, VSema
<1> QED  BY <1>2, <1>3

\* msg_reply() clears the units away, so that its caller does wait.
LEMMA SvwaitTaken ==
  ASSUME NEW w \in SemaType(Servers), NEW s \in Servers, NoneWaits(w)
  PROVE  OneWaits(Handover(w, s))
<1>1. SetSema(w, 0) = [cnt |-> 0, q |-> << >>]
  BY DEF NoneWaits, SetSema, SemaType
<1>2. Handover(w, s) = [cnt |-> -1, q |-> <<s>>]
  BY <1>1 DEF Handover, PSema
<1> QED  BY <1>2 DEF OneWaits

\* What a client's step may do to it: it lets the server go, or leaves it
\* alone, and then it does not drop segments that somebody waits for.
Tended(c) ==
  \A p \in Refs :
    \/ NoneWaits(ref'[p].svwait)
    \/ ref'[p].svwait = ref[p].svwait /\ (SegmentsAt(c, p) => SegmentsAt(c, p)')

LEMMA ClientTends ==
  ASSUME SegmentsOK, NEW c \in Clients, OthersStay(c), Tended(c)
  PROVE  SegmentsOK'
<1> SUFFICES ASSUME NEW r \in Refs, ~NoneWaits(ref'[r].svwait)
             PROVE  OneWaits(ref'[r].svwait) /\ \E d \in Clients : SegmentsAt(d, r)'
  BY DEF SegmentsOK, NoneWaits, OneWaits
<1>1. ref'[r].svwait = ref[r].svwait /\ (SegmentsAt(c, r) => SegmentsAt(c, r)')
  BY DEF Tended
<1>2. PICK d \in Clients : OneWaits(ref[r].svwait) /\ SegmentsAt(d, r)
  BY <1>1 DEF SegmentsOK
<1>3. SegmentsAt(d, r)'
  BY <1>1, <1>2 DEF OthersStay, SegmentsAt, R
<1> QED  BY <1>1, <1>2, <1>3

\* On the handle of a call that is not about to copy, nobody waits.
LEMMA NobodyWaits ==
  ASSUME MsgAssumption, Inv, SegmentsOK, NEW c \in Clients, InExchange(c), ~SegmentsAt(c, R(c))
  PROVE  NoneWaits(X(c).svwait)
<1>1. Has(c) /\ R(c) \in Refs
  BY WaitersHave DEF Waiting, InExchange, Inv, Typed, LocalsSet
<1>2. ASSUME NEW d \in Clients, SegmentsAt(d, R(c))
      PROVE  FALSE
  <2>1. Has(d) /\ R(d) = R(c)
    BY <1>2, WaitersHave DEF SegmentsAt, Waiting, InExchange
  <2>2. d = c
    BY <1>1, <2>1, OneCall
  <2> QED  BY <1>2, <2>2
<1> QED  BY <1>1, <1>2 DEF SegmentsOK, X, R

\* A thread that has no answer yet drops no segments.
LEMMA QuietTends ==
  ASSUME NEW c \in Clients, pc[c] \notin {"iowait", "copy"},
         \A p \in Refs : ref'[p].svwait = ref[p].svwait \/ ref'[p].svwait = NewSema(0)
  PROVE  Tended(c)
<1>1. NoneWaits(NewSema(0))
  BY DEF NoneWaits, NewSema
<1> QED  BY <1>1 DEF Tended, SegmentsAt

LEMMA CallsTend ==
  ASSUME MsgAssumption, Inv, NEW c \in Clients,
         \/ \E k \in Slots, r \in Refs : MsgConnect(c, k, r)
         \/ \E k \in Slots, kd \in Kinds : SendFind(c, k, kd)
         \/ \E k, j \in Slots : CloneFind(c, k, j) \/ ForkPort(c, k, j)
         \/ \E k \in Slots : MsgDisconnect(c, k)
         \/ FindBroken(c) \/ ShutClient(c) \/ ShutDone(c) \/ MsgConnectDone(c)
         \/ SendPost(c) \/ \E n \in Refs : ClonePost(c, n)
  PROVE  Tended(c)
<1>0. ref \in [Refs -> WideRef]
  BY DEF Inv, Typed, KernelTyped
<1>1. pc[c] \notin {"iowait", "copy"}
  BY ZenonT(60) DEF MsgConnect, SendFind, CloneFind, ForkPort, MsgDisconnect, FindBroken, ShutClient, ShutDone,
         MsgConnectDone, SendPost, ClonePost, Awake, Broken
<1>2. ASSUME NEW k \in Slots, NEW r \in Refs, MsgConnect(c, k, r)
      PROVE  Tended(c)
  <2>1. PICK z : z = [NewRef("OPENING") EXCEPT !.iowait = PSema(@, c)]
    OBVIOUS
  <2>2. ref' = [ref EXCEPT ![r] = z] /\ z.svwait = NewSema(0)
    BY <1>2, <2>1 DEF MsgConnect, NewRef
  <2> QED  BY <1>0, <1>1, <2>2, QuietTends
<1>3. ASSUME NEW n \in Refs, ClonePost(c, n)
      PROVE  Tended(c)
  <2>1. \/ ref' = [ref EXCEPT ![n] = DupRef, ![R(c)].state = "IOWAIT", ![R(c)].iowait = PSema(@, c)]
        \/ ref' = [ref EXCEPT ![R(c)].sema = VSema(@)]
    BY <1>3, Zenon DEF ClonePost
  <2>2. DupRef.svwait = NewSema(0)
    BY DEF DupRef, NewRef
  <2>3. PICK z : z = DupRef
    OBVIOUS
  <2>4. CASE ref' = [ref EXCEPT ![R(c)].sema = VSema(@)]
    BY <1>0, <1>1, <2>4, QuietTends DEF WideRef
  <2>5. CASE ref' = [ref EXCEPT ![n] = DupRef, ![R(c)].state = "IOWAIT", ![R(c)].iowait = PSema(@, c)]
    <3>1. ref' = [ref EXCEPT ![n] = z, ![R(c)].state = "IOWAIT", ![R(c)].iowait = PSema(@, c)]
      BY <2>3, <2>5
    <3>2. ~ref[n].alloc /\ pc[c] = "cfind"
      BY <1>3 DEF ClonePost, Awake
    <3>3. n # R(c)
      BY <3>2 DEF Inv, Protocol, TablesOK, UsersOK, Using
    <3>4. \A p \in Refs : ref'[p].svwait = ref[p].svwait \/ ref'[p].svwait = NewSema(0)
      BY <1>0, <2>2, <2>3, <3>1, <3>3 DEF WideRef
    <3> QED  BY <1>1, <3>4, QuietTends
  <2> QED  BY <2>1, <2>4, <2>5
<1>4. CASE ShutClient(c) \/ MsgConnectDone(c)
  <2>1. \/ ref' = ref
        \/ ref' = [ref EXCEPT ![R(c)] = FreeRef]
        \/ ref' = [ref EXCEPT ![R(c)].state = "CLOSING", ![R(c)].sema = PSema(@, c)]
    BY <1>4, Zenon DEF ShutClient, MsgConnectDone
  <2>2. PICK z : z = FreeRef
    OBVIOUS
  <2>3. z.svwait = NewSema(0)
    BY <2>2 DEF FreeRef
  <2>4. CASE ref' = ref
    BY <1>1, <2>4, QuietTends
  <2>5. CASE ref' = [ref EXCEPT ![R(c)] = FreeRef]
    BY <1>0, <1>1, <2>2, <2>3, <2>5, QuietTends
  <2>6. CASE ref' = [ref EXCEPT ![R(c)].state = "CLOSING", ![R(c)].sema = PSema(@, c)]
    BY <1>0, <1>1, <2>6, QuietTends DEF WideRef
  <2> QED  BY <2>1, <2>4, <2>5, <2>6
<1>5. CASE \/ \E k \in Slots, kd \in Kinds : SendFind(c, k, kd)
           \/ \E k, j \in Slots : CloneFind(c, k, j) \/ ForkPort(c, k, j)
           \/ \E k \in Slots : MsgDisconnect(c, k)
           \/ FindBroken(c) \/ ShutDone(c) \/ SendPost(c)
  <2>1. \/ ref' = ref
        \/ \E r, w : ref' = [ref EXCEPT ![r].sema = w]
        \/ \E r, w : ref' = [ref EXCEPT ![r].refs = w]
        \/ \E w : ref' = [ref EXCEPT ![R(c)].state = "IOWAIT", ![R(c)].iowait = w]
    BY <1>5, ZenonT(60) DEF SendFind, CloneFind, ForkPort, MsgDisconnect, FindBroken, ShutDone, SendPost
  <2>2. CASE ref' = ref
    BY <1>1, <2>2, QuietTends
  <2>3. CASE \E r, w : ref' = [ref EXCEPT ![r].sema = w]
    BY <1>0, <1>1, <2>3, QuietTends DEF WideRef
  <2>4. CASE \E r, w : ref' = [ref EXCEPT ![r].refs = w]
    BY <1>0, <1>1, <2>4, QuietTends DEF WideRef
  <2>5. CASE \E w : ref' = [ref EXCEPT ![R(c)].state = "IOWAIT", ![R(c)].iowait = w]
    BY <1>0, <1>1, <2>5, QuietTends DEF WideRef
  <2> QED  BY <2>1, <2>2, <2>3, <2>4, <2>5
<1> QED  BY <1>2, <1>3, <1>4, <1>5, ZenonT(30)

\* A thread leaves its exchange, and nobody waits on its handle any more.
LEMMA LeaveTends ==
  ASSUME MsgAssumption, Inv, NEW c \in Clients, R(c) \in Refs, NEW x \in WideRef, NEW b,
         ref' = [ref EXCEPT ![R(c)] = Out(x, b)],
         NoneWaits(x.svwait) \/ (b = TRUE /\ OneWaits(x.svwait))
  PROVE  Tended(c)
<1>0. ref \in [Refs -> WideRef] /\ x.svwait \in SemaType(Servers)
  BY DEF Inv, Typed, KernelTyped, WideRef
<1>1. (b /\ Out(x, b).svwait = VSema(x.svwait)) \/ (~b /\ Out(x, b).svwait = x.svwait)
  BY DEF Out, WideRef
<1>2. NoneWaits(Out(x, b).svwait)
  BY <1>0, <1>1, SvwaitGiven
<1>3. ref'[R(c)] = Out(x, b) /\ \A p \in Refs : p # R(c) => ref'[p] = ref[p]
  BY <1>0
<1>4. \A p \in Refs : p # R(c) => ~SegmentsAt(c, p)
  BY DEF SegmentsAt
<1> QED  BY <1>2, <1>3, <1>4 DEF Tended

\* The ways out of an exchange, and what comes between.
LEMMA DoneTends ==
  ASSUME MsgAssumption, Inv, SegmentsOK, NEW c \in Clients,
         SendDone(c) \/ CopyDone(c) \/ AbortDone(c) \/ IntrWithdraw(c)
  PROVE  Tended(c)
<1>1. InExchange(c) /\ pc[c] \in {"iowait", "copy", "abwait"}
  BY DEF SendDone, CopyDone, AbortDone, IntrWithdraw, Interrupted, Awake, Broken, InExchange
<1>2. PICK x \in WideRef : R(c) \in Refs /\ x = ref[R(c)]
  BY <1>1 DEF InExchange, Inv, Typed, KernelTyped, LocalsSet
<1>3. CASE CopyDone(c)
  <2>1. ref' = [ref EXCEPT ![R(c)] = Out(x, TRUE)]
    BY <1>2, <1>3 DEF CopyDone
  <2>2. NoneWaits(x.svwait) \/ OneWaits(x.svwait)
    BY <1>2 DEF SegmentsOK
  <2> QED  BY <1>2, <2>1, <2>2, LeaveTends
<1>4. CASE SendDone(c) \/ AbortDone(c)
  <2>1. ~SegmentsAt(c, R(c))
    BY <1>4 DEF SendDone, AbortDone, Awake, SegmentsAt
  <2>2. NoneWaits(x.svwait)
    BY <1>1, <1>2, <2>1, NobodyWaits DEF X, R
  <2>3. \E b : ref' = [ref EXCEPT ![R(c)] = Out(x, b)]
    BY <1>2, <1>4 DEF SendDone, AbortDone
  <2> QED  BY <1>2, <2>2, <2>3, LeaveTends
<1>5. CASE IntrWithdraw(c)
  <2>1. Interrupted(c) /\ pc[c] = "iowait"
    BY <1>5 DEF IntrWithdraw, Interrupted, Broken
  <2>2. rep[c] = "none"
    BY <2>1, InterruptedCall
  <2>3. NoneWaits(x.svwait)
    BY <1>1, <1>2, <2>1, <2>2, NobodyWaits DEF X, R, SegmentsAt
  <2>4. PICK y : y = [x EXCEPT !.state = "IODONE"]
    OBVIOUS
  <2>5. y \in WideRef /\ y.svwait = x.svwait
    BY <2>4 DEF WideRef, States
  <2>6. ref' = [ref EXCEPT ![R(c)] = Out(y, my[c].nseg)]
    BY <1>2, <1>5, <2>4 DEF IntrWithdraw
  <2> QED  BY <1>2, <2>3, <2>5, <2>6, LeaveTends
<1> QED  BY <1>3, <1>4, <1>5

LEMMA RaceTends ==
  ASSUME MsgAssumption, Inv, SegmentsOK, NEW c \in Clients, IntrDone(c)
  PROVE  Tended(c)
<1>1. pc[c] = "iowait"
  BY DEF IntrDone, Broken
<1>2. PICK x \in WideRef : R(c) \in Refs /\ x = ref[R(c)]
  BY <1>1 DEF Inv, Typed, KernelTyped, LocalsSet
<1>3. NoneWaits(x.svwait) \/ OneWaits(x.svwait)
  BY <1>2 DEF SegmentsOK
<1>4. PICK y : y = TakeBack(x)
  OBVIOUS
<1>5. y \in WideRef /\ y.svwait = IF Blocked(x.svwait) THEN VSema(x.svwait) ELSE x.svwait
  BY <1>4, RefsTyped DEF TakeBack, WideRef
<1>6. NoneWaits(y.svwait)
  <2>1. x.svwait \in SemaType(Servers)
    BY DEF WideRef
  <2>2. NoneWaits(VSema(x.svwait))
    BY <1>3, <2>1, SvwaitGiven
  <2>3. NoneWaits(x.svwait) => ~Blocked(x.svwait)
    BY <2>1 DEF NoneWaits, Blocked, SemaType
  <2>4. OneWaits(x.svwait) => Blocked(x.svwait)
    BY <2>1 DEF OneWaits, Blocked, SemaType
  <2> QED  BY <1>3, <1>5, <2>2, <2>3, <2>4
<1>7. ref' = [ref EXCEPT ![R(c)] = Out(y, my[c].nseg)]
  BY <1>2, <1>4 DEF IntrDone
<1> QED  BY <1>2, <1>5, <1>6, <1>7, LeaveTends

LEMMA CloneDoneTends ==
  ASSUME MsgAssumption, Inv, SegmentsOK, NEW c \in Clients, CloneDone(c)
  PROVE  Tended(c)
<1>1. pc[c] = "kwait" /\ InExchange(c)
  BY DEF CloneDone, Awake, InExchange
<1>2. PICK x \in WideRef, n \in Refs : R(c) \in Refs /\ x = ref[R(c)] /\ n = my[c].new
  BY <1>1 DEF InExchange, Inv, Typed, KernelTyped, LocalsSet
<1>3. NoneWaits(x.svwait)
  BY <1>1, <1>2, NobodyWaits DEF X, R, SegmentsAt
<1>4. PICK z, f : z = Out(x, TRUE) /\ f = FreeRef
  OBVIOUS
<1>5. z.svwait = VSema(x.svwait) /\ x.svwait \in SemaType(Servers) /\ f.svwait = NewSema(0)
  BY <1>4 DEF Out, WideRef, FreeRef
<1>6. NoneWaits(z.svwait) /\ NoneWaits(f.svwait)
  BY <1>3, <1>5, SvwaitGiven DEF NoneWaits, NewSema
<1>7. ref \in [Refs -> WideRef] /\ n # R(c)
  BY <1>1, <1>2 DEF Inv, Typed, KernelTyped, Protocol, TablesOK, NewOK, Using
<1>8. \E b \in BOOLEAN : ref' = [ref EXCEPT ![R(c)] = z, ![n] = IF b THEN @ ELSE f]
  BY <1>2, <1>4 DEF CloneDone
<1>9. /\ ref'[R(c)] = z /\ (ref'[n] = f \/ ref'[n] = ref[n])
      /\ \A p \in Refs : p # R(c) /\ p # n => ref'[p] = ref[p]
  BY <1>2, <1>7, <1>8
<1>10. \A p \in Refs : ~SegmentsAt(c, p)
  BY <1>1 DEF SegmentsAt
<1> QED  BY <1>6, <1>9, <1>10 DEF Tended

LEMMA StayTends ==
  ASSUME MsgAssumption, Inv, NEW c \in Clients, SendMap(c) \/ IntrAbort(c) \/ IntrGone(c)
  PROVE  Tended(c)
<1>0. /\ ref \in [Refs -> WideRef] /\ pc \in [Threads -> ClientPcs \cup ServerPcs] /\ c \in Threads
  BY DEF Inv, Typed, KernelTyped, ThreadsTyped, Threads
<1>1. CASE SendMap(c)
  <2>1. ref' = ref /\ my' = my /\ pc' = [pc EXCEPT ![c] = "copy"]
    BY <1>1 DEF SendMap, Goto
  <2>2. \A p \in Refs : SegmentsAt(c, p) => SegmentsAt(c, p)'
    BY <1>0, <2>1 DEF SegmentsAt, R
  <2> QED  BY <2>1, <2>2 DEF Tended
<1>2. CASE IntrAbort(c)
  <2>1. rep[c] = "none" /\ pc[c] = "iowait"
    BY <1>2, InterruptedCall DEF IntrAbort, Interrupted, Broken
  <2>2. \E w : ref' = [ref EXCEPT ![R(c)].state = "ABWAIT", ![R(c)].iowait = w]
    BY <1>2 DEF IntrAbort
  <2>3. \A p \in Refs : ref'[p].svwait = ref[p].svwait
    BY <1>0, <2>2 DEF WideRef
  <2> QED  BY <2>1, <2>3 DEF Tended, SegmentsAt
<1>3. CASE IntrGone(c)
  BY <1>3, IntrGoneOK
<1> QED  BY <1>1, <1>2, <1>3

\* A server's step: answers come to calls that had none, and whoever waits
\* waits for a client who copies.
LEMMA ServerTends ==
  ASSUME SegmentsOK, NEW s \in Servers, ClientsStay(s),
         \A c \in Clients : rep'[c] = rep[c] \/ rep[c] = "none",
         \A p \in Refs :
           \/ ref'[p].svwait = ref[p].svwait
           \/ NoneWaits(ref'[p].svwait)
           \/ OneWaits(ref'[p].svwait) /\ \E c \in Clients : R(c) = p /\ pc[c] = "iowait" /\ rep'[c] = "segs"
  PROVE  SegmentsOK'
<1>1. \A c \in Clients, p \in Refs : SegmentsAt(c, p) /\ rep[c] # "none" => SegmentsAt(c, p)'
  BY DEF ClientsStay, SegmentsAt, R
<1>2. \A c \in Clients, p \in Refs : pc[c] = "copy" /\ SegmentsAt(c, p) => SegmentsAt(c, p)'
  BY DEF ClientsStay, SegmentsAt, R
<1>3. \A c \in Clients, p \in Refs : SegmentsAt(c, p) => SegmentsAt(c, p)'
  BY <1>1, <1>2 DEF SegmentsAt
<1>4. ASSUME NEW p \in Refs, OneWaits(ref'[p].svwait), NEW c \in Clients,
             R(c) = p, pc[c] = "iowait", rep'[c] = "segs"
      PROVE  SegmentsAt(c, p)'
  BY <1>4 DEF ClientsStay, SegmentsAt, R
<1> SUFFICES ASSUME NEW p \in Refs
             PROVE  \/ NoneWaits(ref'[p].svwait)
                    \/ OneWaits(ref'[p].svwait) /\ \E c \in Clients : SegmentsAt(c, p)'
  BY DEF SegmentsOK, NoneWaits, OneWaits
<1>5. CASE ref'[p].svwait = ref[p].svwait
  BY <1>3, <1>5 DEF SegmentsOK
<1>6. CASE NoneWaits(ref'[p].svwait)
  BY <1>6
<1>7. CASE OneWaits(ref'[p].svwait) /\ \E c \in Clients : R(c) = p /\ pc[c] = "iowait" /\ rep'[c] = "segs"
  BY <1>4, <1>7
<1> QED  BY <1>5, <1>6, <1>7

\* An answer with segments goes to a client on whose handle nobody waits yet.
LEMMA HandoverTends ==
  ASSUME MsgAssumption, Inv, SegmentsOK, NEW s \in Servers, NEW m \in held, NEW a \in Answers,
         ReplyDone(s, m, a)
  PROVE  \A p \in Refs :
           \/ ref'[p].svwait = ref[p].svwait
           \/ OneWaits(ref'[p].svwait) /\ \E c \in Clients : R(c) = p /\ pc[c] = "iowait" /\ rep'[c] = "segs"
<1>0. ref \in [Refs -> WideRef] /\ rep \in [Clients -> {"none", "ok", "segs", "err"}]
  BY DEF Inv, Typed, KernelTyped, ThreadsTyped
<1>1. /\ m.op \in {"IO", "DUP", "ABORT"} /\ ref[m.pr].state = "IOWAIT"
  BY DEF ReplyDone, Wanted
<1>2. /\ m.pr \in Refs /\ m.from \in Clients /\ R(m.from) = m.pr /\ Waiting(m.from)
      /\ pc[m.from] \in WaitsFor(m.op) /\ ref[m.pr].state \in StatesOf(m.op)
  BY HeldFrom
<1>3. m.op \in {"IO", "DUP"}
  BY <1>1, <1>2 DEF StatesOf
<1>4. ref[m.pr].msg = m /\ rep[m.from] = "none" /\ pc[m.from] \in {"opening", "iowait", "kwait"}
  BY <1>1, <1>3, AnswerFinds
<1>5. /\ a = "err" \/ m.op # "DUP"
      /\ rep' = [rep EXCEPT ![m.from] = a]
      /\ ref' = [ref EXCEPT ![m.pr].msg = Null, ![m.pr].state = "IODONE", ![m.pr].iowait = VSema(@),
                            ![m.pr].svwait = IF a = "segs" THEN Handover(@, s) ELSE @]
  BY <1>4 DEF ReplyDone
<1>6. CASE a # "segs"
  BY <1>0, <1>2, <1>5, <1>6 DEF WideRef
<1>7. CASE a = "segs"
  <2>1. pc[m.from] = "iowait"
    BY <1>2, <1>3, <1>4, <1>5, <1>7 DEF WaitsFor
  <2>2. NoneWaits(X(m.from).svwait)
    BY <1>2, <1>4, <2>1, NobodyWaits DEF InExchange, SegmentsAt
  <2>3. PICK w : w = ref[m.pr].svwait
    OBVIOUS
  <2>4. NoneWaits(w) /\ w \in SemaType(Servers)
    BY <1>0, <1>2, <2>2, <2>3 DEF X, R, WideRef
  <2>5. OneWaits(Handover(w, s))
    BY <2>4, SvwaitTaken
  <2>6. ref'[m.pr].svwait = Handover(w, s) /\ \A p \in Refs : p # m.pr => ref'[p] = ref[p]
    BY <1>0, <1>2, <1>5, <1>7, <2>3 DEF WideRef
  <2>7. rep'[m.from] = "segs"
    BY <1>0, <1>2, <1>5, <1>7
  <2> QED  BY <1>2, <2>1, <2>5, <2>6, <2>7
<1> QED  BY <1>6, <1>7

\* All else that a server does leaves p_svwait alone, or frees the handle.
LEMMA ServersTend ==
  ASSUME MsgAssumption, Inv, SegmentsOK, NEW s \in Servers, ClientsStay(s),
         \/ RecvFind(s) \/ RecvWait(s) \/ RecvBroken(s) \/ RecvTake(s) \/ RecvNothing(s) \/ RecvReturn(s)
         \/ ReplyRuns(s) \/ DupWake(s) \/ DupHash(s)
         \/ \E m \in held : ServerAnswers(s, m),
         \A c \in Clients : rep'[c] = rep[c] \/ rep[c] = "none"
  PROVE  SegmentsOK'
<1>0. ref \in [Refs -> WideRef]
  BY DEF Inv, Typed, KernelTyped
<1>1. ASSUME NEW m \in held, NEW a \in Answers, ReplyDone(s, m, a)
      PROVE  SegmentsOK'
  BY <1>1, HandoverTends, ServerTends
<1>2. CASE RecvReturn(s)
  <2>1. PICK z : z = FreeRef
    OBVIOUS
  <2>2. NoneWaits(z.svwait)
    BY <2>1 DEF FreeRef, NoneWaits, NewSema
  <2>3. ref' = ref \/ \E r : ref' = [ref EXCEPT ![r] = z]
    BY <1>2, <2>1, ZenonT(60) DEF RecvReturn
  <2>4. \A p \in Refs : ref'[p] = ref[p] \/ NoneWaits(ref'[p].svwait)
    BY <1>0, <2>2, <2>3
  <2> QED  BY <2>4, ServerTends
<1>3. CASE ~RecvReturn(s) /\ ~\E m \in held, a \in Answers : ReplyDone(s, m, a)
  <2>1. \/ ref' = ref
        \/ \E r, w : ref' = [ref EXCEPT ![r].msg = w]
        \/ \E r, w : ref' = [ref EXCEPT ![r].iowait = w]
        \/ \E r, w : ref' = [ref EXCEPT ![r].state = w]
        \/ \E r, v, w : ref' = [ref EXCEPT ![r].state = v, ![r].iowait = w]
    <3>1. CASE RecvFind(s) \/ RecvWait(s) \/ RecvBroken(s) \/ RecvTake(s) \/ RecvNothing(s)
      BY <3>1, ZenonT(60) DEF RecvFind, RecvWait, RecvBroken, RecvTake, RecvNothing
    <3>2. CASE ReplyRuns(s) \/ DupWake(s) \/ DupHash(s)
      BY <3>2, ZenonT(60) DEF ReplyRuns, DupWake, DupHash
    <3>3. ASSUME NEW m \in held, ServerAnswers(s, m)
          PROVE  \/ ref' = ref
                 \/ \E r, w : ref' = [ref EXCEPT ![r].state = w]
                 \/ \E r, v, w : ref' = [ref EXCEPT ![r].state = v, ![r].iowait = w]
      <4>1. MsgAccept(s, m) \/ MsgErr(s, m) \/ ReplyAbort(s, m) \/ ReplyRefused(s, m)
            \/ \E a \in Answers : ReplyDup(s, m, a)
        BY <1>3, <3>3, Zenon DEF ServerAnswers
      <4>2. CASE MsgErr(s, m)
        <5>1. \/ ref' = ref
              \/ ref' = [ref EXCEPT ![m.pr].state = IF @ = "OPENING" THEN "ABDONE" ELSE "IODONE",
                                    ![m.pr].iowait = VSema(@)]
          BY <4>2, ZenonT(60) DEF MsgErr
        <5> QED  BY <5>1
      <4>3. CASE MsgAccept(s, m) \/ ReplyAbort(s, m) \/ ReplyRefused(s, m)
        BY <4>3, ZenonT(60) DEF MsgAccept, ReplyAbort, ReplyRefused
      <4>4. CASE \E a \in Answers : ReplyDup(s, m, a)
        BY <4>4, ZenonT(60) DEF ReplyDup
      <4> QED  BY <4>1, <4>2, <4>3, <4>4
    <3> QED  BY <1>3, <3>1, <3>2, <3>3, Zenon
  <2>2. CASE ref' = ref
    BY <2>2, ServerTends
  <2>3. CASE \E r, w : ref' = [ref EXCEPT ![r].msg = w]
    BY <1>0, <2>3, ServerTends DEF WideRef
  <2>4. CASE \E r, w : ref' = [ref EXCEPT ![r].iowait = w]
    BY <1>0, <2>4, ServerTends DEF WideRef
  <2>5. CASE \E r, w : ref' = [ref EXCEPT ![r].state = w]
    BY <1>0, <2>5, ServerTends DEF WideRef
  <2>6. CASE \E r, v, w : ref' = [ref EXCEPT ![r].state = v, ![r].iowait = w]
    BY <1>0, <2>6, ServerTends DEF WideRef
  <2> QED  BY <2>1, <2>2, <2>3, <2>4, <2>5, <2>6
<1> QED  BY <1>1, <1>2, <1>3

LEMMA SegmentsStep ==
  ASSUME MsgAssumption, Orderly, "nomap" \notin Does, Inv, Inv', SegmentsOK, [Next]_vars
  PROVE  SegmentsOK'
<1>1. ASSUME ref' = ref, pc' = pc, my' = my, rep' = rep
      PROVE  SegmentsOK'
  BY <1>1 DEF SegmentsOK, SegmentsAt, R
<1>2. ASSUME NEW c \in Clients, ClientCalls(c) \/ ClientRuns(c)
      PROVE  SegmentsOK'
  <2>1. OthersStay(c)
    BY <1>2, ClientAlone DEF Inv
  <2>2. \/ \/ \E k \in Slots, r \in Refs : MsgConnect(c, k, r)
           \/ \E k \in Slots, kd \in Kinds : SendFind(c, k, kd)
           \/ \E k, j \in Slots : CloneFind(c, k, j) \/ ForkPort(c, k, j)
           \/ \E k \in Slots : MsgDisconnect(c, k)
           \/ FindBroken(c) \/ ShutClient(c) \/ ShutDone(c) \/ MsgConnectDone(c)
           \/ SendPost(c) \/ \E n \in Refs : ClonePost(c, n)
        \/ SendDone(c) \/ CopyDone(c) \/ AbortDone(c) \/ IntrWithdraw(c)
        \/ IntrDone(c)
        \/ CloneDone(c)
        \/ SendMap(c) \/ IntrAbort(c) \/ IntrGone(c)
        \/ MapFails(c)
    BY <1>2, Zenon DEF ClientCalls, ClientRuns
  <2>3. ~MapFails(c)
    BY DEF MapFails
  <2>4. Tended(c)
    BY <2>2, <2>3, CallsTend, DoneTends, RaceTends, CloneDoneTends, StayTends
  <2> QED  BY <2>1, <2>4, ClientTends
<1>3. ASSUME NEW s \in Servers,
             RecvFind(s) \/ ServerRuns(s) \/ ClosePort(s) \/ \E m \in held : ServerAnswers(s, m)
      PROVE  SegmentsOK'
  <2>1. /\ ClientsStay(s)
        /\ \/ RecvFind(s) \/ RecvWait(s) \/ RecvBroken(s) \/ RecvTake(s) \/ RecvNothing(s) \/ RecvReturn(s)
           \/ ReplyRuns(s) \/ DupWake(s) \/ DupHash(s)
           \/ \E m \in held : ServerAnswers(s, m)
    BY <1>3, ServerOrderly
  <2>2. rep' = rep \/ \E m \in held : ServerAnswers(s, m)
    BY <2>1, ZenonT(60) DEF RecvFind, RecvWait, RecvBroken, RecvTake, RecvNothing, RecvReturn, ReplyRuns, DupWake, DupHash
  <2>3. \A c \in Clients : rep'[c] = "none" => rep[c] = "none"
    <3>1. rep \in [Clients -> {"none", "ok", "segs", "err"}]
      BY DEF Inv, Typed, ThreadsTyped
    <3>2. \A m \in held : ServerAnswers(s, m) => rep' = rep \/ \E c, a : a # "none" /\ rep' = [rep EXCEPT ![c] = a]
      <4>1. \A a \in Answers : a # "none"
        BY DEF Answers
      <4>2. \A m \in held, a \in Answers : ReplyDone(s, m, a) =>
              \E c, b : b # "none" /\ rep' = [rep EXCEPT ![c] = b]
        BY <4>1, Zenon DEF ReplyDone
      <4>3. \A m \in held, a \in Answers : ReplyDup(s, m, a) =>
              \E c, b : b # "none" /\ rep' = [rep EXCEPT ![c] = b]
        BY Zenon DEF ReplyDup
      <4>4. \A m \in held : MsgErr(s, m) => rep' = rep \/ \E c, b : b # "none" /\ rep' = [rep EXCEPT ![c] = b]
        BY Zenon DEF MsgErr, ErrTold
      <4>5. \A m \in held : MsgAccept(s, m) \/ ReplyAbort(s, m) \/ ReplyRefused(s, m) => rep' = rep
        BY Zenon DEF MsgAccept, ReplyAbort, ReplyRefused
      <4> QED  BY <4>2, <4>3, <4>4, <4>5, Zenon DEF ServerAnswers
    <3> QED  BY <2>2, <3>1, <3>2
  <2>4. \A c \in Clients : rep'[c] = rep[c] \/ rep[c] = "none"
    BY <2>3, RepStep DEF Inv, Protocol, ServerStays
  <2> QED  BY <2>1, <2>4, ServersTend
<1>4. ASSUME NEW t \in Threads, Signal(t)
      PROVE  SegmentsOK'
  <2>0. ref \in [Refs -> WideRef]
    BY DEF Inv, Typed, KernelTyped
  <2>1. /\ pc' = pc /\ my' = my /\ rep' = rep
        /\ \/ ref' = ref
           \/ \E r, w : ref' = [ref EXCEPT ![r].sema = w]
           \/ \E r, w : ref' = [ref EXCEPT ![r].iowait = w]
    BY <1>4, ZenonT(30) DEF Signal, clientVars
  <2>2. ASSUME NEW p \in Refs
        PROVE  ref'[p].svwait = ref[p].svwait
    <3>1. CASE ref' = ref
      BY <3>1
    <3>2. CASE \E r, w : ref' = [ref EXCEPT ![r].sema = w]
      BY <2>0, <3>2 DEF WideRef
    <3>3. CASE \E r, w : ref' = [ref EXCEPT ![r].iowait = w]
      BY <2>0, <3>3 DEF WideRef
    <3> QED  BY <2>1, <3>1, <3>2, <3>3
  <2> QED  BY <2>1, <2>2 DEF SegmentsOK, SegmentsAt, R
<1>5. \/ \E c \in Clients : ClientCalls(c) \/ ClientRuns(c)
      \/ \E s \in Servers : RecvFind(s) \/ ServerRuns(s) \/ ClosePort(s) \/ \E m \in held : ServerAnswers(s, m)
      \/ \E t \in Threads : Signal(t)
      \/ ref' = ref /\ pc' = pc /\ my' = my /\ rep' = rep
  BY Zenon DEF Next, vars
<1> QED  BY <1>1, <1>2, <1>3, <1>4, <1>5

\* What it means for the server and for the client it waits for.
LEMMA SegmentsMean ==
  ASSUME Inv, SegmentsOK
  PROVE  ServerNotForgotten
<1> SUFFICES ASSUME NEW s \in Servers, NEW r \in Refs, Queued(ref[r].svwait, s)
             PROVE  \E c \in Clients : R(c) = r /\ pc[c] \in {"iowait", "copy"} /\ ~Queued(ref[r].iowait, c)
  BY DEF ServerNotForgotten
<1>1. ref[r].svwait.q # << >>
  BY DEF Queued, Contains
<1>2. PICK c \in Clients : SegmentsAt(c, r)
  BY <1>1 DEF SegmentsOK, NoneWaits
<1>3. CallAt(pc[c], ref[r], rep[c], intr[c], c)
  <2>1. Waiting(c) /\ X(c) = ref[r]
    BY <1>2 DEF SegmentsAt, Waiting, InExchange, X, R
  <2> QED  BY <2>1 DEF Inv, Protocol, CallsOK
<1>4. ref[r].iowait \in {Zero, One}
  BY <1>2, <1>3 DEF SegmentsAt, CallAt
<1> QED  BY <1>2, <1>4, SemaValues DEF SegmentsAt

LEMMA SegmentsInit ==
  ASSUME Init
  PROVE  SegmentsOK
<1>1. \A r \in Refs : ref[r].svwait = NewSema(0)
  BY DEF Init, FreeRef
<1> QED  BY <1>1 DEF SegmentsOK, NoneWaits, NewSema

\* A server that waits in msg_reply() has a client who copies his segments, or
\* is about to see the answer: none of the ways out of msg_send() forgets him,
\* and no unit of an earlier call lets him go early.  (Unless the segments
\* cannot be mapped, "nomap".)
THEOREM RepliesAreCollected ==
  ASSUME Orderly, "nomap" \notin Does
  PROVE  Spec => []ServerNotForgotten
<1>1. Init => SegmentsOK
  BY SegmentsInit
<1>2. Inv /\ Inv' /\ SegmentsOK /\ [Next]_vars => SegmentsOK'
  BY MsgAssumption, SegmentsStep
<1>3. Inv /\ SegmentsOK => ServerNotForgotten
  BY SegmentsMean
<1> QED  BY <1>1, <1>2, <1>3, Invariance, PTL DEF Spec

-----------------------------------------------------------------------------
\* Nobody is forgotten, and nothing dangles.  What follows needs one more
\* assumption: a granted DUP is in the hash only after the client has been
\* woken, and another thread of the server that takes his next message
\* meanwhile does not find him there.
Serial == "clone" \notin Does \/ \A s, t \in Servers : s = t

ClonesOK ==
  \/ \A s, t \in Servers : s = t
  \/ /\ \A c \in Clients : pc[c] \notin {"cfind", "kwait"}
     /\ \A s \in Servers : pc[s] \notin {"dupwake", "duphash"}

\* What a client asks for where it sleeps, and the states it waits in.
Asks(l) == CASE l = "opening" -> "CONNECT" [] l = "iowait" -> "IO"
             [] l = "abwait" -> "ABORT" [] l = "kwait" -> "DUP" [] OTHER -> "DISCONNECT"

Unanswered(c) ==
  \/ pc[c] = "opening" /\ X(c).state = "OPENING"
  \/ pc[c] \in {"iowait", "kwait"} /\ X(c).state = "IOWAIT"
  \/ pc[c] = "abwait" /\ X(c).state = "ABWAIT"

Asked(c, m) == m.from = c /\ m.pr = R(c) /\ m.op = Asks(pc[c])

\* Every client that is not answered has a message where a server finds it,
\* and a server can answer what it holds.
PendingOK ==
  /\ \A m \in held : m.pr \in hash
  /\ \A c \in Clients : Unanswered(c) => \E m \in AllMsgs : Asked(c, m)
  /\ \A c \in Clients : DupOwed(c) =>
       \E s \in Servers : pc[s] = "dupwake" /\ got[s].from = c /\ got[s].pr = R(c)

\* The list and the hash hold live handles: a refused one is on neither, one
\* that is being cloned is on them when it is granted, and one whose
\* DISCONNECT has been received is off the list.
ReachOK ==
  /\ \A r \in port.refs \cup hash : ref[r].alloc
  /\ \A c \in Clients : pc[c] = "opening" /\ X(c).state = "ABDONE" => R(c) \notin port.refs \cup hash
  /\ \A c \in Clients : pc[c] = "kwait" /\ rep[c] # "ok" => my[c].new \notin port.refs \cup hash
  /\ \A m \in InHands : m.op = "DISCONNECT" => m.pr \notin port.refs
  /\ \A s \in Servers : pc[s] \in {"dupwake", "duphash"} => got[s].new \in port.refs

LEMMA ClonesInit ==
  ASSUME Serial, Init
  PROVE  ClonesOK
BY DEF Init, ClonesOK, Threads

\* Without clones no client and no server is at one.
LEMMA ClonesStep ==
  ASSUME MsgAssumption, Serial, Inv, port'.named, ClonesOK, [Next]_vars
  PROVE  ClonesOK'
<1>0. CASE \A s, t \in Servers : s = t
  BY <1>0 DEF ClonesOK
<1>. SUFFICES ASSUME "clone" \notin Does,
                     \A c \in Clients : pc[c] \notin {"cfind", "kwait"},
                     \A s \in Servers : pc[s] \notin {"dupwake", "duphash"}
              PROVE  /\ \A c \in Clients : pc'[c] \notin {"cfind", "kwait"}
                     /\ \A s \in Servers : pc'[s] \notin {"dupwake", "duphash"}
  BY <1>0 DEF ClonesOK, Serial
<1>1. pc \in [Threads -> ClientPcs \cup ServerPcs] /\ Clients \cap Servers = {} /\ Threads = Clients \cup Servers
  BY DEF Inv, Typed, ThreadsTyped, Threads, MsgAssumption
<1>2. ASSUME NEW c \in Clients, ClientCalls(c) \/ ClientRuns(c)
      PROVE  /\ pc'[c] \notin {"cfind", "kwait"}
             /\ \A d \in Clients : d # c => pc'[d] = pc[d]
             /\ \A s \in Servers : pc'[s] = pc[s]
  <2>1. OthersStay(c)
    BY <1>2, ClientAlone DEF Inv
  <2>2. ASSUME NEW k \in Slots, NEW j \in Slots, CloneFind(c, k, j)
        PROVE  FALSE
    BY <2>2 DEF CloneFind
  <2>3. ASSUME NEW n \in Refs, ClonePost(c, n)
        PROVE  FALSE
    BY <2>3 DEF ClonePost, Awake
  <2>4. ASSUME ClientCalls(c)
        PROVE  pc' = pc \/ \E l \in {"opening", "find", "shut"} : pc' = [pc EXCEPT ![c] = l]
    BY <2>2, <2>4, ZenonT(60) DEF ClientCalls, MsgConnect, SendFind, ForkPort, MsgDisconnect, Goto
  <2>5. ASSUME ClientRuns(c)
        PROVE  \E l \in {"out", "iowait", "copy", "abwait", "closing"} : pc' = [pc EXCEPT ![c] = l]
    BY <2>3, <2>5, ZenonT(60) DEF ClientRuns, MsgConnectDone, SendPost, SendDone, SendMap, CopyDone, MapFails,
         IntrGone, IntrWithdraw, IntrAbort, IntrDone, AbortDone, FindBroken, CloneDone, ShutClient, ShutDone,
         Return, Goto
  <2>6. pc'[c] \notin {"cfind", "kwait"}
    BY <1>1, <1>2, <2>4, <2>5
  <2> QED  BY <2>1, <2>6 DEF OthersStay
<1>3. ASSUME NEW s \in Servers,
             RecvFind(s) \/ ServerRuns(s) \/ ClosePort(s) \/ \E m \in held : ServerAnswers(s, m)
      PROVE  /\ pc'[s] \notin {"dupwake", "duphash"}
             /\ \A u \in Servers : u # s => pc'[u] = pc[u]
             /\ \A c \in Clients : pc'[c] = pc[c]
  <2>1. /\ ClientsStay(s)
        /\ \/ RecvFind(s) \/ RecvWait(s) \/ RecvBroken(s) \/ RecvTake(s) \/ RecvNothing(s) \/ RecvReturn(s)
           \/ ReplyRuns(s) \/ DupWake(s) \/ DupHash(s) \/ ClosePort(s)
           \/ \E m \in held : ServerAnswers(s, m)
    BY <1>3, ServerAlone
  <2>2. ASSUME NEW m \in held, NEW a \in Answers, ReplyDup(s, m, a)
        PROVE  FALSE
    <3>1. Wanted(m) /\ ref[m.pr].msg.op = "DUP"
      BY <2>2 DEF ReplyDup
    <3>2. pc[m.from] \in WaitsFor(m.op) /\ m.from \in Clients /\ ref[m.pr].msg = m
      BY <3>1, HeldFrom DEF Wanted, StatesOf
    <3> QED  BY <3>1, <3>2 DEF WaitsFor
  <2>3. ASSUME NEW m \in held, ServerAnswers(s, m)
        PROVE  pc' = pc \/ pc' = [pc EXCEPT ![s] = "svwait"]
    BY <2>2, <2>3, ZenonT(60) DEF ServerAnswers, MsgAccept, MsgErr, ReplyDone, ReplyAbort, ReplyRefused, Goto
  <2>4. ASSUME \/ RecvFind(s) \/ RecvWait(s) \/ RecvBroken(s) \/ RecvTake(s) \/ RecvNothing(s) \/ RecvReturn(s)
               \/ ReplyRuns(s) \/ DupWake(s) \/ DupHash(s) \/ ClosePort(s)
        PROVE  pc' = pc \/ \E l \in {"find", "rwait", "rcvd", "out", "dport"} : pc' = [pc EXCEPT ![s] = l]
    BY <2>4, ZenonT(60) DEF RecvFind, RecvWait, RecvBroken, RecvTake, RecvNothing, RecvReturn, ReplyRuns,
         DupWake, DupHash, ClosePort, Goto
  <2>5. pc'[s] \notin {"dupwake", "duphash"}
    BY <1>1, <2>1, <2>3, <2>4
  <2> QED  BY <2>1, <2>5 DEF ClientsStay
<1>4. ASSUME NEW t \in Threads, Signal(t)
      PROVE  pc' = pc
  BY <1>4 DEF Signal
<1>5. CASE UNCHANGED vars
  BY <1>5 DEF vars
<1> QED  BY <1>2, <1>3, <1>4, <1>5 DEF Next

\* What a client's step may do to this: it keeps the messages of the others
\* and the handles they wait on, frees no handle that is on a list, and posts
\* a message when it starts to wait.
Alone(c, p) == Private(c, p) /\ Apart(c, p)

Asking(c) ==
  /\ \A m \in ToSet(port.queue) : m.from # c => m \in ToSet(port'.queue)
  /\ port'.refs = port.refs
  /\ \A p \in Refs :
       \/ ref'[p].state = ref[p].state /\ ref'[p].iowait = ref[p].iowait
       \/ Alone(c, p)
  /\ \A p \in port.refs \cup hash : ref'[p].alloc
  /\ pc'[c] \in {"opening", "iowait", "abwait", "kwait"} =>
       /\ ref'[my'[c].pr].state \notin {"IODONE", "ABDONE"}
       /\ \E m \in ToSet(port'.queue) : m.from = c /\ m.pr = my'[c].pr /\ m.op = Asks(pc'[c])
  /\ pc'[c] = "kwait" => my'[c].new \notin port.refs \cup hash

LEMMA OthersAsk ==
  ASSUME Inv, NEW c \in Clients, OthersStay(c), Asking(c), NEW d \in Clients, d # c, Waiting(d)
  PROVE  /\ R(d)' = R(d) /\ pc'[d] = pc[d] /\ my'[d] = my[d] /\ rep'[d] = rep[d]
         /\ X(d)'.state = X(d).state /\ X(d)'.iowait = X(d).iowait
<1>1. R(d) \in Refs /\ pc'[d] = pc[d] /\ my'[d] = my[d] /\ rep'[d] = rep[d]
  BY DEF OthersStay, Inv, Typed, LocalsSet, Waiting, InExchange
<1>2. ~Alone(c, R(d))
  BY DEF Alone, Private, Apart, Waiting
<1>3. ref'[R(d)].state = ref[R(d)].state /\ ref'[R(d)].iowait = ref[R(d)].iowait
  BY <1>1, <1>2 DEF Asking
<1> QED  BY <1>1, <1>3 DEF R, X

LEMMA ClientAsks ==
  ASSUME Inv, PendingOK, NEW c \in Clients, OthersStay(c), Asking(c)
  PROVE  PendingOK'
<1>1. /\ hash' = hash /\ held' = held /\ InHands' = InHands /\ got' = got
      /\ \A s \in Servers : pc'[s] = pc[s]
  BY DEF OthersStay, InHands
<1>2. \A m \in held' : m.pr \in hash'
  BY <1>1 DEF PendingOK
<1>3. \A m \in AllMsgs : m.from # c => m \in AllMsgs'
  BY <1>1 DEF Asking, AllMsgs
<1>4. ASSUME NEW d \in Clients, Unanswered(d)'
      PROVE  \E m \in AllMsgs' : Asked(d, m)'
  <2>1. CASE d = c
    <3>1. pc'[c] \in {"opening", "iowait", "abwait", "kwait"}
      BY <1>4, <2>1 DEF Unanswered
    <3>2. PICK m \in ToSet(port'.queue) : m.from = c /\ m.pr = my'[c].pr /\ m.op = Asks(pc'[c])
      BY <3>1 DEF Asking
    <3> QED  BY <2>1, <3>2 DEF Asked, AllMsgs, Asks, R
  <2>2. CASE d # c
    <3>1. Waiting(d)
      BY <1>4, <2>2 DEF Unanswered, OthersStay, Waiting, InExchange
    <3>2. /\ R(d)' = R(d) /\ pc'[d] = pc[d]
          /\ X(d)'.state = X(d).state
      BY <2>2, <3>1, OthersAsk
    <3>3. PICK m \in AllMsgs : Asked(d, m)
      BY <1>4, <3>2 DEF Unanswered, PendingOK
    <3> QED  BY <1>3, <2>2, <3>2, <3>3 DEF Asked, Asks
  <2> QED  BY <2>1, <2>2
<1>5. ASSUME NEW d \in Clients, DupOwed(d)'
      PROVE  \E s \in Servers : pc'[s] = "dupwake" /\ got'[s].from = d /\ got'[s].pr = R(d)'
  <2>1. CASE d = c
    BY <1>5, <2>1 DEF DupOwed, Asking, X
  <2>2. CASE d # c
    <3>1. Waiting(d)
      BY <1>5, <2>2 DEF DupOwed, OthersStay, Waiting, InExchange
    <3>2. /\ R(d)' = R(d) /\ pc'[d] = pc[d]
          /\ X(d)'.state = X(d).state /\ X(d)'.iowait = X(d).iowait
      BY <2>2, <3>1, OthersAsk
    <3>3. DupOwed(d)
      BY <1>5, <3>2 DEF DupOwed, Asleep
    <3> QED  BY <1>1, <3>2, <3>3 DEF PendingOK
  <2> QED  BY <2>1, <2>2
<1> QED  BY <1>2, <1>4, <1>5 DEF PendingOK

LEMMA ClientReaches ==
  ASSUME Inv, ReachOK, NEW c \in Clients, OthersStay(c), Asking(c)
  PROVE  ReachOK'
<1>1. /\ hash' = hash /\ InHands' = InHands /\ got' = got /\ port'.refs = port.refs
      /\ \A s \in Servers : pc'[s] = pc[s]
  BY DEF OthersStay, InHands, Asking
<1>2. \A r \in port'.refs \cup hash' : ref'[r].alloc
  BY <1>1 DEF Asking
<1>3. ASSUME NEW d \in Clients, pc'[d] = "opening", X(d)'.state = "ABDONE"
      PROVE  R(d)' \notin port'.refs \cup hash'
  <2>1. d # c
    BY <1>3 DEF Asking, X
  <2>2. pc[d] = "opening" /\ R(d)' = R(d) /\ X(d)'.state = X(d).state
    BY <1>3, <2>1, OthersAsk DEF OthersStay, Waiting
  <2> QED  BY <1>1, <1>3, <2>2 DEF ReachOK
<1>4. ASSUME NEW d \in Clients, pc'[d] = "kwait", rep'[d] # "ok"
      PROVE  my'[d].new \notin port'.refs \cup hash'
  <2>1. CASE d = c
    BY <1>1, <1>4, <2>1 DEF Asking
  <2>2. CASE d # c
    BY <1>1, <1>4, <2>2 DEF OthersStay, ReachOK
  <2> QED  BY <2>1, <2>2
<1>5. \A m \in InHands' : m.op = "DISCONNECT" => m.pr \notin port'.refs
  BY <1>1 DEF ReachOK
<1>6. \A s \in Servers : pc'[s] \in {"dupwake", "duphash"} => got'[s].new \in port'.refs
  BY <1>1 DEF ReachOK
<1> QED  BY <1>2, <1>3, <1>4, <1>5, <1>6 DEF ReachOK

LEMMA AloneHandles ==
  ASSUME MsgAssumption, Inv, NEW c \in Clients
  PROVE  /\ Has(c) \/ pc[c] = "shut" => Alone(c, R(c))
         /\ \A r \in Refs : ~ref[r].alloc => Alone(c, r)
         /\ pc[c] = "kwait" => Alone(c, my[c].new)
<1>1. pc[c] = "shut" => Using(c)
  BY DEF Using
<1>2. Has(c) => Using(c)
  BY DEF Has, Owns, Using
<1> QED  BY <1>1, <1>2, PrivateHandles, ApartHandles DEF Alone

\* A client that does not wait after its step, and posts nothing.
LEMMA QuietAsks ==
  ASSUME MsgAssumption, Inv, ReachOK, NEW c \in Clients, NEW z,
         port' = port, pc'[c] \notin {"opening", "iowait", "abwait", "kwait"},
         \/ ref' = [ref EXCEPT ![R(c)] = z] /\ (Has(c) \/ pc[c] = "shut") /\ z.alloc = X(c).alloc
         \/ \A p \in Refs : /\ ref'[p].state = ref[p].state /\ ref'[p].iowait = ref[p].iowait
                            /\ ref'[p].alloc = ref[p].alloc
  PROVE  Asking(c)
<1>0. ref \in [Refs -> WideRef] /\ \A r \in port.refs \cup hash : r \in Refs /\ ref[r].alloc
  BY DEF ReachOK, Inv, Typed, KernelTyped, ServerTyped, WidePort
<1>1. CASE ref' = [ref EXCEPT ![R(c)] = z] /\ (Has(c) \/ pc[c] = "shut") /\ z.alloc = X(c).alloc
  <2>1. Alone(c, R(c))
    BY <1>1, AloneHandles
  <2>2. \A p \in Refs : p # R(c) => ref'[p] = ref[p]
    BY <1>0, <1>1
  <2>3. \A p \in Refs : ref'[p].alloc = ref[p].alloc
    BY <1>0, <1>1 DEF X, R
  <2> QED  BY <1>0, <2>1, <2>2, <2>3 DEF Asking
<1>2. CASE \A p \in Refs : /\ ref'[p].state = ref[p].state /\ ref'[p].iowait = ref[p].iowait
                           /\ ref'[p].alloc = ref[p].alloc
  BY <1>0, <1>2 DEF Asking
<1> QED  BY <1>1, <1>2

LEMMA EnqueueAdds ==
  ASSUME Inv, NEW n \in Sendable, port' = Enqueue(port, n)
  PROVE  ToSet(port'.queue) = ToSet(port.queue) \cup {n} /\ port'.refs = port.refs
<1>1. port \in WidePort /\ port.queue \in Seq(Sendable)
  BY DEF Inv, Typed, KernelTyped, WidePort
<1>2. port'.queue = Append(port.queue, n) /\ port'.refs = port.refs
  BY <1>1 DEF Enqueue, WidePort
<1> QED  BY <1>1, <1>2, ToSetAppend

\* A client posts a message and starts to wait for the answer.
LEMMA PostAsks ==
  ASSUME MsgAssumption, Inv, ReachOK, NEW c \in Clients, NEW r \in Refs, NEW n \in Sendable,
         port' = Enqueue(port, n), n.from = c, n.pr = r, my'[c].pr = r, n.op = Asks(pc'[c]),
         Alone(c, r), ref'[r].state \notin {"IODONE", "ABDONE"}, ref'[r].alloc,
         \A p \in Refs : p # r => \/ /\ ref'[p].state = ref[p].state /\ ref'[p].iowait = ref[p].iowait
                                     /\ ref'[p].alloc = ref[p].alloc
                                  \/ ~ref[p].alloc,
         pc'[c] = "kwait" => my'[c].new \in Refs /\ ~ref[my'[c].new].alloc
  PROVE  Asking(c)
<1>0. \A p \in port.refs \cup hash : p \in Refs /\ ref[p].alloc
  BY DEF ReachOK, Inv, Typed, KernelTyped, ServerTyped, WidePort
<1>1. ToSet(port'.queue) = ToSet(port.queue) \cup {n} /\ port'.refs = port.refs
  BY EnqueueAdds
<1>2. \A p \in Refs : \/ ref'[p].state = ref[p].state /\ ref'[p].iowait = ref[p].iowait
                      \/ Alone(c, p)
  BY AloneHandles
<1>3. \A p \in port.refs \cup hash : ref'[p].alloc
  BY <1>0
<1>4. pc'[c] = "kwait" => my'[c].new \notin port.refs \cup hash
  BY <1>0
<1>5. ref'[my'[c].pr].state \notin {"IODONE", "ABDONE"}
  OBVIOUS
<1>6. \E m \in ToSet(port'.queue) : m.from = c /\ m.pr = my'[c].pr /\ m.op = Asks(pc'[c])
  BY <1>1
<1> QED  BY <1>1, <1>2, <1>3, <1>4, <1>5, <1>6 DEF Asking

\* Calls that begin, or end, without a message.
LEMMA CallsAsk ==
  ASSUME MsgAssumption, Inv, ReachOK, NEW c \in Clients,
         \/ \E k \in Slots, kd \in Kinds : SendFind(c, k, kd)
         \/ \E k, j \in Slots : CloneFind(c, k, j)
         \/ \E k, j \in Slots : ForkPort(c, k, j)
         \/ \E k \in Slots : MsgDisconnect(c, k)
         \/ FindBroken(c) \/ ShutDone(c)
  PROVE  Asking(c)
<1>0. ref \in [Refs -> WideRef] /\ pc \in [Threads -> ClientPcs \cup ServerPcs] /\ c \in Threads
  BY DEF Inv, Typed, ThreadsTyped, KernelTyped, Threads
<1>1. port' = port
  BY ZenonT(60) DEF SendFind, CloneFind, ForkPort, MsgDisconnect, FindBroken, ShutDone
<1>2. \/ pc' = pc /\ pc[c] = "out"
      \/ \E l \in {"find", "cfind", "shut", "out"} : pc' = [pc EXCEPT ![c] = l]
  BY ZenonT(60) DEF SendFind, CloneFind, ForkPort, MsgDisconnect, FindBroken, ShutDone, Goto, Return
<1>3. \/ ref' = ref
      \/ \E r, w : ref' = [ref EXCEPT ![r].sema = w]
      \/ \E r, w : ref' = [ref EXCEPT ![r].refs = w]
  BY ZenonT(60) DEF SendFind, CloneFind, ForkPort, MsgDisconnect, FindBroken, ShutDone
<1>4. CASE ref' = ref
  BY <1>0, <1>1, <1>2, <1>4, QuietAsks
<1>5. CASE \E r, w : ref' = [ref EXCEPT ![r].sema = w]
  <2>1. \A p \in Refs : /\ ref'[p].state = ref[p].state /\ ref'[p].iowait = ref[p].iowait
                        /\ ref'[p].alloc = ref[p].alloc
    BY <1>0, <1>5 DEF WideRef
  <2> QED  BY <1>0, <1>1, <1>2, <2>1, QuietAsks
<1>6. CASE \E r, w : ref' = [ref EXCEPT ![r].refs = w]
  <2>1. \A p \in Refs : /\ ref'[p].state = ref[p].state /\ ref'[p].iowait = ref[p].iowait
                        /\ ref'[p].alloc = ref[p].alloc
    BY <1>0, <1>6 DEF WideRef
  <2> QED  BY <1>0, <1>1, <1>2, <2>1, QuietAsks
<1> QED  BY <1>3, <1>4, <1>5, <1>6

\* The ways out of an exchange after the answer.
LEMMA DoneAsks ==
  ASSUME MsgAssumption, Inv, ReachOK, NEW c \in Clients,
         SendDone(c) \/ SendMap(c) \/ CopyDone(c) \/ MapFails(c) \/ AbortDone(c) \/ IntrDone(c)
  PROVE  Asking(c)
<1>0. /\ ref \in [Refs -> WideRef] /\ pc \in [Threads -> ClientPcs \cup ServerPcs] /\ c \in Threads
  BY DEF Inv, Typed, ThreadsTyped, KernelTyped, Threads
<1>1. pc[c] \in {"iowait", "copy", "abwait"}
  BY ZenonT(60) DEF SendDone, SendMap, CopyDone, MapFails, AbortDone, IntrDone, Awake, Broken
<1>2. Has(c) /\ R(c) \in Refs /\ X(c) \in WideRef
  BY <1>0, <1>1 DEF Has, Owns, X, R, Inv, Typed, LocalsSet
<1>3. port' = port /\ \E l \in {"copy", "out"} : pc' = [pc EXCEPT ![c] = l]
  BY ZenonT(60) DEF SendDone, SendMap, CopyDone, MapFails, AbortDone, IntrDone, Goto, Return
<1>4. \/ ref' = ref
      \/ \E x, b : ref' = [ref EXCEPT ![R(c)] = Out(x, b)] /\ (x = ref[R(c)] \/ x = TakeBack(ref[R(c)]))
  <2>1. CASE SendMap(c)
    BY <2>1 DEF SendMap
  <2>2. CASE IntrDone(c)
    <3>1. ref' = [ref EXCEPT ![R(c)] = Out(TakeBack(@), my[c].nseg)]
      BY <2>2 DEF IntrDone
    <3>2. ref' = [ref EXCEPT ![R(c)] = Out(TakeBack(ref[R(c)]), my[c].nseg)]
      BY <3>1
    <3> QED  BY <3>2, Zenon
  <2>3. CASE SendDone(c) \/ CopyDone(c) \/ MapFails(c) \/ AbortDone(c)
    <3>1. \E b : ref' = [ref EXCEPT ![R(c)] = Out(@, b)]
      BY <2>3, Zenon DEF SendDone, CopyDone, MapFails, AbortDone
    <3>2. \E b : ref' = [ref EXCEPT ![R(c)] = Out(ref[R(c)], b)]
      BY <3>1
    <3> QED  BY <3>2, Zenon
  <2> QED  BY <2>1, <2>2, <2>3
<1>5. CASE ref' = ref
  BY <1>0, <1>3, <1>5, QuietAsks
<1>6. ASSUME NEW x, NEW b, ref' = [ref EXCEPT ![R(c)] = Out(x, b)], x = ref[R(c)] \/ x = TakeBack(ref[R(c)])
      PROVE  Asking(c)
  <2>1. x.alloc = X(c).alloc
    BY <1>2, <1>6 DEF TakeBack, WideRef, X, R
  <2>2. Out(x, b).alloc = x.alloc
    BY <1>2, <1>6 DEF Out, TakeBack, WideRef, X, R
  <2>3. PICK z : z = Out(x, b)
    OBVIOUS
  <2> QED  BY <1>0, <1>2, <1>3, <1>6, <2>1, <2>2, <2>3, QuietAsks
<1> QED  BY <1>4, <1>5, <1>6, Zenon

\* shut_client() posts a DISCONNECT, and waits for nothing.
LEMMA ShutAsks ==
  ASSUME MsgAssumption, Inv, ReachOK, NEW c \in Clients, ShutClient(c)
  PROVE  Asking(c)
<1>0. /\ ref \in [Refs -> WideRef] /\ pc \in [Threads -> ClientPcs \cup ServerPcs] /\ c \in Threads
      /\ pc[c] = "shut" /\ Using(c)
  BY DEF Inv, Typed, ThreadsTyped, KernelTyped, Threads, ShutClient, Using
<1>1. R(c) \in Refs /\ X(c).alloc /\ X(c).port
  BY <1>0 DEF Inv, Typed, LocalsSet, Protocol, TablesOK, UsersOK, ServerStays, X, R
<1>2. PICK n \in Sendable : n = Message("DISCONNECT", c, R(c), Null, FALSE)
  BY <1>1, SentTyped
<1>3. /\ port' = Enqueue(port, n) /\ pc' = [pc EXCEPT ![c] = "closing"]
      /\ ref' = [ref EXCEPT ![R(c)].state = "CLOSING", ![R(c)].sema = PSema(@, c)]
  BY <1>1, <1>2, Zenon DEF ShutClient, Goto
<1>4. ToSet(port'.queue) = ToSet(port.queue) \cup {n} /\ port'.refs = port.refs
  BY <1>3, EnqueueAdds
<1>5. Alone(c, R(c))
  BY <1>0, AloneHandles
<1>6. \A p \in Refs : ref'[p].alloc = ref[p].alloc /\ (p # R(c) => ref'[p] = ref[p])
  BY <1>0, <1>3 DEF WideRef
<1>7. \A p \in port.refs \cup hash : p \in Refs /\ ref[p].alloc
  BY DEF ReachOK, Inv, Typed, KernelTyped, ServerTyped, WidePort
<1> QED  BY <1>0, <1>3, <1>4, <1>5, <1>6, <1>7 DEF Asking

LEMMA ConnectAsks ==
  ASSUME MsgAssumption, Inv, ReachOK, NEW c \in Clients, NEW k \in Slots, NEW r \in Refs, MsgConnect(c, k, r)
  PROVE  Asking(c)
<1>0. /\ ref \in [Refs -> WideRef] /\ pc \in [Threads -> ClientPcs \cup ServerPcs] /\ c \in Threads
      /\ my \in [Clients -> Local]
  BY DEF Inv, Typed, ThreadsTyped, KernelTyped, Threads
<1>1. PICK n \in Sendable : n = Message("CONNECT", c, r, Null, FALSE)
  BY SentTyped
<1>2. PICK z, y : /\ z = [NewRef("OPENING") EXCEPT !.iowait = PSema(@, c)]
                  /\ y = [NoCall EXCEPT !.slot = k, !.pr = r]
  OBVIOUS
<1>3. n.from = c /\ n.pr = r /\ n.op = "CONNECT" /\ z.state = "OPENING" /\ z.alloc /\ y.pr = r
  BY <1>1, <1>2 DEF Message, NewRef, NoCall
<1>4. /\ port' = Enqueue(port, n) /\ pc' = [pc EXCEPT ![c] = "opening"] /\ my' = [my EXCEPT ![c] = y]
      /\ ref' = [ref EXCEPT ![r] = z] /\ ~ref[r].alloc
  BY <1>1, <1>2, Zenon DEF MsgConnect, Goto
<1>5. pc'[c] = "opening" /\ my'[c].pr = r /\ ref'[r] = z /\ \A p \in Refs : p # r => ref'[p] = ref[p]
  BY <1>0, <1>3, <1>4
<1>6. Alone(c, r) /\ Asks("opening") = "CONNECT"
  BY <1>4, AloneHandles DEF Asks
<1> QED  BY <1>3, <1>4, <1>5, <1>6, PostAsks

LEMMA SendPostAsks ==
  ASSUME MsgAssumption, Inv, ReachOK, NEW c \in Clients, SendPost(c)
  PROVE  Asking(c)
<1>0. /\ ref \in [Refs -> WideRef] /\ pc \in [Threads -> ClientPcs \cup ServerPcs] /\ c \in Threads
  BY DEF Inv, Typed, ThreadsTyped, KernelTyped, Threads
<1>1. Has(c)
  BY DEF SendPost, Awake, Has, Owns, X, R
<1>2. PICK r \in Refs, x \in WideRef : r = R(c) /\ x = X(c) /\ x = ref[r] /\ x.alloc /\ x.port
  BY <1>1, InCall
<1>3. PICK n \in Sendable : n = Message("IO", c, r, Null, my[c].kind = "write")
  BY SentTyped
<1>4. n.from = c /\ n.pr = r /\ n.op = "IO"
  BY <1>3 DEF Message
<1>5. /\ port' = Enqueue(port, n) /\ pc' = [pc EXCEPT ![c] = "iowait"] /\ my' = my
      /\ ref' = [ref EXCEPT ![r].state = "IOWAIT", ![r].iowait = PSema(@, c)]
  <2>1. X(c).port
    BY <1>2
  <2>2. /\ port' = Enqueue(port, Message("IO", c, R(c), Null, my[c].kind = "write"))
        /\ pc' = [pc EXCEPT ![c] = "iowait"] /\ my' = my
        /\ ref' = [ref EXCEPT ![R(c)].state = "IOWAIT", ![R(c)].iowait = PSema(@, c)]
    BY <2>1, Zenon DEF SendPost, Goto
  <2> QED  BY <1>2, <1>3, <2>2
<1>6. /\ ref'[r].state = "IOWAIT" /\ ref'[r].alloc /\ \A p \in Refs : p # r => ref'[p] = ref[p]
      /\ pc'[c] = "iowait" /\ my'[c].pr = r
  BY <1>0, <1>2, <1>5 DEF WideRef, R
<1>7. Alone(c, r) /\ Asks("iowait") = "IO"
  BY <1>1, <1>2, AloneHandles DEF Asks
<1>8. /\ port' = Enqueue(port, n) /\ my'[c].pr = r /\ n.op = Asks(pc'[c])
      /\ ref'[r].state \notin {"IODONE", "ABDONE"} /\ pc'[c] # "kwait"
  BY <1>4, <1>5, <1>6, <1>7
<1>9. \A p \in Refs : p # r => /\ ref'[p].state = ref[p].state /\ ref'[p].iowait = ref[p].iowait
                              /\ ref'[p].alloc = ref[p].alloc
  BY <1>6
<1> QED  BY <1>4, <1>6, <1>7, <1>8, <1>9, PostAsks

LEMMA AbortAsks ==
  ASSUME MsgAssumption, Inv, ReachOK, NEW c \in Clients, IntrAbort(c)
  PROVE  Asking(c)
<1>0. /\ ref \in [Refs -> WideRef] /\ pc \in [Threads -> ClientPcs \cup ServerPcs] /\ c \in Threads
  BY DEF Inv, Typed, ThreadsTyped, KernelTyped, Threads
<1>1. Has(c)
  BY DEF IntrAbort, Interrupted, Broken, Has, Owns
<1>2. PICK r \in Refs, x \in WideRef : r = R(c) /\ x = X(c) /\ x = ref[r] /\ x.alloc /\ x.port
  BY <1>1, InCall
<1>3. PICK n \in Sendable : n = Message("ABORT", c, r, Null, FALSE)
  BY SentTyped
<1>4. n.from = c /\ n.pr = r /\ n.op = "ABORT"
  BY <1>3 DEF Message
<1>5. /\ port' = Enqueue(port, n) /\ pc' = [pc EXCEPT ![c] = "abwait"] /\ my' = my
      /\ ref' = [ref EXCEPT ![r].state = "ABWAIT", ![r].iowait = PSema(@, c)]
  <2>1. /\ port' = Enqueue(port, Message("ABORT", c, R(c), Null, FALSE))
        /\ pc' = [pc EXCEPT ![c] = "abwait"] /\ my' = my
        /\ ref' = [ref EXCEPT ![R(c)].state = "ABWAIT", ![R(c)].iowait = PSema(@, c)]
    BY Zenon DEF IntrAbort, Goto
  <2> QED  BY <1>2, <1>3, <2>1
<1>6. /\ ref'[r].state = "ABWAIT" /\ ref'[r].alloc /\ \A p \in Refs : p # r => ref'[p] = ref[p]
      /\ pc'[c] = "abwait" /\ my'[c].pr = r
  BY <1>0, <1>2, <1>5 DEF WideRef, R
<1>7. Alone(c, r) /\ Asks("abwait") = "ABORT"
  BY <1>1, <1>2, AloneHandles DEF Asks
<1> QED  BY <1>4, <1>5, <1>6, <1>7, PostAsks

LEMMA ClonePostAsks ==
  ASSUME MsgAssumption, Inv, ReachOK, NEW c \in Clients, NEW p \in Refs, ClonePost(c, p)
  PROVE  Asking(c)
<1>0. /\ ref \in [Refs -> WideRef] /\ pc \in [Threads -> ClientPcs \cup ServerPcs] /\ c \in Threads
      /\ my \in [Clients -> Local]
  BY DEF Inv, Typed, ThreadsTyped, KernelTyped, Threads
<1>1. Has(c)
  BY DEF ClonePost, Awake, Has, Owns, X, R
<1>2. PICK r \in Refs, x \in WideRef : r = R(c) /\ x = X(c) /\ x = ref[r] /\ x.alloc /\ x.port
  BY <1>1, InCall
<1>3. PICK n \in Sendable : n = DupMessage(c, p)
  BY <1>2, SentTyped DEF DupMessage
<1>4. n.from = c /\ n.pr = r /\ n.op = "DUP"
  BY <1>2, <1>3 DEF Message, DupMessage
<1>5. X(c).port
  BY <1>2
<1>6. PICK z : z = DupRef
  OBVIOUS
<1>7. /\ port' = Enqueue(port, DupMessage(c, p)) /\ pc' = [pc EXCEPT ![c] = "kwait"] /\ my' = [my EXCEPT ![c].new = p]
      /\ ref' = [ref EXCEPT ![p] = DupRef, ![R(c)].state = "IOWAIT", ![R(c)].iowait = PSema(@, c)]
      /\ ~ref[p].alloc
  BY <1>5, ZenonT(60) DEF ClonePost, Goto
<1>8. p # r
  BY <1>2, <1>7
<1>7a. ref' = [ref EXCEPT ![p] = z, ![r].state = "IOWAIT", ![r].iowait = PSema(@, c)] /\ port' = Enqueue(port, n)
  BY <1>2, <1>3, <1>6, <1>7
<1>9. /\ ref'[r].state = "IOWAIT" /\ ref'[r].alloc /\ \A q \in Refs : q # r /\ q # p => ref'[q] = ref[q]
      /\ pc'[c] = "kwait" /\ my'[c].pr = r /\ my'[c].new = p
  BY <1>0, <1>2, <1>7, <1>7a, <1>8 DEF WideRef, R, Local
<1>10. Alone(c, r) /\ Asks("kwait") = "DUP"
  BY <1>1, <1>2, AloneHandles DEF Asks
<1>11. n.op = Asks(pc'[c])
  BY <1>4, <1>9, <1>10
<1>12. \A q \in Refs : q # r => \/ /\ ref'[q].state = ref[q].state /\ ref'[q].iowait = ref[q].iowait
                                 /\ ref'[q].alloc = ref[q].alloc
                              \/ ~ref[q].alloc
  BY <1>7, <1>9
<1>13. pc'[c] = "kwait" => my'[c].new \in Refs /\ ~ref[my'[c].new].alloc
  BY <1>7, <1>9
<1>14. ref'[r].state \notin {"IODONE", "ABDONE"} /\ ref'[r].alloc /\ my'[c].pr = r
  BY <1>9
<1> QED  BY <1>4, <1>7a, <1>10, <1>11, <1>12, <1>13, <1>14, PostAsks

\* An event ends the call, and the message is taken back.
LEMMA WithdrawAsks ==
  ASSUME MsgAssumption, Inv, ReachOK, NEW c \in Clients, IntrWithdraw(c)
  PROVE  Asking(c)
<1>0. /\ pc \in [Threads -> ClientPcs \cup ServerPcs] /\ ref \in [Refs -> WideRef] /\ c \in Threads
      /\ port \in WidePort /\ port.queue \in Seq(Sendable) /\ Spread(port.queue)
  BY MessagesTyped DEF Inv, Protocol, MessagesOK, Typed, ThreadsTyped, KernelTyped, Threads
<1>1. InQueue(c) /\ pc[c] = "iowait" /\ Return(c) /\ Has(c)
  BY DEF IntrWithdraw, Interrupted, Broken, Has, Owns
<1>2. PICK k \in 1..Len(port.queue) : k = PlaceOf(c) /\ Sent(c, port.queue[k])
  BY <1>1 DEF InQueue, PlaceOf
<1>3. PICK m : m = port.queue[k] /\ m.from = c
  BY <1>2 DEF Sent
<1>4. PICK r \in Refs, x \in WideRef : r = R(c) /\ x = X(c) /\ x = ref[r] /\ x.alloc /\ x.port
  BY <1>1, InCall
<1>5. PICK y : y = [x EXCEPT !.state = "IODONE"]
  OBVIOUS
<1>6. PICK z : z = Out(y, my[c].nseg)
  OBVIOUS
<1>7. z.alloc
  BY <1>4, <1>5, <1>6 DEF Out, WideRef
<1>8. /\ port' = [port EXCEPT !.queue = RemoveAt(@, k), !.wait = AdjSema(@, -1)]
      /\ ref' = [ref EXCEPT ![r] = z]
  BY <1>2, <1>4, <1>5, <1>6 DEF IntrWithdraw
<1>9. port'.queue = RemoveAt(port.queue, k) /\ port'.refs = port.refs
  BY <1>0, <1>8 DEF WidePort
<1>10. \A n \in ToSet(port.queue) : n.from # c => n \in ToSet(port'.queue)
  BY <1>0, <1>3, <1>9, ToSetRemove
<1>11. pc'[c] = "out"
  BY <1>0, <1>1 DEF Return, Goto
<1>12. \A p \in Refs : (p # r => ref'[p] = ref[p]) /\ ref'[p].alloc = ref[p].alloc
  BY <1>0, <1>4, <1>7, <1>8
<1>13. Alone(c, r)
  BY <1>1, <1>4, AloneHandles
<1>14. \A p \in port.refs \cup hash : p \in Refs /\ ref[p].alloc
  BY DEF ReachOK, Inv, Typed, KernelTyped, ServerTyped, WidePort
<1> QED  BY <1>9, <1>10, <1>11, <1>12, <1>13, <1>14 DEF Asking

\* msg_connect() and clone() free a handle only when the server has refused
\* it, and so has dropped it from its lists.
LEMMA ConnectDoneAsks ==
  ASSUME MsgAssumption, Inv, ReachOK, NEW c \in Clients, MsgConnectDone(c)
  PROVE  Asking(c)
<1>0. /\ ref \in [Refs -> WideRef] /\ pc \in [Threads -> ClientPcs \cup ServerPcs] /\ c \in Threads
  BY DEF Inv, Typed, ThreadsTyped, KernelTyped, Threads
<1>1. /\ pc[c] = "opening" /\ pc' = [pc EXCEPT ![c] = "out"] /\ port' = port
      /\ \/ ref' = ref
         \/ ref' = [ref EXCEPT ![R(c)] = FreeRef] /\ ~(X(c).port /\ X(c).state = "IODONE")
  BY Zenon DEF MsgConnectDone, Awake, Return, Goto
<1>2. Has(c)
  BY <1>1 DEF Has
<1>3. PICK r \in Refs, x \in WideRef :
        r = R(c) /\ x = X(c) /\ x = ref[r] /\ x.alloc /\ x.port /\ CallAt(pc[c], x, rep[c], intr[c], c)
  BY <1>1, <1>2, InCall DEF Waiting
<1>4. CASE ref' = ref
  BY <1>0, <1>1, <1>4, QuietAsks
<1>5. CASE ref' = [ref EXCEPT ![r] = FreeRef] /\ x.state # "IODONE"
  <2>1. ~Queued(x.iowait, c)
    BY <1>3 DEF MsgConnectDone, Awake
  <2>2. x.state = "ABDONE"
    BY <1>1, <1>3, <1>5, <2>1, SemaValues DEF CallAt
  <2>3. r \notin port.refs \cup hash
    BY <1>1, <1>3, <2>2 DEF ReachOK
  <2>4. \A p \in Refs : p # r => ref'[p] = ref[p]
    BY <1>0, <1>5
  <2>5. \A p \in port.refs \cup hash : p \in Refs /\ ref[p].alloc
    BY DEF ReachOK, Inv, Typed, KernelTyped, ServerTyped, WidePort
  <2>6. Alone(c, r)
    BY <1>2, <1>3, AloneHandles
  <2> QED  BY <1>0, <1>1, <2>3, <2>4, <2>5, <2>6 DEF Asking
<1> QED  BY <1>1, <1>3, <1>4, <1>5

LEMMA CloneDoneAsks ==
  ASSUME MsgAssumption, Inv, ReachOK, NEW c \in Clients, CloneDone(c)
  PROVE  Asking(c)
<1>0. /\ ref \in [Refs -> WideRef] /\ pc \in [Threads -> ClientPcs \cup ServerPcs] /\ c \in Threads
  BY DEF Inv, Typed, ThreadsTyped, KernelTyped, Threads
<1>1. pc[c] = "kwait" /\ Has(c)
  BY DEF CloneDone, Awake, Has, Owns
<1>2. PICK r \in Refs, x \in WideRef : r = R(c) /\ x = X(c) /\ x = ref[r] /\ x.alloc
  BY <1>1, InCall
<1>3. PICK n \in Refs : n = my[c].new /\ n # r /\ (rep[c] # "ok" => n \notin port.refs \cup hash)
  BY <1>1, <1>2 DEF ReachOK, Inv, Typed, LocalsSet, Protocol, TablesOK, NewOK, Using
<1>4. PICK z, f : z = Out(x, TRUE) /\ f = FreeRef
  OBVIOUS
<1>5. z.alloc
  BY <1>2, <1>4 DEF Out, WideRef
<1>6. /\ ref' = [ref EXCEPT ![r] = z, ![n] = IF rep[c] # "err" THEN @ ELSE f]
      /\ port' = port /\ pc' = [pc EXCEPT ![c] = "out"]
  BY <1>2, <1>3, <1>4, Zenon DEF CloneDone, Return, Goto
<1>7. /\ ref'[r] = z /\ (rep[c] # "err" => ref'[n] = ref[n])
      /\ \A p \in Refs : p # r /\ p # n => ref'[p] = ref[p]
  BY <1>0, <1>2, <1>3, <1>6
<1>8. \A p \in port.refs \cup hash : p \in Refs /\ ref[p].alloc
  BY DEF ReachOK, Inv, Typed, KernelTyped, ServerTyped, WidePort
<1>9. \A p \in port.refs \cup hash : ref'[p].alloc
  BY <1>3, <1>5, <1>7, <1>8
<1>10. Alone(c, r) /\ Alone(c, n)
  BY <1>1, <1>2, <1>3, AloneHandles
<1> QED  BY <1>0, <1>6, <1>7, <1>9, <1>10 DEF Asking

LEMMA ClientStepAsks ==
  ASSUME MsgAssumption, Inv, ReachOK, NEW c \in Clients, ClientCalls(c) \/ ClientRuns(c)
  PROVE  Asking(c)
<1>1. CASE ClientCalls(c)
  <2>1. \/ \E k \in Slots, r \in Refs : MsgConnect(c, k, r)
        \/ \E k \in Slots, kd \in Kinds : SendFind(c, k, kd)
        \/ \E k, j \in Slots : CloneFind(c, k, j)
        \/ \E k, j \in Slots : ForkPort(c, k, j)
        \/ \E k \in Slots : MsgDisconnect(c, k)
    BY <1>1, Zenon DEF ClientCalls
  <2> QED  BY <2>1, CallsAsk, ConnectAsks, Zenon
<1>2. CASE ClientRuns(c)
  <2>1. ~IntrGone(c)
    BY IntrGoneOK
  <2>2. \/ SendDone(c) \/ SendMap(c) \/ CopyDone(c) \/ MapFails(c) \/ AbortDone(c) \/ IntrDone(c)
        \/ FindBroken(c) \/ ShutDone(c) \/ ShutClient(c) \/ MsgConnectDone(c) \/ SendPost(c)
        \/ IntrWithdraw(c) \/ IntrAbort(c) \/ CloneDone(c) \/ \E n \in Refs : ClonePost(c, n)
    BY <1>2, <2>1, Zenon DEF ClientRuns
  <2> QED  BY <2>2, CallsAsk, DoneAsks, ShutAsks, ConnectDoneAsks, SendPostAsks, WithdrawAsks, AbortAsks,
              CloneDoneAsks, ClonePostAsks, Zenon
<1> QED  BY <1>1, <1>2

\* What a server's step may do to it: a state changes only to tell a client
\* that it is answered, and a message goes only when its client is, or has
\* asked for an abort since.
Serving(s) ==
  /\ \A p \in Refs :
       \/ ref'[p].state = ref[p].state /\ ref'[p].iowait = ref[p].iowait
       \/ ref'[p].state \in {"IODONE", "ABDONE"} /\ ref'[p].iowait.cnt >= 0
       \/ /\ pc'[s] = "dupwake" /\ got'[s].pr = p /\ ref'[p].state = "IODONE"
          /\ \A c \in Clients : pc[c] = "kwait" /\ R(c) = p => got'[s].from = c
  /\ pc[s] = "dupwake" => ref'[got[s].pr].iowait.cnt >= 0
  /\ \A m \in AllMsgs :
       \/ m \in AllMsgs' \/ m.op = "DISCONNECT"
       \/ ref'[m.pr].state \in {"IODONE", "ABDONE"}
       \/ m.op # "ABORT" /\ ref[m.pr].state = "ABWAIT"
  /\ \A m \in held' : m.pr \in hash'

LEMMA ServerPends ==
  ASSUME Inv, PendingOK, NEW s \in Servers, ClientsStay(s), Serving(s)
  PROVE  PendingOK'
<1>1. \A c \in Clients : pc'[c] = pc[c] /\ R(c)' = R(c)
  BY DEF ClientsStay, R
<1>2. \A c \in Clients : pc[c] # "out" => R(c) \in Refs
  BY DEF Inv, Typed, LocalsSet
<1>3. ASSUME NEW c \in Clients, Unanswered(c)'
      PROVE  \E m \in AllMsgs' : Asked(c, m)'
  <2>1. R(c) \in Refs /\ X(c)'.state = ref'[R(c)].state
    BY <1>1, <1>2, <1>3 DEF Unanswered, X, R
  <2>2. ref'[R(c)].state \notin {"IODONE", "ABDONE"}
    BY <1>3, <2>1 DEF Unanswered
  <2>3. ref'[R(c)].state = ref[R(c)].state
    BY <2>1, <2>2 DEF Serving
  <2>4. Unanswered(c)
    BY <1>1, <1>3, <2>1, <2>3 DEF Unanswered, X, R
  <2>5. PICK m \in AllMsgs : Asked(c, m)
    BY <2>4 DEF PendingOK
  <2>6. m.pr = R(c) /\ m.op # "DISCONNECT"
    BY <2>4, <2>5 DEF Asked, Asks, Unanswered
  <2>7. ref[R(c)].state = "ABWAIT" => m.op = "ABORT"
    BY <2>4, <2>5 DEF Asked, Asks, Unanswered, X, R
  <2>8. m \in AllMsgs'
    BY <2>2, <2>6, <2>7 DEF Serving
  <2>9. Asked(c, m)'
    BY <1>1, <2>5 DEF Asked
  <2> QED  BY <2>8, <2>9
<1>4. ASSUME NEW c \in Clients, DupOwed(c)'
      PROVE  \E u \in Servers : pc'[u] = "dupwake" /\ got'[u].from = c /\ got'[u].pr = R(c)'
  <2>1. R(c) \in Refs /\ X(c)' = ref'[R(c)] /\ pc[c] = "kwait"
    BY <1>1, <1>2, <1>4 DEF DupOwed, X, R
  <2>2. ref'[R(c)].state = "IODONE" /\ ref'[R(c)].iowait = Asleep(c)
    BY <1>4, <2>1 DEF DupOwed, Asleep
  <2>3. ~(ref'[R(c)].iowait.cnt >= 0)
    BY <2>2 DEF Asleep
  <2>4. CASE ref'[R(c)].state = ref[R(c)].state /\ ref'[R(c)].iowait = ref[R(c)].iowait
    <3>1. DupOwed(c)
      BY <2>1, <2>2, <2>4 DEF DupOwed, X, R
    <3>2. PICK u \in Servers : pc[u] = "dupwake" /\ got[u].from = c /\ got[u].pr = R(c)
      BY <3>1 DEF PendingOK
    <3>3. u # s
      BY <2>3, <3>2 DEF Serving
    <3> QED  BY <1>1, <3>2, <3>3 DEF ClientsStay
  <2>5. CASE pc'[s] = "dupwake" /\ got'[s].pr = R(c)
             /\ \A d \in Clients : pc[d] = "kwait" /\ R(d) = R(c) => got'[s].from = d
    BY <1>1, <2>1, <2>5
  <2> QED  BY <2>1, <2>3, <2>4, <2>5 DEF Serving
<1>5. \A m \in held' : m.pr \in hash'
  BY DEF Serving
<1> QED  BY <1>3, <1>4, <1>5 DEF PendingOK

\* ... and a handle comes on a list only while it opens, or as it is granted.
Reaching(s) ==
  /\ \A r \in port'.refs \cup hash' : ref'[r].alloc
  /\ \A r \in port'.refs \cup hash' :
       \/ r \in port.refs \cup hash
       \/ \A c \in Clients : /\ pc[c] = "opening" /\ R(c) = r => ref'[r].state # "ABDONE"
                             /\ pc[c] = "kwait" /\ my[c].new = r => rep'[c] = "ok"
  /\ \A c \in Clients : pc[c] = "opening" /\ ref'[R(c)].state = "ABDONE" =>
       ref[R(c)].state = "ABDONE" \/ R(c) \notin port'.refs \cup hash'
  /\ \A c \in Clients : pc[c] = "kwait" /\ rep[c] = "ok" => rep'[c] = "ok"
  /\ \A m \in InHands' : m.op = "DISCONNECT" => m.pr \notin port'.refs
  /\ \A u \in Servers : pc'[u] \in {"dupwake", "duphash"} => got'[u].new \in port'.refs

LEMMA ServerReaches ==
  ASSUME Inv, ReachOK, NEW s \in Servers, ClientsStay(s), Reaching(s)
  PROVE  ReachOK'
<1>1. \A c \in Clients : pc'[c] = pc[c] /\ R(c)' = R(c) /\ my'[c].new = my[c].new
  BY DEF ClientsStay, R
<1>2. ASSUME NEW c \in Clients, pc'[c] = "opening", X(c)'.state = "ABDONE"
      PROVE  R(c)' \notin port'.refs \cup hash'
  <2>1. pc[c] = "opening" /\ ref'[R(c)].state = "ABDONE"
    BY <1>1, <1>2 DEF X, R
  <2>2. CASE ref[R(c)].state = "ABDONE"
    <3>1. R(c) \notin port.refs \cup hash
      BY <2>1, <2>2 DEF ReachOK, X, R
    <3> QED  BY <1>1, <2>1, <3>1 DEF Reaching
  <2> QED  BY <1>1, <2>1, <2>2 DEF Reaching
<1>3. ASSUME NEW c \in Clients, pc'[c] = "kwait", rep'[c] # "ok"
      PROVE  my'[c].new \notin port'.refs \cup hash'
  <2>1. pc[c] = "kwait" /\ rep[c] # "ok"
    BY <1>1, <1>3 DEF Reaching
  <2>2. my[c].new \notin port.refs \cup hash
    BY <2>1 DEF ReachOK
  <2> QED  BY <1>1, <1>3, <2>1, <2>2 DEF Reaching
<1> QED  BY <1>2, <1>3 DEF ReachOK, Reaching

\* The handle a clone has made is nobody else's.
LEMMA NewHandles ==
  ASSUME Inv, NEW c \in Clients, pc[c] = "kwait"
  PROVE  /\ my[c].new \in Refs /\ ref[my[c].new].alloc
         /\ \A d \in Clients : pc[d] \in {"opening", "iowait", "copy", "abwait", "kwait"} => R(d) # my[c].new
         /\ \A d \in Clients : pc[d] = "kwait" /\ d # c => my[d].new # my[c].new
         /\ ref[my[c].new].state \notin {"OPENING", "CLOSING"}
<1>1. \A d \in Clients : pc[d] \in {"opening", "iowait", "copy", "abwait", "kwait"} => Using(d)
  BY DEF Using
<1> QED  BY <1>1 DEF Inv, Protocol, TablesOK, NewOK, Typed, LocalsSet

\* A step that leaves the lists and the answers alone.
LEMMA RestReaches ==
  ASSUME Inv, ReachOK, NEW s \in Servers, ClientsStay(s), port'.refs = port.refs, hash' = hash,
         \A p \in Refs : ref'[p].alloc = ref[p].alloc,
         \A c \in Clients : pc[c] = "opening" /\ ref'[R(c)].state = "ABDONE" => ref[R(c)].state = "ABDONE",
         \A c \in Clients : pc[c] = "kwait" /\ rep[c] = "ok" => rep'[c] = "ok",
         InHands' \subseteq InHands,
         pc'[s] \in {"dupwake", "duphash"} => pc[s] \in {"dupwake", "duphash"} /\ got'[s] = got[s]
  PROVE  Reaching(s)
<1>1. \A r \in port.refs \cup hash : r \in Refs /\ ref[r].alloc
  BY DEF ReachOK, Inv, Typed, KernelTyped, ServerTyped, WidePort
<1>2. \A u \in Servers : pc'[u] \in {"dupwake", "duphash"} => got'[u].new \in port.refs
  BY DEF ReachOK, ClientsStay
<1>3. \A m \in InHands' : m.op = "DISCONNECT" => m.pr \notin port.refs
  BY DEF ReachOK
<1> QED  BY <1>1, <1>2, <1>3 DEF Reaching

\* msg_receive() up to the message, the way back from p_svwait, and the rest
\* of a granted DUP.
LEMMA ReceiveServes ==
  ASSUME MsgAssumption, Inv, PendingOK, ReachOK, NEW s \in Servers, ClientsStay(s),
         \/ RecvFind(s) \/ RecvWait(s) \/ RecvBroken(s) \/ RecvNothing(s) \/ ClosePort(s)
         \/ ReplyRuns(s) \/ DupWake(s) \/ DupHash(s)
  PROVE  Serving(s) /\ Reaching(s)
<1>0. /\ pc \in [Threads -> ClientPcs \cup ServerPcs] /\ s \in Threads /\ ref \in [Refs -> WideRef]
      /\ port \in WidePort /\ got \in [Servers -> Sendable \cup Refs \cup {Null}]
  BY DEF Inv, Typed, KernelTyped, ThreadsTyped, ServerTyped, Threads
<1>1. /\ \A u \in Servers : u # s => pc'[u] = pc[u] /\ got'[u] = got[u]
      /\ rep' = rep /\ held' = held
  BY DEF ClientsStay, RecvFind, RecvWait, RecvBroken, RecvNothing, ClosePort, ReplyRuns, DupWake, DupHash, serverVars
<1>2. CASE RecvFind(s) \/ RecvWait(s) \/ RecvBroken(s) \/ RecvNothing(s) \/ ClosePort(s) \/ ReplyRuns(s)
  <2>1. /\ ref' = ref /\ hash' = hash /\ got' = got /\ pc[s] \notin {"rcvd", "dupwake", "duphash"}
        /\ (\E l \in {"find", "rwait", "out", "dport"} : pc' = [pc EXCEPT ![s] = l]) \/ pc' = pc
        /\ \/ port' = port
           \/ \E w : port' = [port EXCEPT !.sema = w]
           \/ \E w : port' = [port EXCEPT !.wait = w]
           \/ \E w : port' = [port EXCEPT !.inproc = FALSE, !.sema = w]
    BY <1>2, ZenonT(60) DEF RecvFind, RecvWait, RecvBroken, RecvNothing, ClosePort, ReplyRuns, Awake, Broken, Goto, serverVars
  <2>2. port'.refs = port.refs /\ port'.queue = port.queue /\ pc'[s] \notin {"rcvd", "dupwake", "duphash"}
    BY <1>0, <2>1 DEF WidePort
  <2>3. InHands' = InHands
    <3>1. \A u \in Servers : pc'[u] = "rcvd" <=> pc[u] = "rcvd"
      BY <1>1, <2>1, <2>2
    <3> QED  BY <2>1, <3>1 DEF InHands
  <2>4. AllMsgs' = AllMsgs
    BY <1>1, <2>2, <2>3 DEF AllMsgs
  <2>5. Serving(s)
    BY <1>1, <2>1, <2>4 DEF Serving, PendingOK
  <2>6. Reaching(s)
    BY <1>1, <2>1, <2>2, <2>3, RestReaches
  <2> QED  BY <2>5, <2>6
<1>3. CASE DupWake(s)
  <2>1. /\ pc[s] = "dupwake" /\ pc' = [pc EXCEPT ![s] = "duphash"] /\ got' = got /\ hash' = hash
        /\ port' = port /\ ref' = [ref EXCEPT ![got[s].pr].iowait = VSema(@)]
    BY <1>3 DEF DupWake, Goto, serverVars
  <2>2. PICK c \in Clients : R(c) = got[s].pr /\ DupOwed(c)
    BY <2>1 DEF Inv, Protocol, CallsOK
  <2>3. PICK r \in Refs : r = got[s].pr /\ r = R(c)
    BY <2>2 DEF DupOwed, Inv, Typed, LocalsSet
  <2>4. ref[r].iowait = Asleep(c) /\ ref[r].state = "IODONE"
    BY <2>2, <2>3 DEF DupOwed, X, R
  <2>5. ref'[r].state = "IODONE" /\ ref'[r].iowait = VSema(Asleep(c))
    BY <1>0, <2>1, <2>3, <2>4 DEF WideRef
  <2>6. ref'[r].iowait.cnt >= 0
    BY <2>5, SemaValues DEF Zero
  <2>7. /\ \A p \in Refs : p # r => ref'[p] = ref[p]
        /\ \A p \in Refs : ref'[p].alloc = ref[p].alloc /\ ref'[p].state = ref[p].state
    BY <1>0, <2>1, <2>3 DEF WideRef
  <2>8. InHands' = InHands
    <3>1. \A u \in Servers : pc'[u] = "rcvd" <=> pc[u] = "rcvd"
      BY <1>0, <1>1, <2>1
    <3> QED  BY <2>1, <3>1 DEF InHands
  <2>9. AllMsgs' = AllMsgs
    BY <1>1, <2>1, <2>8 DEF AllMsgs
  <2>10. Serving(s)
    BY <1>1, <2>1, <2>3, <2>5, <2>6, <2>7, <2>9 DEF Serving, PendingOK
  <2>11. \A d \in Clients : pc[d] = "opening" /\ ref'[R(d)].state = "ABDONE" => ref[R(d)].state = "ABDONE"
    BY <2>7, OpenStates
  <2>12. Reaching(s)
    BY <1>1, <2>1, <2>7, <2>8, <2>11, RestReaches
  <2> QED  BY <2>10, <2>12
<1>4. CASE DupHash(s)
  <2>1. /\ pc[s] = "duphash" /\ pc' = [pc EXCEPT ![s] = "out"] /\ hash' = hash \cup {got[s].new}
        /\ port' = port /\ ref' = ref
    BY <1>4 DEF DupHash, Goto
  <2>2. pc'[s] = "out"
    BY <1>0, <2>1
  <2>3. InHands' = InHands
    <3>1. \A u \in Servers : pc'[u] = "rcvd" <=> pc[u] = "rcvd"
      BY <1>0, <1>1, <2>1
    <3>2. \A u \in Servers : pc[u] = "rcvd" => got'[u] = got[u]
      BY <1>1, <2>1
    <3> QED  BY <3>1, <3>2 DEF InHands
  <2>4. AllMsgs' = AllMsgs
    BY <1>1, <2>1, <2>3 DEF AllMsgs
  <2>5. Serving(s)
    BY <1>1, <2>1, <2>2, <2>4 DEF Serving, PendingOK
  <2>6. port'.refs \cup hash' = port.refs \cup hash
    BY <2>1 DEF ReachOK
  <2>7. \A u \in Servers : pc'[u] \in {"dupwake", "duphash"} => got'[u].new \in port'.refs
    BY <1>1, <2>1, <2>2 DEF ReachOK
  <2>8. \A m \in InHands' : m.op = "DISCONNECT" => m.pr \notin port'.refs
    BY <2>1, <2>3 DEF ReachOK
  <2>9. Reaching(s)
    BY <1>1, <2>1, <2>6, <2>7, <2>8 DEF Reaching, ReachOK
  <2> QED  BY <2>5, <2>9
<1> QED  BY <1>2, <1>3, <1>4

\* msg_receive() takes a message.
LEMMA TakeServes ==
  ASSUME MsgAssumption, Inv, PendingOK, ReachOK, ClonesOK, NEW s \in Servers, ClientsStay(s), RecvTake(s)
  PROVE  Serving(s) /\ Reaching(s)
<1>0. /\ pc \in [Threads -> ClientPcs \cup ServerPcs] /\ s \in Threads /\ ref \in [Refs -> WideRef]
      /\ port \in WidePort /\ got \in [Servers -> Sendable \cup Refs \cup {Null}]
      /\ port.queue \in Seq(Sendable) /\ MessagesOK
  BY MessagesTyped DEF Inv, Protocol, Typed, KernelTyped, ThreadsTyped, ServerTyped, Threads
<1>1. PICK m : m = Head(port.queue)
  OBVIOUS
<1>2. /\ pc[s] = "rwait" /\ port.queue # << >> /\ rep' = rep /\ hash' = hash /\ held' = held
      /\ pc' = [pc EXCEPT ![s] = "rcvd"] /\ got' = [got EXCEPT ![s] = m]
      /\ ref' = [ref EXCEPT ![m.pr].msg = m]
  BY <1>1 DEF RecvTake, Awake, Goto
<1>3. m \in ToSet(port.queue)
  BY <1>0, <1>1, <1>2, TailSpread DEF MessagesOK
<1>4. m \in Sendable /\ m.pr \in Refs /\ m.from \in Clients /\ m.op \in Ops /\ Known(m)
  BY <1>0, <1>3, MessagesTyped DEF Inv, Sendable, Messages, MessagesOK
<1>5. /\ m.op = "CONNECT" => port'.refs = port.refs \cup {m.pr}
      /\ m.op = "DISCONNECT" => port'.refs = port.refs \ {m.pr}
      /\ m.op \notin {"CONNECT", "DISCONNECT"} => port'.refs = port.refs
      /\ port'.queue = Tail(port.queue)
  <2>1. PICK p : p = [port EXCEPT !.queue = Tail(@)]
    OBVIOUS
  <2>2. /\ p.refs = port.refs /\ RefPort(p, m.pr).refs = port.refs \cup {m.pr}
        /\ DerefPort(p, m.pr).refs = port.refs \ {m.pr} /\ p.queue = Tail(port.queue)
        /\ RefPort(p, m.pr).queue = p.queue /\ DerefPort(p, m.pr).queue = p.queue
    BY <1>0, <2>1 DEF RefPort, DerefPort, WidePort
  <2>3. port' = CASE m.op = "CONNECT"    -> RefPort(p, m.pr)
                  [] m.op = "DISCONNECT" -> DerefPort(p, m.pr)
                  [] OTHER               -> p
    BY <1>1, <2>1, Zenon DEF RecvTake
  <2> QED  BY <2>2, <2>3
<1>6. got'[s] = m /\ pc'[s] = "rcvd" /\ \A u \in Servers : u # s => pc'[u] = pc[u] /\ got'[u] = got[u]
  BY <1>0, <1>2
<1>7. InHands' = InHands \cup {m}
  BY <1>2, <1>6 DEF InHands
<1>8. \A n \in AllMsgs : n \in AllMsgs'
  <2>1. \A n \in ToSet(port.queue) : n = m \/ n \in ToSet(port'.queue)
    BY <1>0, <1>1, <1>2, <1>5, TailRest
  <2> QED  BY <1>2, <1>7, <2>1 DEF AllMsgs
<1>9. \A p \in Refs : /\ ref'[p].state = ref[p].state /\ ref'[p].iowait = ref[p].iowait
                      /\ ref'[p].alloc = ref[p].alloc
  BY <1>0, <1>2 DEF WideRef
<1>10. Serving(s)
  BY <1>2, <1>8, <1>9 DEF Serving, PendingOK
<1>11. \A u \in Servers : pc'[u] \notin {"dupwake", "duphash"}
  <2>1. CASE \A u, t \in Servers : u = t
    BY <1>6, <2>1
  <2>2. CASE \A u \in Servers : pc[u] \notin {"dupwake", "duphash"}
    BY <1>6, <2>2
  <2> QED  BY <2>1, <2>2 DEF ClonesOK
<1>12. m.op = "CONNECT" => R(m.from) = m.pr /\ pc[m.from] = "opening" /\ ref[m.pr].state = "OPENING"
  BY <1>4 DEF Known, WaitsFor, StatesOf
<1>13. \A r \in port'.refs \cup hash' : r \in port.refs \cup hash \/ (m.op = "CONNECT" /\ r = m.pr)
  BY <1>2, <1>4, <1>5 DEF Ops
<1>14. \A r \in port.refs \cup hash : r \in Refs /\ ref[r].alloc
  BY DEF ReachOK, Inv, Typed, KernelTyped, ServerTyped, WidePort
<1>15. \A r \in port'.refs \cup hash' : ref'[r].alloc
  BY <1>4, <1>9, <1>13, <1>14 DEF Known
<1>16. m.op = "CONNECT" =>
         \A c \in Clients : /\ pc[c] = "opening" /\ R(c) = m.pr => ref'[m.pr].state # "ABDONE"
                            /\ pc[c] = "kwait" /\ my[c].new = m.pr => rep'[c] = "ok"
  BY <1>4, <1>9, <1>12, NewHandles
<1>17. \A c \in Clients : pc[c] = "opening" /\ ref'[R(c)].state = "ABDONE" => ref[R(c)].state = "ABDONE"
  BY <1>9, OpenStates
<1>18. \A n \in InHands' : n.op = "DISCONNECT" => n.pr \notin port'.refs
  <2>1. InHands = {}
    <3>1. \A u \in Servers : pc[u] # "rcvd"
      BY <1>2, OneReceiver
    <3> QED  BY <3>1 DEF InHands
  <2> QED  BY <1>5, <1>7, <2>1
<1>19. Reaching(s)
  BY <1>2, <1>11, <1>13, <1>15, <1>16, <1>17, <1>18 DEF Reaching
<1> QED  BY <1>10, <1>19

\* A client in an exchange on a handle is in the hash, unless he is being
\* cloned and the server is on its way there.
LEMMA ExchangeHashed ==
  ASSUME MsgAssumption, Inv, ListsOK, ClonesOK, NEW s \in Servers, pc[s] \notin {"dupwake", "duphash"},
         NEW c \in Clients, InExchange(c)
  PROVE  R(c) \in hash
<1>1. SlotsOf(R(c)) # {} /\ R(c) \in Refs
  BY DEF InExchange, Using, Sending, Inv, Protocol, TablesOK, UsersOK, Typed, LocalsSet
<1>2. PICK k \in Slots : slots[k] = R(c)
  BY <1>1 DEF SlotsOf
<1>3. Hashed(R(c))
  BY <1>1, <1>2 DEF ListsOK, InService
<1>4. \A u \in Servers : pc[u] # "duphash"
  BY DEF ClonesOK
<1> QED  BY <1>3, <1>4 DEF Hashed

\* ... and hands it out.
LEMMA ReturnServes ==
  ASSUME MsgAssumption, Inv, ListsOK, PendingOK, ReachOK, ClonesOK, NEW s \in Servers, ClientsStay(s), RecvReturn(s)
  PROVE  Serving(s) /\ Reaching(s)
<1>0. /\ pc \in [Threads -> ClientPcs \cup ServerPcs] /\ ref \in [Refs -> WideRef]
      /\ port \in WidePort /\ s \in Threads /\ MessagesOK
      /\ got \in [Servers -> Sendable \cup Refs \cup {Null}]
  BY DEF Inv, Protocol, Typed, ThreadsTyped, KernelTyped, ServerTyped, Threads
<1>1. PICK m : m = got[s]
  OBVIOUS
<1>2. pc[s] = "rcvd" /\ rep' = rep /\ pc' = [pc EXCEPT ![s] = "out"]
  BY DEF RecvReturn, Goto
<1>3. m \in InHands
  BY <1>1, <1>2 DEF InHands
<1>4. m \in Sendable /\ m.pr \in Refs /\ m.op \in Ops /\ m.from \in Clients /\ Known(m)
  BY <1>0, <1>3, MessagesTyped DEF Inv, AllMsgs, MessagesOK
<1>5. \/ m.op = "CONNECT" /\ hash' = hash \cup {m.pr} /\ held' = held \cup {m} /\ ref' = ref
      \/ /\ m.op = "DISCONNECT" /\ hash' = hash \ {m.pr} /\ held' = {h \in held : h.pr # m.pr}
         /\ ref' = [ref EXCEPT ![m.pr] = FreeRef]
      \/ m.op \notin {"CONNECT", "DISCONNECT"} /\ hash' = hash /\ held' = held \cup {m} /\ ref' = ref
  BY <1>1, <1>4, ZenonT(60) DEF RecvReturn
<1>6. port'.refs = port.refs /\ port'.queue = port.queue
  BY <1>0 DEF RecvReturn, WidePort
<1>7. m.op = "DISCONNECT" => ref[m.pr].state = "CLOSING"
  BY <1>4 DEF Known, StatesOf
<1>8. pc'[s] = "out" /\ \A u \in Servers : u # s => pc'[u] = pc[u] /\ got'[u] = got[u]
  BY <1>0, <1>2 DEF ClientsStay
<1>9. InHands' \subseteq InHands /\ \A n \in InHands : n = m \/ n \in InHands'
  BY <1>1, <1>2, <1>8 DEF InHands
<1>10. \A p \in Refs : ref'[p] = ref[p] \/ (p = m.pr /\ m.op = "DISCONNECT" /\ ref'[p] = FreeRef)
  BY <1>0, <1>5
<1>11. FreeRef.state = "IODONE" /\ FreeRef.iowait.cnt >= 0
  BY DEF FreeRef, NewSema
<1>12. \A n \in AllMsgs : n \in AllMsgs' \/ n.op = "DISCONNECT" \/ ref'[n.pr].state \in {"IODONE", "ABDONE"}
  <2>1. CASE m.op = "DISCONNECT"
    <3>1. ref'[m.pr] = FreeRef
      BY <1>0, <1>4, <1>5, <2>1
    <3>2. \A n \in held : n \in held' \/ n.pr = m.pr
      BY <1>5, <2>1
    <3> QED  BY <1>6, <1>9, <1>11, <2>1, <3>1, <3>2 DEF AllMsgs
  <2>2. CASE m.op # "DISCONNECT"
    BY <1>5, <1>6, <1>9, <2>2 DEF AllMsgs
  <2> QED  BY <2>1, <2>2
<1>13. m.op \notin {"CONNECT", "DISCONNECT"} => m.pr \in hash
  <2>1. m.op \notin {"CONNECT", "DISCONNECT"} => InExchange(m.from) /\ R(m.from) = m.pr
    BY <1>4 DEF Known, WaitsFor, InExchange, Ops
  <2> QED  BY <1>2, <1>4, <2>1, ExchangeHashed
<1>14. \A n \in held' : n.pr \in hash'
  BY <1>5, <1>13 DEF PendingOK
<1>15. Serving(s)
  BY <1>2, <1>10, <1>11, <1>12, <1>14 DEF Serving
<1>16. m.op = "CONNECT" => R(m.from) = m.pr /\ pc[m.from] = "opening" /\ ref[m.pr].state = "OPENING"
  BY <1>4 DEF Known, WaitsFor, StatesOf
<1>17. \A r \in port'.refs \cup hash' :
         \/ r \in port.refs \cup hash /\ (m.op = "DISCONNECT" => r # m.pr)
         \/ m.op = "CONNECT" /\ r = m.pr
  BY <1>3, <1>5, <1>6 DEF ReachOK
<1>18. \A r \in port.refs \cup hash : r \in Refs /\ ref[r].alloc
  BY DEF ReachOK, Inv, Typed, KernelTyped, ServerTyped, WidePort
<1>19. \A r \in port'.refs \cup hash' : ref'[r].alloc
  <2>1. m.op = "CONNECT" => ref'[m.pr].alloc
    BY <1>4, <1>10 DEF Known
  <2> QED  BY <1>10, <1>17, <1>18, <2>1
<1>20. m.op = "CONNECT" =>
         \A c \in Clients : /\ pc[c] = "opening" /\ R(c) = m.pr => ref'[m.pr].state # "ABDONE"
                            /\ pc[c] = "kwait" /\ my[c].new = m.pr => rep'[c] = "ok"
  BY <1>4, <1>5, <1>16, NewHandles
<1>21. \A c \in Clients : pc[c] = "opening" /\ ref'[R(c)].state = "ABDONE" => ref[R(c)].state = "ABDONE"
  BY <1>10, <1>11, OpenStates
<1>22. \A n \in InHands' : n.op = "DISCONNECT" => n.pr \notin port'.refs
  BY <1>6, <1>9 DEF ReachOK
<1>23. \A u \in Servers : pc'[u] \in {"dupwake", "duphash"} => got'[u].new \in port'.refs
  BY <1>6, <1>8 DEF ReachOK
<1>24. \A r \in port'.refs \cup hash' :
         \/ r \in port.refs \cup hash
         \/ \A c \in Clients : /\ pc[c] = "opening" /\ R(c) = r => ref'[r].state # "ABDONE"
                               /\ pc[c] = "kwait" /\ my[c].new = r => rep'[c] = "ok"
  BY <1>17, <1>20
<1>25. Reaching(s)
  BY <1>2, <1>19, <1>21, <1>22, <1>23, <1>24 DEF Reaching
<1> QED  BY <1>15, <1>25

\* The unit an answer gives is the only one.
LEMMA AnswerUnit ==
  ASSUME MsgAssumption, Inv, NEW m \in held
  PROVE  VSema(ref[m.pr].iowait).cnt >= 0
<1>0. PICK c \in Clients : c = m.from
  BY HeldFrom
<1>1. PICK x, l, a, e : x = ref[m.pr] /\ l = pc[c] /\ a = rep[c] /\ e = intr[c]
  OBVIOUS
<1>2. CallAt(l, x, a, e, c) /\ l \in WaitsFor(m.op) /\ m.op \in Ops /\ m.op # "DISCONNECT"
  BY <1>0, <1>1, HeldFrom DEF Inv, Protocol, MessagesOK
<1>3. l \in {"opening", "iowait", "abwait", "kwait"}
  BY <1>2 DEF WaitsFor, Ops
<1>4. x.iowait \in {Asleep(c), Zero, One}
  BY <1>2, <1>3 DEF CallAt
<1>5. VSema(Asleep(c)).cnt = 0 /\ VSema(Zero).cnt = 1 /\ VSema(One).cnt = 2
  BY SemaValues DEF Zero, One, VSema, Asleep
<1> QED  BY <1>1, <1>4, <1>5

\* What the server answers goes, and nothing else does.
LEMMA AnswerPends ==
  ASSUME MsgAssumption, Inv, PendingOK, NEW s \in Servers, ClientsStay(s), NEW m \in held, pc[s] = "out",
         Answered(m), port'.queue = port.queue, InHands' = InHands,
         \/ ref'[m.pr].state \in {"IODONE", "ABDONE"}
         \/ m.op # "ABORT" /\ ref[m.pr].state = "ABWAIT",
         \A p \in Refs : p # m.pr => ref'[p] = ref[p],
         \/ ref'[m.pr].state = ref[m.pr].state /\ ref'[m.pr].iowait = ref[m.pr].iowait
         \/ ref'[m.pr].state \in {"IODONE", "ABDONE"} /\ ref'[m.pr].iowait.cnt >= 0
         \/ /\ pc'[s] = "dupwake" /\ got'[s].pr = m.pr /\ ref'[m.pr].state = "IODONE"
            /\ \A c \in Clients : pc[c] = "kwait" /\ R(c) = m.pr => got'[s].from = c,
         \A n \in held' : n.pr \in hash'
  PROVE  Serving(s)
<1>1. \A n \in held : n \in held' \/ n = m \/ (m.op = "ABORT" /\ n.pr = m.pr)
  BY DEF Answered
<1>2. m.op = "ABORT" => ref'[m.pr].state \in {"IODONE", "ABDONE"}
  OBVIOUS
<1>3. \A n \in AllMsgs :
        \/ n \in AllMsgs' \/ n.op = "DISCONNECT"
        \/ ref'[n.pr].state \in {"IODONE", "ABDONE"}
        \/ n.op # "ABORT" /\ ref[n.pr].state = "ABWAIT"
  BY <1>1, <1>2 DEF AllMsgs
<1> QED  BY <1>3 DEF Serving

\* msg_accept(), and every answer to a request but a granted DUP.
LEMMA ReplyServes ==
  ASSUME MsgAssumption, Inv, PendingOK, ReachOK, NEW s \in Servers, ClientsStay(s), NEW m \in held,
         \/ MsgAccept(s, m) \/ ReplyAbort(s, m) \/ ReplyRefused(s, m)
         \/ \E a \in Answers : ReplyDone(s, m, a)
  PROVE  Serving(s) /\ Reaching(s)
<1>0. /\ pc \in [Threads -> ClientPcs \cup ServerPcs] /\ s \in Threads /\ ref \in [Refs -> WideRef]
      /\ rep \in [Clients -> {"none", "ok", "segs", "err"}] /\ Null \notin Sendable
  BY NullIsNoMessage DEF NullIsNoMessage, Sendable, Inv, Typed, KernelTyped, ThreadsTyped, Threads
<1>1. /\ pc[s] = "out" /\ port' = port /\ hash' = hash /\ held' \subseteq held /\ got' = got
      /\ (pc' = pc \/ pc' = [pc EXCEPT ![s] = "svwait"])
      /\ Answered(m)
  BY DEF MsgAccept, ReplyAbort, ReplyRefused, ReplyDone, Holds, Answered, Goto
<1>2. /\ m \in Sendable /\ m.pr \in Refs /\ m.from \in Clients /\ m.op \in Ops /\ pc[m.from] \in WaitsFor(m.op)
      /\ ref[m.pr].state \in StatesOf(m.op)
      /\ m.op # "ABORT" /\ ref[m.pr].state # "ABWAIT" => ref[m.pr].msg = m
  BY HeldFrom
<1>3. m.pr \in hash /\ \A n \in held' : n.pr \in hash'
  BY <1>1 DEF PendingOK
<1>4. InHands' = InHands
  <2>1. pc'[s] # "rcvd" /\ pc[s] # "rcvd" /\ \A u \in Servers : u # s => pc'[u] = pc[u]
    BY <1>0, <1>1 DEF ClientsStay
  <2>2. \A u \in Servers : pc'[u] = "rcvd" <=> pc[u] = "rcvd"
    BY <2>1
  <2> QED  BY <1>1, <2>2 DEF InHands
<1>5. PICK w : w = VSema(ref[m.pr].iowait) /\ w.cnt >= 0
  BY AnswerUnit
<1>6. /\ \A p \in Refs : p # m.pr => ref'[p] = ref[p]
      /\ ref'[m.pr].alloc = ref[m.pr].alloc
      /\ \/ ref'[m.pr] = ref[m.pr] /\ m.op # "ABORT" /\ ref[m.pr].state = "ABWAIT"
         \/ /\ ref'[m.pr].state = "IODONE" \/ (ref'[m.pr].state = "ABDONE" /\ m.op = "ABORT")
            /\ ref'[m.pr].iowait = w
  <2>1. CASE MsgAccept(s, m)
    <3>1. ref[m.pr].state = "OPENING"
      BY <1>2, <2>1 DEF MsgAccept, StatesOf
    <3>2. ref' = [ref EXCEPT ![m.pr].state = "IODONE", ![m.pr].iowait = VSema(@)]
      BY <1>3, <2>1, <3>1 DEF MsgAccept
    <3> QED  BY <1>0, <1>2, <1>5, <3>2 DEF WideRef
  <2>2. CASE ReplyAbort(s, m)
    <3>1. /\ ref[m.pr].state = "ABWAIT"
          /\ \/ m.op # "ABORT" /\ ref' = ref
             \/ m.op = "ABORT" /\ ref' = [ref EXCEPT ![m.pr].state = "ABDONE", ![m.pr].iowait = VSema(@)]
      BY <2>2, Zenon DEF ReplyAbort
    <3> QED  BY <1>0, <1>2, <1>5, <3>1 DEF WideRef
  <2>3. CASE ReplyRefused(s, m)
    <3>1. m.op \in {"IO", "DUP", "ABORT"} /\ ref[m.pr].state # "ABWAIT" /\ ~Wanted(m)
      BY <1>3, <2>3 DEF ReplyRefused
    <3>2. m.op \in {"IO", "DUP"} /\ ref[m.pr].state = "IOWAIT"
      BY <1>2, <3>1 DEF StatesOf
    <3>3. ref[m.pr].msg = m /\ m # Null
      BY <1>0, <1>2, <3>2
    <3> QED  BY <1>3, <3>1, <3>2, <3>3 DEF Wanted
  <2>4. ASSUME NEW a \in Answers, ReplyDone(s, m, a)
        PROVE  /\ \A p \in Refs : p # m.pr => ref'[p] = ref[p]
               /\ ref'[m.pr].alloc = ref[m.pr].alloc /\ ref'[m.pr].state = "IODONE" /\ ref'[m.pr].iowait = w
    <3>1. \E v : ref' = [ref EXCEPT ![m.pr].msg = Null, ![m.pr].state = "IODONE",
                                    ![m.pr].iowait = VSema(@), ![m.pr].svwait = v]
      BY <2>4 DEF ReplyDone
    <3> QED  BY <1>0, <1>2, <1>5, <3>1 DEF WideRef
  <2> QED  BY <2>1, <2>2, <2>3, <2>4
<1>7. Serving(s)
  BY <1>1, <1>3, <1>4, <1>5, <1>6, AnswerPends
<1>8. \A c \in Clients : pc[c] = "opening" /\ ref'[R(c)].state = "ABDONE" => ref[R(c)].state = "ABDONE"
  <2>1. m.op = "ABORT" => ref[m.pr].state = "ABWAIT"
    BY <1>2 DEF StatesOf
  <2> QED  BY <1>6, <2>1, OpenStates
<1>9. \A c \in Clients : pc[c] = "kwait" /\ rep[c] = "ok" => rep'[c] = "ok"
  <2>1. CASE MsgAccept(s, m) \/ ReplyAbort(s, m) \/ ReplyRefused(s, m)
    BY <2>1 DEF MsgAccept, ReplyAbort, ReplyRefused
  <2>2. ASSUME NEW a \in Answers, ReplyDone(s, m, a)
        PROVE  \A c \in Clients : pc[c] = "kwait" /\ rep[c] = "ok" => rep'[c] = "ok"
    <3>1. /\ ref[m.pr].state = "IOWAIT" /\ m.op \in {"IO", "DUP", "ABORT"}
          /\ rep' = [rep EXCEPT ![ref[m.pr].msg.from] = a]
      BY <2>2, ZenonT(30) DEF ReplyDone, Wanted
    <3>2. m.op # "ABORT" /\ ref[m.pr].msg = m
      BY <1>2, <3>1 DEF StatesOf
    <3>3. rep[m.from] = "none"
      BY <3>1, <3>2, AnswerFinds
    <3> QED  BY <1>0, <1>2, <3>1, <3>2, <3>3
  <2> QED  BY <2>1, <2>2
<1>10. \A p \in Refs : ref'[p].alloc = ref[p].alloc
  BY <1>6
<1>11. pc'[s] \notin {"dupwake", "duphash"} /\ port'.refs = port.refs
  BY <1>0, <1>1
<1>12. Reaching(s)
  BY <1>1, <1>4, <1>8, <1>9, <1>10, <1>11, RestReaches
<1> QED  BY <1>7, <1>12

\* msg_err(): the client is told, and a refused connection leaves the tables.
LEMMA ErrServes ==
  ASSUME MsgAssumption, Inv, PendingOK, ReachOK, ClonesOK, NEW s \in Servers, ClientsStay(s), NEW m \in held,
         MsgErr(s, m)
  PROVE  Serving(s) /\ Reaching(s)
<1>0. /\ pc \in [Threads -> ClientPcs \cup ServerPcs] /\ s \in Threads /\ ref \in [Refs -> WideRef]
      /\ rep \in [Clients -> {"none", "ok", "segs", "err"}] /\ port \in WidePort /\ Null \notin Sendable
  BY NullIsNoMessage DEF NullIsNoMessage, Sendable, Inv, Typed, KernelTyped, ThreadsTyped, Threads
<1>1. /\ m \in Sendable /\ m.pr \in Refs /\ m.from \in Clients /\ R(m.from) = m.pr
      /\ ref[m.pr].state \in StatesOf(m.op) /\ pc[m.from] \in WaitsFor(m.op)
      /\ m.op # "ABORT" /\ ref[m.pr].state # "ABWAIT" => ref[m.pr].msg = m
  BY HeldFrom
<1>2. /\ pc[s] = "out" /\ pc' = pc /\ got' = got /\ m.op \in {"CONNECT", "IO", "DUP"} /\ Answered(m)
  BY DEF MsgErr, Holds
<1>3. held' = held \ {m}
  BY <1>2 DEF Answered
<1>4. m.pr \in hash /\ \A n \in held' : n.pr \in hash
  BY <1>3 DEF PendingOK
<1>5. ref[m.pr].port
  <2>1. Known(m)
    BY DEF Inv, Protocol, MessagesOK
  <2> QED  BY <1>1, <2>1 DEF Known, Inv, Protocol, ServerStays
<1>6. /\ ref[m.pr].state = "OPENING" \/ ref[m.pr].state = "IOWAIT" \/ ref[m.pr].state = "ABWAIT"
      /\ ref[m.pr].state = "OPENING" <=> m.op = "CONNECT"
  BY <1>1, <1>2 DEF StatesOf
<1>7. ref[m.pr].state # "ABWAIT" => ref[m.pr].msg = m /\ m # Null
  BY <1>0, <1>1, <1>2
<1>8. PICK w : w = VSema(ref[m.pr].iowait) /\ w.cnt >= 0
  BY AnswerUnit
<1>9. InHands' = InHands
  BY <1>2 DEF InHands
<1>10. CASE ref[m.pr].state = "ABWAIT"
  <2>1. ref' = ref /\ rep' = rep /\ hash' = hash /\ port' = port
    BY <1>10, ZenonT(30) DEF MsgErr
  <2>2. m.op # "ABORT"
    BY <1>2
  <2>3. Serving(s)
    BY <1>2, <1>4, <1>9, <1>10, <2>1, <2>2, AnswerPends
  <2>4. Reaching(s)
    BY <1>2, <1>9, <2>1, RestReaches
  <2> QED  BY <2>3, <2>4
<1>11. CASE ref[m.pr].state # "ABWAIT"
  <2>1. /\ ref' = [ref EXCEPT ![m.pr].state = IF @ = "OPENING" THEN "ABDONE" ELSE "IODONE",
                              ![m.pr].iowait = VSema(@)]
        /\ rep' = ErrTold(ref[m.pr].msg.from)
        /\ hash' = IF ref[m.pr].state = "OPENING" THEN hash \ {m.pr} ELSE hash
        /\ port' = IF ref[m.pr].state = "OPENING" THEN DerefPort(port, m.pr) ELSE port
    BY <1>4, <1>5, <1>6, <1>7, <1>11 DEF MsgErr
  <2>2. rep' = [rep EXCEPT ![m.from] = "err"]
    BY <1>7, <1>11, <2>1 DEF ErrTold
  <2>3. /\ \A p \in Refs : p # m.pr => ref'[p] = ref[p]
        /\ ref'[m.pr].alloc = ref[m.pr].alloc /\ ref'[m.pr].iowait = w
        /\ ref'[m.pr].state = IF ref[m.pr].state = "OPENING" THEN "ABDONE" ELSE "IODONE"
    BY <1>0, <1>1, <1>8, <2>1 DEF WideRef
  <2>4. rep[m.from] = "none"
    BY <1>2, <1>6, <1>11, AnswerFinds
  <2>5. \A c \in Clients : pc[c] = "kwait" /\ rep[c] = "ok" => rep'[c] = "ok"
    BY <1>0, <1>1, <2>2, <2>4
  <2>6. \A p \in Refs : ref'[p].alloc = ref[p].alloc
    BY <2>3
  <2>7. CASE ref[m.pr].state = "IOWAIT"
    <3>1. hash' = hash /\ port' = port /\ ref'[m.pr].state = "IODONE"
      BY <2>1, <2>3, <2>7
    <3>2. Serving(s)
      BY <1>2, <1>4, <1>8, <1>9, <2>3, <3>1, AnswerPends
    <3>3. \A c \in Clients : pc[c] = "opening" /\ ref'[R(c)].state = "ABDONE" => ref[R(c)].state = "ABDONE"
      BY <2>3, <3>1, OpenStates
    <3>4. Reaching(s)
      BY <1>2, <1>9, <2>5, <2>6, <3>1, <3>3, RestReaches
    <3> QED  BY <3>2, <3>4
  <2>8. CASE ref[m.pr].state = "OPENING"
    <3>1. hash' = hash \ {m.pr} /\ port' = DerefPort(port, m.pr) /\ ref'[m.pr].state = "ABDONE"
      BY <2>1, <2>3, <2>8
    <3>2. port'.queue = port.queue /\ port'.refs = port.refs \ {m.pr}
      BY <1>0, <3>1 DEF DerefPort, WidePort
    <3>3. \A n \in held' : n.pr # m.pr
      BY <1>3, <1>6, <2>8, ConnectAlone
    <3>4. \A n \in held' : n.pr \in hash'
      BY <1>4, <3>1, <3>3
    <3>5. Serving(s)
      BY <1>2, <1>8, <1>9, <2>3, <3>1, <3>2, <3>4, AnswerPends
    <3>6. port'.refs \cup hash' = (port.refs \cup hash) \ {m.pr}
      BY <3>1, <3>2
    <3>7. \A r \in port.refs \cup hash : r \in Refs /\ ref[r].alloc
      BY DEF ReachOK, Inv, Typed, KernelTyped, ServerTyped, WidePort
    <3>8. \A c \in Clients : pc[c] = "opening" /\ ref'[R(c)].state = "ABDONE" =>
            ref[R(c)].state = "ABDONE" \/ R(c) \notin port'.refs \cup hash'
      BY <2>3, <3>6, OpenStates
    <3>9. \A n \in InHands' : n.op = "DISCONNECT" => n.pr \notin port'.refs
      BY <1>9, <3>2 DEF ReachOK
    <3>10. \A u \in Servers : pc'[u] \notin {"dupwake", "duphash"}
      BY <1>2 DEF ClonesOK
    <3>11. Reaching(s)
      BY <2>5, <2>6, <3>6, <3>7, <3>8, <3>9, <3>10 DEF Reaching
    <3> QED  BY <3>5, <3>11
  <2> QED  BY <1>6, <1>11, <2>7, <2>8
<1> QED  BY <1>10, <1>11

\* msg_reply() grants a DUP: the new handle is on the list, its client is owed
\* a unit.
LEMMA GrantServes ==
  ASSUME MsgAssumption, Inv, PendingOK, ReachOK, NEW s \in Servers, ClientsStay(s), NEW m \in held, NEW a \in Answers,
         ReplyDup(s, m, a)
  PROVE  Serving(s) /\ Reaching(s)
<1>0. /\ pc \in [Threads -> ClientPcs \cup ServerPcs] /\ s \in Threads /\ port \in WidePort
      /\ ref \in [Refs -> WideRef] /\ rep \in [Clients -> {"none", "ok", "segs", "err"}]
      /\ got \in [Servers -> Sendable \cup Refs \cup {Null}]
  BY DEF Inv, Typed, KernelTyped, ThreadsTyped, ServerTyped, Threads
<1>1. /\ pc[s] = "out" /\ hash' = hash /\ held' \subseteq held /\ pc' = [pc EXCEPT ![s] = "dupwake"]
      /\ m.op \in {"IO", "DUP", "ABORT"} /\ ref[m.pr].state = "IOWAIT" /\ Answered(m)
      /\ ref' = [ref EXCEPT ![m.pr].state = "IODONE"]
  BY DEF ReplyDup, Holds, Wanted, Answered, Goto
<1>2. /\ m.pr \in Refs /\ m.from \in Clients /\ R(m.from) = m.pr /\ ref[m.pr].state \in StatesOf(m.op)
      /\ m.op # "ABORT" /\ ref[m.pr].state # "ABWAIT" => ref[m.pr].msg = m
      /\ pc[m.from] \in WaitsFor(m.op)
  BY HeldFrom
<1>3. ref[m.pr].msg = m
  BY <1>1, <1>2 DEF StatesOf
<1>4. /\ m.op = "DUP" /\ port' = RefPort(port, m.new) /\ got' = [got EXCEPT ![s] = m]
      /\ rep' = [rep EXCEPT ![m.from] = "ok"]
  BY <1>3 DEF ReplyDup
<1>5. m.new = my[m.from].new /\ pc[m.from] = "kwait"
  BY <1>2, <1>4 DEF Inv, Protocol, MessagesOK, Known, WaitsFor
<1>6. port'.refs = port.refs \cup {m.new} /\ port'.queue = port.queue
  BY <1>0, <1>4 DEF RefPort, WidePort
<1>7. /\ pc'[s] = "dupwake" /\ got'[s] = m /\ \A u \in Servers : u # s => pc'[u] = pc[u] /\ got'[u] = got[u]
  BY <1>0, <1>1, <1>4 DEF ClientsStay
<1>8. InHands' = InHands
  <2>1. \A u \in Servers : pc'[u] = "rcvd" <=> pc[u] = "rcvd"
    BY <1>1, <1>7
  <2>2. \A u \in Servers : pc[u] = "rcvd" => got'[u] = got[u]
    BY <1>1, <1>7
  <2> QED  BY <2>1, <2>2 DEF InHands
<1>9. /\ \A p \in Refs : p # m.pr => ref'[p] = ref[p]
      /\ \A p \in Refs : ref'[p].alloc = ref[p].alloc
      /\ ref'[m.pr].state = "IODONE"
  BY <1>0, <1>1, <1>2 DEF WideRef
<1>10. \A c \in Clients : pc[c] = "kwait" /\ R(c) = m.pr => c = m.from
  <2>1. \A c \in Clients : pc[c] = "kwait" => Has(c)
    BY WaitersHave DEF Waiting, InExchange
  <2> QED  BY <1>2, <1>5, <2>1, OneCall
<1>11. \A n \in held' : n.pr \in hash'
  BY <1>1 DEF PendingOK
<1>12. Serving(s)
  BY <1>1, <1>6, <1>7, <1>8, <1>9, <1>10, <1>11, AnswerPends
<1>13. port'.refs \cup hash' = port.refs \cup hash \cup {m.new}
  BY <1>1, <1>6
<1>14. /\ m.new \in Refs /\ ref[m.new].alloc /\ ref[m.new].state # "CLOSING"
       /\ \A c \in Clients : pc[c] = "opening" => R(c) # m.new
       /\ \A c \in Clients : pc[c] = "kwait" /\ my[c].new = m.new => c = m.from
  BY <1>2, <1>5, NewHandles
<1>15. \A r \in port.refs \cup hash : r \in Refs /\ ref[r].alloc
  BY DEF ReachOK, Inv, Typed, KernelTyped, ServerTyped, WidePort
<1>16. \A r \in port'.refs \cup hash' : ref'[r].alloc
  BY <1>9, <1>13, <1>14, <1>15
<1>17. rep'[m.from] = "ok" /\ \A c \in Clients : rep[c] = "ok" => rep'[c] = "ok"
  BY <1>0, <1>2, <1>4
<1>18. \A r \in port'.refs \cup hash' :
         \/ r \in port.refs \cup hash
         \/ \A c \in Clients : /\ pc[c] = "opening" /\ R(c) = r => ref'[r].state # "ABDONE"
                               /\ pc[c] = "kwait" /\ my[c].new = r => rep'[c] = "ok"
  BY <1>13, <1>14, <1>17
<1>19. \A c \in Clients : pc[c] = "opening" /\ ref'[R(c)].state = "ABDONE" => ref[R(c)].state = "ABDONE"
  BY <1>9, OpenStates
<1>20. \A n \in InHands' : n.op = "DISCONNECT" => n.pr \notin port'.refs
  <2>1. \A n \in InHands : n.op = "DISCONNECT" => ref[n.pr].state = "CLOSING"
    BY DEF Inv, Protocol, MessagesOK, Known, StatesOf
  <2> QED  BY <1>6, <1>8, <1>14, <2>1 DEF ReachOK
<1>21. \A u \in Servers : pc'[u] \in {"dupwake", "duphash"} => got'[u].new \in port'.refs
  BY <1>6, <1>7 DEF ReachOK
<1>22. Reaching(s)
  BY <1>16, <1>17, <1>18, <1>19, <1>20, <1>21 DEF Reaching
<1> QED  BY <1>12, <1>22

\* An event answers nobody.
LEMMA SignalServes ==
  ASSUME MsgAssumption, Inv, PendingOK, ReachOK, NEW t \in Threads, Signal(t)
  PROVE  PendingOK' /\ ReachOK'
<1>0. ref \in [Refs -> WideRef] /\ port \in WidePort
  BY DEF Inv, Typed, KernelTyped
<1>1. /\ pc' = pc /\ my' = my /\ rep' = rep /\ got' = got /\ hash' = hash /\ held' = held
      /\ \/ ref' = ref
         \/ \E r, w : ref' = [ref EXCEPT ![r].sema = w]
         \/ /\ t \in Clients /\ pc[t] = "iowait"
            /\ \E w : ref' = [ref EXCEPT ![R(t)].iowait = w]
      /\ \/ port' = port
         \/ \E w : port' = [port EXCEPT !.sema = w]
         \/ \E w : port' = [port EXCEPT !.wait = w]
  BY DEF Signal, clientVars, serverVars
<1>2. port'.refs = port.refs /\ port'.queue = port.queue
  BY <1>0, <1>1 DEF WidePort
<1>3. ASSUME NEW p \in Refs
      PROVE  /\ ref'[p].state = ref[p].state /\ ref'[p].alloc = ref[p].alloc
             /\ \/ ref'[p].iowait = ref[p].iowait
                \/ t \in Clients /\ pc[t] = "iowait" /\ R(t) = p
  <2>1. CASE ref' = ref
    BY <2>1
  <2>2. CASE \E r, w : ref' = [ref EXCEPT ![r].sema = w]
    BY <1>0, <2>2 DEF WideRef
  <2>3. CASE t \in Clients /\ pc[t] = "iowait" /\ \E w : ref' = [ref EXCEPT ![R(t)].iowait = w]
    BY <1>0, <2>3 DEF WideRef
  <2> QED  BY <1>1, <2>1, <2>2, <2>3
<1>4. InHands' = InHands
  BY <1>1 DEF InHands
<1>5. AllMsgs' = AllMsgs
  BY <1>1, <1>2, <1>4 DEF AllMsgs
<1>6. \A c \in Clients : R(c)' = R(c) /\ (pc[c] # "out" => R(c) \in Refs)
  BY <1>1 DEF R, Inv, Typed, LocalsSet
<1>7. \A c \in Clients : pc[c] # "out" => X(c)'.state = X(c).state
  BY <1>3, <1>6 DEF X, R
<1>8. ASSUME NEW c \in Clients, pc[c] = "kwait"
      PROVE  X(c)'.iowait = X(c).iowait
  <2>1. ~(t \in Clients /\ pc[t] = "iowait" /\ R(t) = R(c))
    <3>1. \A d \in Clients : pc[d] \in {"iowait", "kwait"} => Has(d)
      BY WaitersHave DEF Waiting, InExchange
    <3> QED  BY <1>8, <3>1, OneCall
  <2> QED  BY <1>3, <1>6, <1>8, <2>1 DEF X, R
<1>9. /\ \A c \in Clients : Unanswered(c)' => Unanswered(c)
      /\ \A c \in Clients : DupOwed(c)' => DupOwed(c)
  <2>1. \A c \in Clients : Unanswered(c)' => Unanswered(c)
    BY <1>1, <1>7 DEF Unanswered
  <2>2. \A c \in Clients : DupOwed(c)' => DupOwed(c)
    BY <1>1, <1>7, <1>8 DEF DupOwed, Asleep
  <2> QED  BY <2>1, <2>2
<1>10. PendingOK'
  <2>1. \A m \in held' : m.pr \in hash'
    BY <1>1 DEF PendingOK
  <2>2. \A c \in Clients : Unanswered(c)' => \E m \in AllMsgs' : Asked(c, m)'
    BY <1>1, <1>5, <1>6, <1>9 DEF PendingOK, Asked
  <2>3. \A c \in Clients : DupOwed(c)' =>
          \E s \in Servers : pc'[s] = "dupwake" /\ got'[s].from = c /\ got'[s].pr = R(c)'
    BY <1>1, <1>6, <1>9 DEF PendingOK
  <2> QED  BY <2>1, <2>2, <2>3 DEF PendingOK
<1>11. ReachOK'
  <2>1. \A r \in port.refs \cup hash : r \in Refs
    BY DEF Inv, Typed, KernelTyped, ServerTyped, WidePort
  <2>2. \A r \in port'.refs \cup hash' : ref'[r].alloc
    BY <1>1, <1>2, <1>3, <2>1 DEF ReachOK
  <2>3. \A c \in Clients : pc'[c] = "opening" /\ X(c)'.state = "ABDONE" => R(c)' \notin port'.refs \cup hash'
    BY <1>1, <1>2, <1>6, <1>7 DEF ReachOK
  <2>4. /\ \A c \in Clients : pc'[c] = "kwait" /\ rep'[c] # "ok" => my'[c].new \notin port'.refs \cup hash'
        /\ \A m \in InHands' : m.op = "DISCONNECT" => m.pr \notin port'.refs
        /\ \A s \in Servers : pc'[s] \in {"dupwake", "duphash"} => got'[s].new \in port'.refs
    BY <1>1, <1>2, <1>4 DEF ReachOK
  <2> QED  BY <2>2, <2>3, <2>4 DEF ReachOK
<1> QED  BY <1>10, <1>11

\* All this is true throughout.
LEMMA PendingStep ==
  ASSUME MsgAssumption, Inv, port'.named, ListsOK, ClonesOK, PendingOK, ReachOK, [Next]_vars
  PROVE  PendingOK' /\ ReachOK'
<1>1. CASE UNCHANGED vars
  <2>1. /\ pc' = pc /\ my' = my /\ rep' = rep /\ got' = got /\ hash' = hash /\ held' = held
        /\ ref' = ref /\ port' = port
    BY <1>1 DEF vars
  <2>2. PendingOK'
    BY <2>1 DEF PendingOK, Unanswered, Asked, Asks, DupOwed, AllMsgs, InHands, X, R
  <2>3. ReachOK'
    BY <2>1 DEF ReachOK, InHands, X, R
  <2> QED  BY <2>2, <2>3
<1>2. ASSUME NEW c \in Clients, ClientCalls(c) \/ ClientRuns(c)
      PROVE  PendingOK' /\ ReachOK'
  <2>1. OthersStay(c)
    BY <1>2, ClientAlone DEF Inv
  <2>2. Asking(c)
    BY <1>2, ClientStepAsks
  <2> QED  BY <2>1, <2>2, ClientAsks, ClientReaches
<1>3. ASSUME NEW s \in Servers,
             RecvFind(s) \/ ServerRuns(s) \/ ClosePort(s) \/ \E m \in held : ServerAnswers(s, m)
      PROVE  PendingOK' /\ ReachOK'
  <2>1. /\ ClientsStay(s)
        /\ \/ RecvFind(s) \/ RecvWait(s) \/ RecvBroken(s) \/ RecvTake(s) \/ RecvNothing(s) \/ RecvReturn(s)
           \/ ReplyRuns(s) \/ DupWake(s) \/ DupHash(s) \/ ClosePort(s)
           \/ \E m \in held : ServerAnswers(s, m)
    BY <1>3, ServerAlone
  <2>2. ASSUME NEW m \in held, ServerAnswers(s, m)
        PROVE  Serving(s) /\ Reaching(s)
    <3>1. \/ MsgErr(s, m)
          \/ \/ MsgAccept(s, m) \/ ReplyAbort(s, m) \/ ReplyRefused(s, m)
             \/ \E a \in Answers : ReplyDone(s, m, a)
          \/ \E a \in Answers : ReplyDup(s, m, a)
      BY <2>2, Zenon DEF ServerAnswers
    <3> QED  BY <2>1, <3>1, ReplyServes, ErrServes, GrantServes
  <2>3. Serving(s) /\ Reaching(s)
    BY <2>1, <2>2, ReceiveServes, TakeServes, ReturnServes
  <2> QED  BY <2>1, <2>3, ServerPends, ServerReaches
<1>4. CASE Next
  <2>1. \/ \E c \in Clients : ClientCalls(c) \/ ClientRuns(c)
        \/ \E s \in Servers : RecvFind(s) \/ ServerRuns(s) \/ ClosePort(s) \/ \E m \in held : ServerAnswers(s, m)
        \/ \E t \in Threads : Signal(t)
    BY <1>4, Zenon DEF Next
  <2> QED  BY <1>2, <1>3, <2>1, SignalServes
<1> QED  BY <1>1, <1>4

LEMMA PendingInit ==
  ASSUME MsgAssumption, Init
  PROVE  PendingOK /\ ReachOK
<1>1. /\ \A c \in Clients : pc[c] = "out"
      /\ \A s \in Servers : pc[s] = "out"
      /\ held = {} /\ hash = {} /\ port.refs = {}
  BY DEF Init, Threads
<1>2. InHands = {}
  BY <1>1 DEF InHands
<1> QED  BY <1>1, <1>2 DEF PendingOK, ReachOK, Unanswered, DupOwed

\* What it means for a client that sleeps ...
LEMMA PendingMeans ==
  ASSUME Inv, PendingOK
  PROVE  NoneForgotten
<1> SUFFICES ASSUME NEW c \in Clients, pc[c] \in {"opening", "iowait", "abwait", "kwait"}, Queued(X(c).iowait, c)
             PROVE  \/ \E m \in UnderWay \cup {h \in held : h.pr \in hash} :
                         m.from = c /\ m.pr = R(c) /\ pc[c] \in WaitsFor(m.op)
                    \/ \E s \in Servers : pc[s] = "dupwake" /\ got[s].from = c
  BY DEF NoneForgotten
<1>1. CallAt(pc[c], X(c), rep[c], intr[c], c)
  BY DEF Inv, Protocol, CallsOK, Waiting, InExchange
<1>2. X(c).iowait # Zero /\ X(c).iowait # One
  BY SemaValues
<1>3. Unanswered(c) \/ DupOwed(c)
  BY <1>1, <1>2 DEF CallAt, Unanswered, DupOwed
<1>4. CASE Unanswered(c)
  <2>1. PICK m \in AllMsgs : Asked(c, m)
    BY <1>4 DEF PendingOK
  <2>2. pc[c] \in WaitsFor(m.op) /\ m.from = c /\ m.pr = R(c)
    BY <2>1 DEF Asked, Asks, WaitsFor
  <2>3. m \in UnderWay \cup {h \in held : h.pr \in hash}
    BY <2>1 DEF AllMsgs, UnderWay, InHands, PendingOK
  <2> QED  BY <2>2, <2>3
<1>5. CASE DupOwed(c)
  BY <1>5 DEF PendingOK
<1> QED  BY <1>3, <1>4, <1>5

\* ... and for the tables.
LEMMA ReachMeans ==
  ASSUME Inv, ReachOK
  PROVE  NoDangling
<1> SUFFICES ASSUME NEW r \in Refs,
                    \/ r \in port.refs \cup hash
                    \/ \E k \in Slots : slots[k] = r
                    \/ \E c \in Clients : R(c) = r /\ pc[c] \notin {"out", "closing"}
             PROVE  ref[r].alloc
  BY DEF NoDangling
<1>1. CASE r \in port.refs \cup hash
  BY <1>1 DEF ReachOK
<1>2. CASE \E k \in Slots : slots[k] = r
  BY <1>2 DEF Inv, Protocol, TablesOK, HandlesKept, SlotsOf
<1>3. CASE \E c \in Clients : R(c) = r /\ pc[c] \notin {"out", "closing"}
  BY <1>3 DEF Inv, Protocol, TablesOK, UsersOK, Using
<1> QED  BY <1>1, <1>2, <1>3

\* The three invariants together.
LEMMA ServiceInvariance ==
  ASSUME Orderly, Serial
  PROVE  Spec => [](PendingOK /\ ReachOK)
<1>1. Init => ListsOK /\ ClonesOK /\ PendingOK /\ ReachOK
  BY MsgAssumption, ListsInit, ClonesInit, PendingInit
<1>2. Inv /\ Inv' /\ ListsOK /\ ClonesOK /\ PendingOK /\ ReachOK /\ [Next]_vars
        => ListsOK' /\ ClonesOK' /\ PendingOK' /\ ReachOK'
  BY MsgAssumption, ListsStep, ClonesStep, PendingStep DEF Inv, Protocol, ServerStays
<1> QED  BY <1>1, <1>2, Invariance, PTL DEF Spec

\* A client that sleeps for an answer has a message queued, or with a server
\* that still finds him in its hash, or a server on the way to wake him:
\* whatever msg_receive(), msg_reply(), msg_err() and the events do between
\* kernmsg_send() or msg_send() and its wakeup.
THEOREM NobodyForgotten ==
  ASSUME Orderly, Serial
  PROVE  Spec => []NoneForgotten
<1>1. Inv /\ PendingOK => NoneForgotten
  BY PendingMeans
<1> QED  BY <1>1, Invariance, ServiceInvariance, PTL

\* No list, no hash and no table holds a portref that has been freed, neither
\* by the client whose connection or clone is refused nor by the server that
\* receives the last message of a handle.
THEOREM NothingDangles ==
  ASSUME Orderly, Serial
  PROVE  Spec => []NoDangling
<1>1. Inv /\ ReachOK => NoDangling
  BY ReachMeans
<1> QED  BY <1>1, Invariance, ServiceInvariance, PTL

-----------------------------------------------------------------------------
(* The close of the port, in systems without clone().                      *)

\* Nobody asks for a clone.
NoClones ==
  /\ \A c \in Clients : pc[c] \notin {"cfind", "kwait"}
  /\ \A m \in ToSet(port.queue) : m.op # "DUP"
  /\ \A r \in Refs : ref[r].msg # Null => ref[r].msg.op # "DUP"

\* While the port has its name: the thread that closes it is the only one, and
\* the last one to have come to it; ...
EndsIn(q, s) == q = << >> \/ q[Len(q)] = s

LastAtPort ==
  /\ \A s \in Servers : pc[s] = "dport" => ~port.inproc /\ EndsIn(port.sema.q, s)
  /\ \A s, u \in Servers : pc[s] = "dport" /\ pc[u] = "dport" => s = u

\* ... those in p_wait are about to receive; ...
WaitersReceive ==
  /\ QueueDistinct(port.wait)
  /\ \A s \in Servers : Queued(port.wait, s) => pc[s] = "rwait" /\ ~intr[s]

\* ... and a handle that is being closed is still on the port's list.
ShutsListed == \A c \in Clients : pc[c] = "shut" => R(c) \in port.refs

CloserOK == LastAtPort /\ WaitersReceive /\ ShutsListed

\* Once it has lost its name nobody comes to the port any more, but for the
\* one who is taking it down.
GateShut ==
  /\ ~port.inproc /\ port.sema.q = << >> /\ port.wait.q = << >>
  /\ \E s \in Servers : pc[s] \in ShuttingPcs /\ \A u \in Servers \ {s} : pc[u] \notin ShuttingPcs
  /\ \A s \in Servers : pc[s] \notin {"rwait", "rcvd", "dport"} /\ (pc[s] = "find" => intr[s])

\* A client that sends has the handle in a slot.
Sends(c) == pc[c] \in {"find", "iowait", "copy", "abwait"}

\* A handle that is cut off, or that shut_server() will find.
Listed(r) == ref[r].state # "OPENING" /\ (ref[r].port => r \in port.refs)

HandlesShut ==
  /\ \A c \in Clients : Sends(c) => SlotsOf(R(c)) # {}
  /\ \A k \in Slots : InService(k) => Listed(slots[k])
  /\ \A c \in Clients : pc[c] = "shut" => Listed(R(c))
  /\ \A c \in Clients : pc[c] = "opening" =>
       /\ X(c).state \in {"OPENING", "IODONE", "ABDONE"}
       /\ X(c).state = "IODONE" /\ X(c).port => R(c) \in port.refs
  /\ \A m \in held : m.op = "CONNECT" /\ ref[m.pr].state = "OPENING" /\ ref[m.pr].port => m.pr \in port.refs

\* Messages that come after the queue was emptied are from clients that are
\* still on the list.
QueueShut ==
  \A s \in Servers :
    /\ pc[s] \in {"bounce", "client", "chash", "gone"} =>
         \A m \in ToSet(port.queue) : m.pr \in port.refs /\ ref[m.pr].state # "OPENING"
    /\ pc[s] = "gone" => port.refs = {}

-----------------------------------------------------------------------------
(* The clients of a port that is closed.                                   *)

\* A handle that opens is its client's alone.
LEMMA OpenerAlone ==
  ASSUME MsgAssumption, Typed, CountInv, NEW d \in Clients, pc[d] = "opening"
  PROVE  /\ SlotsOf(R(d)) = {}
         /\ \A c \in Clients : pc[c] = "shut" => R(c) # R(d)
         /\ \A c \in Clients : pc[c] = "opening" /\ R(c) = R(d) => c = d
<1>1. PICK r \in Refs : r = R(d)
  BY DEF Typed, LocalsSet
<1>2. /\ SlotsFor(r) = {my[d].slot} /\ my[d].slot \in Slots /\ slots[my[d].slot] = Reserved
      /\ \A c \in Clients : Reserving(c) /\ c # d => my[c].slot # my[d].slot
  BY <1>1 DEF CountInv, FreshOf, Opens, NewOf, SlotsKept, Reserving, Typed, LocalsSet
<1>3. SlotsOf(r) = {}
  BY <1>2 DEF SlotsOf, SlotsFor, MsgAssumption
<1>4. ASSUME NEW c \in Clients, pc[c] = "shut", R(c) = r
      PROVE  FALSE
  BY <1>2, <1>4 DEF CountInv, EndOf, Ends, Threads
<1>5. ASSUME NEW c \in Clients, pc[c] = "opening", R(c) = r
      PROVE  c = d
  <2>1. SlotsFor(r) = {my[c].slot} /\ Reserving(c)
    BY <1>5 DEF CountInv, FreshOf, Opens, NewOf, Reserving
  <2> QED  BY <1>2, <2>1
<1> QED  BY <1>1, <1>3, <1>4, <1>5

\* What a client's step leaves alone then.
Fades(c) ==
  /\ port'.refs = port.refs /\ port'.wait.q = << >>
  /\ \A r \in Refs : (ref'[r].port => ref[r].port) /\ (ref'[r].state = "OPENING" => ref[r].state = "OPENING")
  /\ \A m \in ToSet(port'.queue) : \/ m \in ToSet(port.queue)
                                   \/ m.pr \in port.refs /\ ref'[m.pr].state # "OPENING"
  /\ \A d \in Clients : d # c /\ Sends(d) => SlotsOf(R(d))' # {}
  /\ \A k \in Slots : slots'[k] = slots[k] \/ slots'[k] \notin Refs \/ Listed(slots'[k])
  /\ \A d \in Clients : d # c /\ pc[d] = "opening" => ref'[R(d)].state = ref[R(d)].state
  /\ Sends(c)' => SlotsOf(R(c))' # {}
  /\ pc'[c] = "shut" => Listed(my'[c].pr)
  /\ pc'[c] # "opening"

LEMMA FadesKeeps ==
  ASSUME MsgAssumption, Typed, Typed', GateShut, HandlesShut, QueueShut, NEW c \in Clients, OthersStay(c), Fades(c)
  PROVE  GateShut' /\ HandlesShut' /\ QueueShut'
<1>1. \A r \in Refs : Listed(r) => Listed(r)'
  BY DEF Fades, Listed
<1>2. GateShut'
  BY DEF GateShut, OthersStay, Fades
<1>3. \A d \in Clients : Sends(d)' => SlotsOf(R(d))' # {}
  <2>1. \A d \in Clients : d # c => R(d)' = R(d) /\ (Sends(d)' <=> Sends(d))
    BY DEF OthersStay, R, Sends
  <2>2. \A d \in Clients : d # c => SlotsOf(R(d))' = {k \in Slots : slots'[k] = R(d)}
    BY <2>1 DEF SlotsOf
  <2> QED  BY <2>1, <2>2 DEF Fades, SlotsOf
<1>4. \A k \in Slots : InService(k)' => Listed(slots[k])'
  BY <1>1 DEF Fades, HandlesShut, InService
<1>5. \A d \in Clients : pc'[d] = "shut" => Listed(R(d))'
  <2>1. \A d \in Clients : pc'[d] = "shut" => my'[d].pr \in Refs /\ Listed(my'[d].pr)
    <3>1. \A d \in Clients : pc'[d] = "shut" => my'[d].pr \in Refs
      BY DEF Typed, LocalsSet, R
    <3> QED  BY <3>1 DEF OthersStay, Fades, HandlesShut, R
  <2> QED  BY <1>1, <2>1 DEF R, Listed
<1>6. \A d \in Clients : pc'[d] = "opening" =>
        /\ X(d)'.state \in {"OPENING", "IODONE", "ABDONE"}
        /\ X(d)'.state = "IODONE" /\ X(d)'.port => R(d)' \in port'.refs
  <2>1. \A d \in Clients : pc'[d] = "opening" =>
          d # c /\ pc[d] = "opening" /\ my'[d] = my[d] /\ R(d) \in Refs
    BY DEF Fades, OthersStay, Typed, LocalsSet
  <2> QED  BY <2>1 DEF Fades, HandlesShut, X, R
<1>7. \A m \in held' : m.op = "CONNECT" /\ ref'[m.pr].state = "OPENING" /\ ref'[m.pr].port => m.pr \in port'.refs
  <2>1. held' = held /\ \A m \in held : m.pr \in Refs
    BY DEF OthersStay, Typed, ServerTyped, Sendable, Messages
  <2> QED  BY <2>1 DEF Fades, HandlesShut
<1>8. HandlesShut'
  BY <1>3, <1>4, <1>5, <1>6, <1>7 DEF HandlesShut
<1>9. QueueShut'
  <2>1. \A m \in ToSet(port.queue) : m.pr \in Refs
    BY MessagesTyped DEF Sendable, Messages
  <2> QED  BY <2>1 DEF QueueShut, Fades, OthersStay
<1> QED  BY <1>2, <1>8, <1>9

\* A queue that is shortened has nothing new, ...
LEMMA RemoveSubset ==
  ASSUME NEW q \in Seq(Sendable), NEW k \in 1..Len(q)
  PROVE  ToSet(RemoveAt(q, k)) \subseteq ToSet(q)
<1>0. /\ RemoveAt(q, k) \in Seq(Sendable) /\ Len(RemoveAt(q, k)) = Len(q) - 1
      /\ \A i \in 1..(Len(q) - 1) : RemoveAt(q, k)[i] = IF i < k THEN q[i] ELSE q[i + 1]
  BY RemoveAtIs
<1>1. PICK p, n : p = RemoveAt(q, k) /\ n = Len(q)
  OBVIOUS
<1>2. /\ p \in Seq(Sendable) /\ Len(p) = n - 1 /\ n \in Nat /\ k \in 1..n /\ k \in Nat
      /\ \A i \in 1..(n - 1) : p[i] = IF i < k THEN q[i] ELSE q[i + 1]
  <2>1. Len(q) \in Nat
    OBVIOUS
  <2> QED  BY <1>0, <1>1, <2>1
<1>3. DOMAIN p = 1..(n - 1) /\ DOMAIN q = 1..n
  BY <1>1, <1>2
<1>4. \A i \in 1..(n - 1) : \E j \in 1..n : p[i] = q[j]
  <2> TAKE i \in 1..(n - 1)
  <2>1. CASE i < k
    BY <1>2, <2>1
  <2>2. CASE ~(i < k)
    BY <1>2, <2>2
  <2> QED  BY <2>1, <2>2
<1> QED  BY <1>1, <1>3, <1>4 DEF ToSet

\* ... and one that grows has one more.
LEMMA EnqueueFades ==
  ASSUME port \in WidePort, port.wait.q = << >>, NEW m \in Sendable, port' = Enqueue(port, m)
  PROVE  /\ port'.refs = port.refs /\ port'.wait.q = << >>
         /\ \A n \in ToSet(port'.queue) : n \in ToSet(port.queue) \/ n = m
<1>1. /\ port.queue \in Seq(Sendable) /\ port.wait \in SemaType(Servers)
      /\ port'.queue = Append(port.queue, m) /\ port'.wait = VSema(port.wait) /\ port'.refs = port.refs
  BY DEF WidePort, Enqueue
<1>2. port'.wait.q = << >>
  BY <1>1 DEF VSema, SemaType
<1>3. ToSet(port'.queue) = ToSet(port.queue) \cup {m}
  BY <1>1, ToSetAppend
<1> QED  BY <1>1, <1>2, <1>3

\* A step on handle z that gives no slot away.
LEMMA StaysFaded ==
  ASSUME MsgAssumption, Typed, GateShut, HandlesShut, NEW c \in Clients, OthersStay(c), NEW z \in Refs,
         \A r \in Refs \ {z} : ref'[r] = ref[r],
         ref'[z].port => ref[z].port, ref'[z].state = "OPENING" => ref[z].state = "OPENING",
         \A d \in Clients : d # c /\ pc[d] = "opening" => R(d) # z,
         slots' = slots, port'.refs = port.refs, port'.wait.q = << >>,
         \A m \in ToSet(port'.queue) : \/ m \in ToSet(port.queue)
                                       \/ m.pr = z /\ z \in port.refs /\ ref'[z].state # "OPENING",
         Sends(c)' => Sends(c) /\ my'[c].pr = my[c].pr,
         pc'[c] \notin {"shut", "opening"}
  PROVE  Fades(c)
<1>1. \A r \in Refs : (ref'[r].port => ref[r].port) /\ (ref'[r].state = "OPENING" => ref[r].state = "OPENING")
  OBVIOUS
<1>2. \A d \in Clients : Sends(d) /\ my'[d].pr = my[d].pr => SlotsOf(R(d))' # {}
  <2>1. \A d \in Clients : my'[d].pr = my[d].pr => SlotsOf(R(d))' = SlotsOf(R(d))
    BY DEF SlotsOf, R
  <2> QED  BY <2>1 DEF HandlesShut
<1>3. \A d \in Clients : d # c /\ Sends(d) => SlotsOf(R(d))' # {}
  BY <1>2 DEF OthersStay
<1>4. Sends(c)' => SlotsOf(R(c))' # {}
  BY <1>2
<1>5. \A d \in Clients : d # c /\ pc[d] = "opening" => ref'[R(d)].state = ref[R(d)].state
  <2>1. \A d \in Clients : pc[d] = "opening" => R(d) \in Refs
    BY DEF Typed, LocalsSet
  <2> QED  BY <2>1
<1> QED  BY <1>1, <1>3, <1>4, <1>5 DEF Fades

\* The rest of a call is about its own handle.
LEMMA SendsLeave ==
  ASSUME MsgAssumption, Typed, NEW c \in Clients,
         \/ SendPost(c) \/ SendDone(c) \/ SendMap(c) \/ CopyDone(c) \/ MapFails(c)
         \/ IntrGone(c) \/ IntrWithdraw(c) \/ IntrAbort(c) \/ IntrDone(c) \/ AbortDone(c)
  PROVE  /\ \A r \in Refs \ {R(c)} : ref'[r] = ref[r]
         /\ R(c) \in Refs /\ ref'[R(c)].port = ref[R(c)].port /\ ref'[R(c)].msg = ref[R(c)].msg
         /\ ref'[R(c)].state = ref[R(c)].state \/ ref'[R(c)].state \in {"IODONE", "IOWAIT", "ABWAIT"}
<1>0. /\ my \in [Clients -> Local] /\ ref \in [Refs -> WideRef]
  BY DEF Typed, ThreadsTyped, KernelTyped
<1>2. pc[c] # "out"
  BY ZenonT(60) DEF SendPost, SendDone, SendMap, CopyDone, MapFails, IntrGone, IntrWithdraw, IntrAbort, IntrDone,
       AbortDone, Interrupted, Awake, Broken
<1>6. PICK z \in Refs : z = R(c) /\ ref[z] \in WideRef /\ ref[z] = X(c)
  BY <1>0, <1>2 DEF Typed, LocalsSet, X, R
<1> DEFINE Left == /\ \A r \in Refs \ {z} : ref'[r] = ref[r]
                   /\ ref'[z].port = ref[z].port /\ ref'[z].msg = ref[z].msg
                   /\ ref'[z].state = ref[z].state \/ ref'[z].state \in {"IODONE", "IOWAIT", "ABWAIT"}
<1>10. Left
  <2>1. CASE \E n \in BOOLEAN : ref' = [ref EXCEPT ![z] = Out(@, n)]
    BY <1>0, <1>6, <2>1 DEF Out, WideRef
  <2>2. CASE \E n \in BOOLEAN : ref' = [ref EXCEPT ![z] = Out([@ EXCEPT !.state = "IODONE"], n)]
    BY <1>0, <1>6, <2>2 DEF Out, WideRef
  <2>3. CASE \E n \in BOOLEAN : ref' = [ref EXCEPT ![z] = Out(TakeBack(@), n)]
    <3>1. PICK n \in BOOLEAN : ref' = [ref EXCEPT ![z] = Out(TakeBack(@), n)]
      BY <2>3
    <3>2. /\ TakeBack(ref[z]) \in WideRef /\ TakeBack(ref[z]).port = ref[z].port
          /\ TakeBack(ref[z]).state = ref[z].state /\ TakeBack(ref[z]).msg = ref[z].msg
      BY <1>6, RefsTyped DEF TakeBack, WideRef
    <3> QED  BY <1>0, <1>6, <3>1, <3>2 DEF Out, WideRef
  <2>4. CASE \E st \in {"IOWAIT", "ABWAIT"} : ref' = [ref EXCEPT ![z].state = st, ![z].iowait = PSema(@, c)]
    BY <1>0, <1>6, <2>4 DEF WideRef
  <2>5. CASE ref' = [ref EXCEPT ![z].sema = VSema(@)]
    BY <1>0, <1>6, <2>5 DEF WideRef
  <2>6. CASE ref' = ref
    BY <2>6
  <2>7. my[c].nseg \in BOOLEAN
    BY <1>0 DEF Local
  <2>8. \/ \E n \in BOOLEAN : ref' = [ref EXCEPT ![z] = Out(@, n)]
        \/ \E n \in BOOLEAN : ref' = [ref EXCEPT ![z] = Out([@ EXCEPT !.state = "IODONE"], n)]
        \/ \E n \in BOOLEAN : ref' = [ref EXCEPT ![z] = Out(TakeBack(@), n)]
        \/ \E st \in {"IOWAIT", "ABWAIT"} : ref' = [ref EXCEPT ![z].state = st, ![z].iowait = PSema(@, c)]
        \/ ref' = [ref EXCEPT ![z].sema = VSema(@)]
        \/ ref' = ref
    BY <1>6, <2>7, ZenonT(60) DEF SendPost, SendDone, SendMap, CopyDone, MapFails, IntrGone, IntrWithdraw, IntrAbort,
       IntrDone, AbortDone
  <2> QED  BY <2>1, <2>2, <2>3, <2>4, <2>5, <2>6, <2>8
<1> QED  BY <1>6, <1>10

\* The rest of a call: it answers for nobody, and posts on the list only.
LEMMA SendsFade ==
  ASSUME MsgAssumption, Typed, CountInv, NoClones, GateShut, HandlesShut, NEW c \in Clients,
         \/ SendPost(c) \/ SendDone(c) \/ SendMap(c) \/ CopyDone(c) \/ MapFails(c)
         \/ IntrGone(c) \/ IntrWithdraw(c) \/ IntrAbort(c) \/ IntrDone(c) \/ AbortDone(c)
  PROVE  Fades(c)
<1>0. /\ pc \in [Threads -> ClientPcs \cup ServerPcs] /\ c \in Threads /\ my \in [Clients -> Local]
      /\ ref \in [Refs -> WideRef] /\ port \in WidePort /\ port.queue \in Seq(Sendable)
  BY DEF Typed, ThreadsTyped, KernelTyped, Threads, WidePort
<1>1. OthersStay(c)
  BY ClientAlone, Zenon DEF ClientRuns
<1>2. pc[c] \in {"find", "iowait", "copy", "abwait"}
  BY ZenonT(60) DEF SendPost, SendDone, SendMap, CopyDone, MapFails, IntrGone, IntrWithdraw, IntrAbort, IntrDone,
       AbortDone, Interrupted, Awake, Broken
<1>3. \/ \E l \in {"iowait", "copy", "abwait"} : Goto(c, l) /\ my' = my
      \/ Goto(c, "out")
  BY ZenonT(60) DEF SendPost, SendDone, SendMap, CopyDone, MapFails, IntrGone, IntrWithdraw, IntrAbort, IntrDone,
       AbortDone, Return
<1>4. /\ pc'[c] \in {"out", "iowait", "copy", "abwait"}
      /\ Sends(c)' => Sends(c) /\ my'[c].pr = my[c].pr
  BY <1>0, <1>2, <1>3 DEF Goto, Sends
<1>5. slots' = slots
  BY ZenonT(60) DEF SendPost, SendDone, SendMap, CopyDone, MapFails, IntrGone, IntrWithdraw, IntrAbort, IntrDone,
       AbortDone
<1>6. PICK z \in Refs : z = R(c) /\ ref[z] \in WideRef /\ ref[z] = X(c)
  BY <1>0, <1>2 DEF Typed, LocalsSet, X, R
<1>7. PICK k \in Slots : slots[k] = z
  <2>1. SlotsOf(z) # {}
    BY <1>2, <1>6 DEF HandlesShut, Sends
  <2> QED  BY <2>1 DEF SlotsOf
<1>8. Listed(z)
  BY <1>6, <1>7 DEF HandlesShut, InService
<1>9. \A d \in Clients : pc[d] = "opening" => R(d) # z
  BY <1>7, OpenerAlone DEF SlotsOf
<1>10. /\ \A r \in Refs \ {z} : ref'[r] = ref[r]
       /\ ref'[z].port = ref[z].port
       /\ ref'[z].state # "OPENING"
  BY <1>6, <1>8, SendsLeave DEF Listed
<1>11. /\ port'.refs = port.refs /\ port'.wait.q = << >>
       /\ \A m \in ToSet(port'.queue) : m \in ToSet(port.queue) \/ (m.pr = z /\ z \in port.refs)
  <2>0. port.wait.q = << >> /\ port.wait \in SemaType(Servers)
    BY <1>0 DEF GateShut, WidePort
  <2>1. CASE IntrWithdraw(c)
    <3>1. PlaceOf(c) \in 1..Len(port.queue)
      BY <2>1 DEF IntrWithdraw, InQueue, PlaceOf
    <3>2. port'.queue = RemoveAt(port.queue, PlaceOf(c)) /\ port'.refs = port.refs /\ port'.wait = AdjSema(port.wait, -1)
      BY <1>0, <2>1 DEF IntrWithdraw, WidePort
    <3> QED  BY <1>0, <2>0, <3>1, <3>2, RemoveSubset DEF AdjSema, SemaType
  <2>2. CASE IntrAbort(c)
    <3>1. PICK m : m = Message("ABORT", c, z, Null, FALSE)
      OBVIOUS
    <3>2. m \in Sendable /\ m.pr = z
      BY <1>6, <3>1, SentTyped DEF Message
    <3>3. port' = Enqueue(port, m) /\ ref[z].port
      BY <1>6, <2>2, <3>1 DEF IntrAbort
    <3> QED  BY <1>0, <1>8, <2>0, <3>2, <3>3, EnqueueFades DEF Listed
  <2>3. CASE SendPost(c)
    <3>1. PICK m : m = Message("IO", c, z, Null, my[c].kind = "write")
      OBVIOUS
    <3>2. m \in Sendable /\ m.pr = z
      <4>1. (my[c].kind = "write") \in BOOLEAN
        OBVIOUS
      <4> QED  BY <1>6, <3>1, <4>1, SentTyped DEF Message
    <3>3. port' = port \/ (port' = Enqueue(port, m) /\ ref[z].port)
      BY <1>6, <2>3, <3>1 DEF SendPost
    <3> QED  BY <1>0, <1>8, <2>0, <3>2, <3>3, EnqueueFades DEF Listed
  <2>4. CASE ~IntrWithdraw(c) /\ ~IntrAbort(c) /\ ~SendPost(c)
    <3>1. port' = port
      BY <2>4, ZenonT(60) DEF SendDone, SendMap, CopyDone, MapFails, IntrGone, IntrDone, AbortDone
    <3> QED  BY <2>0, <3>1
  <2> QED  BY <2>1, <2>2, <2>3, <2>4
<1>12. pc'[c] \notin {"shut", "opening"}
  BY <1>4
<1> QED  BY <1>1, <1>4, <1>5, <1>8, <1>9, <1>10, <1>11, <1>12, StaysFaded DEF Listed

\* A call that begins, or goes no further.
LEMMA FindsFade ==
  ASSUME MsgAssumption, Typed, CountInv, NoClones, GateShut, HandlesShut, NEW c \in Clients,
         \/ \E k \in Slots, kd \in Kinds : SendFind(c, k, kd)
         \/ FindBroken(c) \/ ShutDone(c)
  PROVE  Fades(c)
<1>0. /\ pc \in [Threads -> ClientPcs \cup ServerPcs] /\ c \in Threads /\ my \in [Clients -> Local]
      /\ ref \in [Refs -> WideRef] /\ port \in WidePort /\ port.wait.q = << >>
  BY DEF Typed, ThreadsTyped, KernelTyped, Threads, GateShut
<1>1. OthersStay(c)
  BY ClientAlone, Zenon DEF ClientRuns, ClientCalls
<1>2. ASSUME NEW k \in Slots, NEW kd \in Kinds, SendFind(c, k, kd)
      PROVE  Fades(c)
  <2>1. PICK z, y : z = slots[k] /\ y = [NoCall EXCEPT !.slot = k, !.pr = z, !.kind = kd, !.nseg = kd # "send"]
    OBVIOUS
  <2>2. /\ z \in Refs /\ Goto(c, "find") /\ slots' = slots /\ port' = port
        /\ ref' = [ref EXCEPT ![z].sema = PSema(@, c)] /\ my' = [my EXCEPT ![c] = y]
    BY <1>2, <2>1, Zenon DEF SendFind, InService
  <2>3. R(c)' = z /\ pc'[c] = "find"
    BY <1>0, <2>1, <2>2 DEF Goto, R, NoCall
  <2>4. \A r \in Refs : ref'[r].port = ref[r].port /\ ref'[r].state = ref[r].state
    BY <1>0, <2>2 DEF WideRef
  <2>5. SlotsOf(R(c))' # {}
    BY <2>1, <2>2, <2>3 DEF SlotsOf
  <2>6. \A d \in Clients : d # c /\ Sends(d) => SlotsOf(R(d))' # {}
    <3>1. \A d \in Clients : d # c => SlotsOf(R(d))' = SlotsOf(R(d))
      BY <1>1, <2>2 DEF SlotsOf, R, OthersStay
    <3> QED  BY <3>1 DEF HandlesShut
  <2>7. \A d \in Clients : pc[d] = "opening" => R(d) \in Refs
    BY DEF Typed, LocalsSet
  <2> QED  BY <1>0, <2>2, <2>3, <2>4, <2>5, <2>6, <2>7 DEF Fades
<1>3. ASSUME FindBroken(c) \/ ShutDone(c)
      PROVE  Fades(c)
  <2>1. pc[c] # "cfind"
    BY DEF NoClones
  <2>2. slots' = slots /\ ref' = ref /\ port' = port /\ Return(c)
    BY <1>3, <2>1, Zenon DEF FindBroken, ShutDone, Broken
  <2>3. pc'[c] = "out"
    BY <1>0, <2>2 DEF Return, Goto
  <2>4. \A d \in Clients : d # c /\ Sends(d) => SlotsOf(R(d))' # {}
    <3>1. \A d \in Clients : d # c => SlotsOf(R(d))' = SlotsOf(R(d))
      BY <1>1, <2>2 DEF SlotsOf, R, OthersStay
    <3> QED  BY <3>1 DEF HandlesShut
  <2> QED  BY <1>0, <2>2, <2>3, <2>4 DEF Fades, Sends
<1> QED  BY <1>2, <1>3

\* Slots that are filled: the handle in them is on the list, or cut off.
LEMMA SlotsFade ==
  ASSUME MsgAssumption, Typed, CountInv, NoClones, GateShut, HandlesShut, NEW c \in Clients,
         MsgConnectDone(c) \/ \E k, j \in Slots : ForkPort(c, k, j)
  PROVE  Fades(c)
<1>0. /\ pc \in [Threads -> ClientPcs \cup ServerPcs] /\ c \in Threads /\ my \in [Clients -> Local]
      /\ ref \in [Refs -> WideRef] /\ port \in WidePort /\ port.wait.q = << >>
      /\ slots \in [Slots -> Refs \cup {Null, Reserved}] /\ Null \notin Refs /\ Reserved \notin Refs
  BY DEF Typed, ThreadsTyped, KernelTyped, Threads, GateShut, MsgAssumption
<1>1. OthersStay(c)
  BY ClientAlone, Zenon DEF ClientRuns, ClientCalls
<1>2. ASSUME NEW j \in Slots, slots[j] \notin Refs, NEW q, slots' = [slots EXCEPT ![j] = q],
             NEW d \in Clients, Sends(d), my'[d].pr = my[d].pr
      PROVE  SlotsOf(R(d))' # {}
  <2>1. R(d) \in Refs /\ SlotsOf(R(d)) # {}
    BY <1>2 DEF HandlesShut, Sends, Typed, LocalsSet
  <2>2. PICK k \in Slots : slots[k] = R(d)
    BY <2>1 DEF SlotsOf
  <2>3. slots'[k] = R(d)'
    BY <1>0, <1>2, <2>1, <2>2 DEF R
  <2> QED  BY <2>3 DEF SlotsOf
<1>3. CASE MsgConnectDone(c)
  <2>1. PICK z : z = R(c)
    OBVIOUS
  <2>2. PICK j : j = my[c].slot
    OBVIOUS
  <2>3. /\ pc[c] = "opening" /\ Goto(c, "out") /\ port' = port
        /\ \/ slots' = [slots EXCEPT ![j] = z] /\ ref' = ref /\ ref[z].port /\ ref[z].state = "IODONE"
           \/ slots' = [slots EXCEPT ![j] = Null] /\ ref' = [ref EXCEPT ![z] = FreeRef]
    BY <1>3, <2>1, <2>2 DEF MsgConnectDone, Awake, Return, X, R
  <2>4. z \in Refs /\ j \in Slots /\ pc'[c] = "out" /\ slots[j] = Reserved
    BY <1>0, <2>1, <2>2, <2>3 DEF Typed, LocalsSet, Goto, CountInv, SlotsKept, Reserving
  <2>5. FreeRef.port = FALSE /\ FreeRef.state = "IODONE"
    BY DEF FreeRef
  <2>6. \A r \in Refs : (ref'[r].port => ref[r].port) /\ (ref'[r].state = "OPENING" => ref[r].state = "OPENING")
    BY <1>0, <2>3, <2>4, <2>5
  <2>7. \A k \in Slots : slots'[k] = slots[k] \/ slots'[k] \notin Refs \/ Listed(slots'[k])
    <3>1. ref[z].port /\ ref[z].state = "IODONE" => Listed(z)
      BY <2>1, <2>3, <2>4 DEF HandlesShut, X, R, Listed
    <3> QED  BY <1>0, <2>3, <2>4, <3>1
  <2>8. \A d \in Clients : d # c /\ Sends(d) => SlotsOf(R(d))' # {}
    BY <1>0, <1>1, <1>2, <2>3, <2>4 DEF OthersStay
  <2>9. \A d \in Clients : d # c /\ pc[d] = "opening" => ref'[R(d)].state = ref[R(d)].state
    <3>1. \A d \in Clients : d # c /\ pc[d] = "opening" => R(d) # z
      BY <2>1, <2>3, OpenerAlone
    <3>2. \A d \in Clients : pc[d] = "opening" => R(d) \in Refs
      BY DEF Typed, LocalsSet
    <3> QED  BY <1>0, <2>3, <2>4, <3>1, <3>2
  <2> QED  BY <1>0, <2>3, <2>4, <2>6, <2>7, <2>8, <2>9 DEF Fades, Sends
<1>4. ASSUME NEW k \in Slots, NEW j \in Slots, ForkPort(c, k, j)
      PROVE  Fades(c)
  <2>1. PICK z : z = slots[k]
    OBVIOUS
  <2>2. /\ pc[c] = "out" /\ pc' = pc /\ my' = my /\ port' = port /\ z \in Refs /\ slots[j] = Null
        /\ slots' = [slots EXCEPT ![j] = z] /\ ref' = [ref EXCEPT ![z].refs = @ + 1]
    BY <1>4, <2>1, Zenon DEF ForkPort, InService, FreeSlot
  <2>3. Listed(z)
    BY <2>1, <2>2 DEF HandlesShut, InService
  <2>4. \A r \in Refs : ref'[r].port = ref[r].port /\ ref'[r].state = ref[r].state
    BY <1>0, <2>2 DEF WideRef
  <2>5. \A d \in Clients : d # c /\ Sends(d) => SlotsOf(R(d))' # {}
    BY <1>0, <1>2, <2>2
  <2>6. \A i \in Slots : slots'[i] = slots[i] \/ slots'[i] \notin Refs \/ Listed(slots'[i])
    BY <1>0, <2>2, <2>3
  <2>7. \A d \in Clients : pc[d] = "opening" => R(d) \in Refs
    BY DEF Typed, LocalsSet
  <2> QED  BY <1>0, <2>2, <2>4, <2>5, <2>6, <2>7 DEF Fades, Sends
<1> QED  BY <1>3, <1>4

\* A slot that is emptied is not the last one of a handle in use.
LEMMA DropsFade ==
  ASSUME MsgAssumption, Polite, IsFiniteSet(Slots), Typed, CountInv, NoClones, GateShut, HandlesShut,
         NEW c \in Clients, NEW k \in Slots, MsgDisconnect(c, k)
  PROVE  Fades(c)
<1>0. /\ pc \in [Threads -> ClientPcs \cup ServerPcs] /\ c \in Threads /\ my \in [Clients -> Local]
      /\ ref \in [Refs -> WideRef] /\ port.wait.q = << >>
      /\ slots \in [Slots -> Refs \cup {Null, Reserved}] /\ Null \notin Refs
  BY DEF Typed, ThreadsTyped, KernelTyped, Threads, GateShut, MsgAssumption
<1>1. OthersStay(c)
  BY ClientAlone, Zenon DEF ClientCalls
<1>2. PICK z, y : z = slots[k] /\ y = [NoCall EXCEPT !.pr = z]
  OBVIOUS
<1>3. /\ pc[c] = "out" /\ port' = port /\ z \in Refs
      /\ ~LastRef(z) \/ ~InUse(z)
      /\ slots' = [slots EXCEPT ![k] = Null] /\ ref' = [ref EXCEPT ![z].refs = @ - 1]
      /\ \/ LastRef(z) /\ Goto(c, "shut") /\ my' = [my EXCEPT ![c] = y]
         \/ ~LastRef(z) /\ pc' = pc /\ my' = my
  BY <1>2, Zenon DEF MsgDisconnect, InService, DeletePortref, Polite
<1>4. /\ pc'[c] \in {"shut", "out"} /\ (pc'[c] = "shut" => my'[c].pr = z)
  BY <1>0, <1>2, <1>3 DEF Goto, NoCall
<1>5. Listed(z)
  BY <1>2, <1>3 DEF HandlesShut, InService
<1>6. \A r \in Refs : ref'[r].port = ref[r].port /\ ref'[r].state = ref[r].state
  BY <1>0, <1>3 DEF WideRef
<1>7. SlotsFor(z) = SlotsOf(z)
  <2>1. ASSUME NEW d \in Clients, NEW j, Makes(d, j, z)
        PROVE  FALSE
    <3>1. pc[d] = "opening" /\ R(d) = z
      BY <2>1 DEF Makes, Opens, NewOf, NoClones
    <3> QED  BY <1>2, <3>1, OpenerAlone DEF SlotsOf
  <2> QED  BY <2>1 DEF SlotsFor, SlotsOf
<1>8. ~LastRef(z) => \E j \in Slots : j # k /\ slots[j] = z
  <2>1. SUFFICES ASSUME ~LastRef(z), \A j \in Slots : slots[j] = z => j = k
                 PROVE  FALSE
    OBVIOUS
  <2>2. SlotsOf(z) = {k}
    BY <1>2, <2>1 DEF SlotsOf
  <2>3. ref[z].refs = 1
    BY <1>3, <1>7, <2>2, FS_Singleton DEF CountInv, CountOf
  <2> QED  BY <2>1, <2>3 DEF LastRef
<1>9. ASSUME NEW d \in Clients, d # c, Sends(d)
      PROVE  SlotsOf(R(d))' # {}
  <2>1. R(d) \in Refs /\ R(d)' = R(d) /\ SlotsOf(R(d)) # {} /\ pc[d] # "out"
    BY <1>1, <1>9 DEF HandlesShut, Sends, Typed, LocalsSet, OthersStay, R
  <2>2. CASE R(d) = z
    <3>1. ~LastRef(z)
      BY <1>3, <2>1, <2>2 DEF InUse
    <3>2. PICK j \in Slots : j # k /\ slots[j] = z
      BY <1>8, <3>1
    <3>3. slots'[j] = R(d)'
      BY <1>0, <1>3, <2>1, <2>2, <3>2
    <3> QED  BY <3>3 DEF SlotsOf
  <2>3. CASE R(d) # z
    <3>1. PICK j \in Slots : slots[j] = R(d)
      BY <2>1 DEF SlotsOf
    <3>2. slots'[j] = R(d)'
      BY <1>0, <1>2, <1>3, <2>1, <2>3, <3>1
    <3> QED  BY <3>2 DEF SlotsOf
  <2> QED  BY <2>2, <2>3
<1>10. \A i \in Slots : slots'[i] = slots[i] \/ slots'[i] \notin Refs
  BY <1>0, <1>3
<1>11. \A d \in Clients : pc[d] = "opening" => R(d) \in Refs
  BY DEF Typed, LocalsSet
<1> QED  BY <1>0, <1>3, <1>4, <1>5, <1>6, <1>9, <1>10, <1>11 DEF Fades, Sends

\* The last message of a handle.
LEMMA ShutFades ==
  ASSUME MsgAssumption, Typed, CountInv, NoClones, GateShut, HandlesShut, NEW c \in Clients, ShutClient(c)
  PROVE  Fades(c)
<1>0. /\ pc \in [Threads -> ClientPcs \cup ServerPcs] /\ c \in Threads
      /\ ref \in [Refs -> WideRef] /\ port \in WidePort /\ port.wait.q = << >>
  BY DEF Typed, ThreadsTyped, KernelTyped, Threads, GateShut
<1>1. OthersStay(c)
  BY ClientAlone, Zenon DEF ClientRuns
<1>2. PICK z, m : z = R(c) /\ m = Message("DISCONNECT", c, z, Null, FALSE)
  OBVIOUS
<1>3. /\ pc[c] = "shut" /\ slots' = slots
      /\ \/ /\ port' = Enqueue(port, m) /\ Goto(c, "closing") /\ ref[z].port
            /\ ref' = [ref EXCEPT ![z].state = "CLOSING", ![z].sema = PSema(@, c)]
         \/ port' = port /\ Goto(c, "out") /\ ref' = [ref EXCEPT ![z] = FreeRef]
  BY <1>2, Zenon DEF ShutClient, Return, X, R
<1>4. z \in Refs /\ pc'[c] \in {"closing", "out"} /\ Listed(z)
  BY <1>0, <1>2, <1>3 DEF Typed, LocalsSet, Goto, HandlesShut
<1>5. m \in Sendable /\ m.pr = z
  BY <1>2, <1>4, SentTyped DEF Message
<1>6. FreeRef.port = FALSE /\ FreeRef.state = "IODONE"
  BY DEF FreeRef
<1>7. /\ \A r \in Refs \ {z} : ref'[r] = ref[r]
      /\ ref'[z].port => ref[z].port
      /\ ref'[z].state # "OPENING"
  <2>1. CASE ref' = [ref EXCEPT ![z] = FreeRef]
    BY <1>0, <1>4, <1>6, <2>1
  <2>2. CASE ref' = [ref EXCEPT ![z].state = "CLOSING", ![z].sema = PSema(@, c)]
    BY <1>0, <1>4, <2>2 DEF WideRef
  <2> QED  BY <1>3, <2>1, <2>2
<1>8. \A d \in Clients : pc[d] = "opening" => R(d) # z
  BY <1>2, <1>3, OpenerAlone
<1>9. /\ port'.refs = port.refs /\ port'.wait.q = << >>
      /\ \A n \in ToSet(port'.queue) : n \in ToSet(port.queue) \/ (n.pr = z /\ z \in port.refs)
  <2>1. CASE port' = port
    BY <1>0, <2>1
  <2>2. CASE port' = Enqueue(port, m) /\ ref[z].port
    BY <1>0, <1>4, <1>5, <2>2, EnqueueFades DEF Listed
  <2> QED  BY <1>3, <2>1, <2>2
<1> QED  BY <1>1, <1>3, <1>4, <1>7, <1>8, <1>9, StaysFaded DEF Sends

\* Nobody connects to a port without a name.
LEMMA ClientFades ==
  ASSUME MsgAssumption, Polite, "clone" \notin Does, IsFiniteSet(Slots), Typed, CountInv, NoClones, GateShut,
         HandlesShut, ~port.named, NEW c \in Clients, ClientCalls(c) \/ ClientRuns(c)
  PROVE  Fades(c) /\ OthersStay(c)
<1>1. \A k \in Slots, r \in Refs : ~MsgConnect(c, k, r)
  BY DEF MsgConnect
<1>2. \A k, j \in Slots : ~CloneFind(c, k, j)
  BY DEF CloneFind
<1>3. ~CloneDone(c) /\ \A n \in Refs : ~ClonePost(c, n)
  BY DEF CloneDone, ClonePost, Awake, NoClones
<1>4. ASSUME ClientCalls(c)
      PROVE  Fades(c)
  <2>1. \/ \E k \in Slots, kd \in Kinds : SendFind(c, k, kd)
        \/ \E k, j \in Slots : ForkPort(c, k, j)
        \/ \E k \in Slots : MsgDisconnect(c, k)
    BY <1>1, <1>2, <1>4, Zenon DEF ClientCalls
  <2>2. (\E k \in Slots, kd \in Kinds : SendFind(c, k, kd)) => Fades(c)
    BY FindsFade
  <2>3. (\E k, j \in Slots : ForkPort(c, k, j)) => Fades(c)
    BY SlotsFade
  <2>4. \A k \in Slots : MsgDisconnect(c, k) => Fades(c)
    BY DropsFade
  <2> QED  BY <2>1, <2>2, <2>3, <2>4, Zenon
<1>5. ASSUME ClientRuns(c)
      PROVE  Fades(c)
  <2>1. \/ MsgConnectDone(c)
        \/ SendPost(c) \/ SendDone(c) \/ SendMap(c) \/ CopyDone(c) \/ MapFails(c)
        \/ IntrGone(c) \/ IntrWithdraw(c) \/ IntrAbort(c) \/ IntrDone(c) \/ AbortDone(c)
        \/ FindBroken(c) \/ ShutDone(c) \/ ShutClient(c)
    BY <1>3, <1>5, Zenon DEF ClientRuns
  <2>2. FindBroken(c) \/ ShutDone(c) => Fades(c)
    BY FindsFade
  <2>3. MsgConnectDone(c) => Fades(c)
    BY SlotsFade
  <2>4. SendPost(c) \/ SendDone(c) \/ SendMap(c) \/ CopyDone(c) \/ MapFails(c) => Fades(c)
    BY SendsFade
  <2>5. IntrGone(c) \/ IntrWithdraw(c) \/ IntrAbort(c) \/ IntrDone(c) \/ AbortDone(c) => Fades(c)
    BY SendsFade
  <2>6. ShutClient(c) => Fades(c)
    BY ShutFades
  <2> QED  BY <2>1, <2>2, <2>3, <2>4, <2>5, <2>6, Zenon
<1>6. OthersStay(c)
  BY ClientAlone
<1> QED  BY <1>4, <1>5, <1>6

-----------------------------------------------------------------------------
(* The servers of a port that is closed.                                   *)

\* What a server's step leaves of it: handles leave the list as they are cut
\* off or refused, and nobody comes back to the port.
Settles(s) ==
  /\ ClientsLeft(s)
  /\ port'.inproc = port.inproc /\ port'.sema = port.sema /\ port'.wait = port.wait
  /\ port'.refs \subseteq port.refs /\ held' \subseteq held
  /\ \A u \in Servers : u # s => intr'[u] = intr[u]
  /\ pc'[s] \in ShuttingPcs <=> pc[s] \in ShuttingPcs
  /\ pc'[s] \in {"rwait", "rcvd", "dport", "find"} => pc'[s] = pc[s] /\ intr'[s] = intr[s]
  /\ pc'[s] = "gone" => pc[s] = "gone" \/ port.refs = {}
  /\ \/ port'.queue = << >>
     \/ /\ port'.queue = port.queue
        /\ pc'[s] \in {"bounce", "client", "chash", "gone"} => pc[s] \in {"bounce", "client", "chash", "gone"}
  /\ \A r \in Refs : ref'[r].port => ref[r].port
  /\ \A r \in Refs : \/ ref'[r].state = ref[r].state
                     \/ ref'[r].state = "ABDONE"
                     \/ /\ ref'[r].state = "IODONE"
                        /\ ref[r].state = "IOWAIT" \/ (ref[r].port => r \in port'.refs)
  /\ \A r \in port.refs \ port'.refs : \/ ref[r].state = "OPENING" /\ ref'[r].state = "ABDONE"
                                       \/ ~ref'[r].port /\ port'.queue = << >>

LEMMA SettlesKeeps ==
  ASSUME MsgAssumption, Typed, Typed', GateShut, HandlesShut, QueueShut, NEW s \in Servers, Settles(s)
  PROVE  GateShut' /\ HandlesShut' /\ QueueShut'
<1>1. GateShut'
  <2>1. \A u \in Servers : pc'[u] \in ShuttingPcs <=> pc[u] \in ShuttingPcs
    BY DEF Settles, ClientsLeft
  <2>2. \A u \in Servers : pc'[u] \notin {"rwait", "rcvd", "dport"} /\ (pc'[u] = "find" => intr'[u])
    BY DEF Settles, ClientsLeft, GateShut
  <2> QED  BY <2>1, <2>2 DEF GateShut, Settles
<1>2. \A c \in Clients : pc'[c] = pc[c] /\ R(c)' = R(c)
  BY DEF Settles, ClientsLeft, R
<1>3. \A r \in Refs : Listed(r) => Listed(r)'
  BY DEF Settles, Listed
<1>4. \A c \in Clients : Sends(c)' => SlotsOf(R(c))' # {}
  <2>1. \A c \in Clients : SlotsOf(R(c))' = SlotsOf(R(c))
    BY <1>2 DEF Settles, ClientsLeft, SlotsOf
  <2> QED  BY <1>2, <2>1 DEF HandlesShut, Sends
<1>5. \A k \in Slots : InService(k)' => Listed(slots[k])'
  <2>1. slots' = slots
    BY DEF Settles, ClientsLeft
  <2> QED  BY <1>3, <2>1 DEF HandlesShut, InService, Listed
<1>6. \A c \in Clients : pc'[c] = "shut" => Listed(R(c))'
  <2>1. \A c \in Clients : pc[c] = "shut" => R(c) \in Refs
    BY DEF Typed, LocalsSet
  <2> QED  BY <1>2, <1>3, <2>1 DEF HandlesShut, Listed
<1>7. ASSUME NEW c \in Clients, pc'[c] = "opening"
      PROVE  /\ X(c)'.state \in {"OPENING", "IODONE", "ABDONE"}
             /\ X(c)'.state = "IODONE" /\ X(c)'.port => R(c)' \in port'.refs
  <2>1. PICK r \in Refs : r = R(c) /\ r = my[c].pr /\ my'[c].pr = r
    BY <1>2, <1>7 DEF Typed, LocalsSet, R
  <2>2. /\ ref[r].state \in {"OPENING", "IODONE", "ABDONE"}
        /\ ref[r].state = "IODONE" /\ ref[r].port => r \in port.refs
    BY <1>2, <1>7, <2>1 DEF HandlesShut, X
  <2>3. ref'[r].state \in {"OPENING", "IODONE", "ABDONE"}
    BY <2>2 DEF Settles
  <2>4. ref'[r].state = "IODONE" /\ ref'[r].port => r \in port'.refs
    BY <2>2 DEF Settles
  <2> QED  BY <1>2, <2>1, <2>3, <2>4 DEF X
<1>8. \A m \in held' : m.op = "CONNECT" /\ ref'[m.pr].state = "OPENING" /\ ref'[m.pr].port => m.pr \in port'.refs
  <2>1. \A m \in held : m.pr \in Refs
    BY DEF Typed, ServerTyped, Sendable, Messages
  <2>2. ASSUME NEW m \in held', m.op = "CONNECT", ref'[m.pr].state = "OPENING", ref'[m.pr].port
        PROVE  m.pr \in port'.refs
    <3>1. m \in held /\ m.pr \in Refs
      BY <2>1 DEF Settles
    <3>2. ref[m.pr].state = "OPENING" /\ ref[m.pr].port
      BY <2>2, <3>1 DEF Settles
    <3>3. m.pr \in port.refs
      BY <2>2, <3>1, <3>2 DEF HandlesShut
    <3> QED  BY <2>2, <3>1, <3>2, <3>3 DEF Settles
  <2> QED  BY <2>2
<1>9. HandlesShut'
  BY <1>4, <1>5, <1>6, <1>7, <1>8 DEF HandlesShut
<1>10. ASSUME NEW u \in Servers
       PROVE  /\ pc'[u] \in {"bounce", "client", "chash", "gone"} =>
                   \A m \in ToSet(port'.queue) : m.pr \in port'.refs /\ ref'[m.pr].state # "OPENING"
              /\ pc'[u] = "gone" => port'.refs = {}
  <2>1. pc'[u] = "gone" => port'.refs = {}
    BY DEF Settles, ClientsLeft, QueueShut
  <2>2. ASSUME pc'[u] \in {"bounce", "client", "chash", "gone"}, NEW m \in ToSet(port'.queue)
        PROVE  m.pr \in port'.refs /\ ref'[m.pr].state # "OPENING"
    <3>1. port'.queue # << >>
      BY <2>2 DEF ToSet
    <3>2. port'.queue = port.queue /\ pc[u] \in {"bounce", "client", "chash", "gone"}
      BY <2>2, <3>1 DEF Settles, ClientsLeft
    <3>3. m.pr \in Refs /\ m.pr \in port.refs /\ ref[m.pr].state # "OPENING"
      BY <2>2, <3>2, MessagesTyped DEF QueueShut, Sendable, Messages
    <3> QED  BY <3>1, <3>3 DEF Settles
  <2> QED  BY <2>1, <2>2
<1>11. QueueShut'
  BY <1>10 DEF QueueShut
<1> QED  BY <1>1, <1>9, <1>11

\* What the servers still do.
LEMMA SettlingSteps ==
  ASSUME MsgAssumption, Typed, GateShut, NoClones, NEW s \in Servers,
         RecvFind(s) \/ ServerRuns(s) \/ ClosePort(s) \/ \E m \in held : ServerAnswers(s, m)
  PROVE  \/ RecvBroken(s) /\ Broken(s, "find")
         \/ ReplyRuns(s) \/ DupWake(s) \/ DupHash(s)
         \/ Grab(s) \/ Bounce(s) \/ BounceEnd(s) \/ CloseHash(s) \/ FreePort(s)
         \/ \E r \in Refs : CloseClient(s, r)
         \/ \E m \in held : \/ MsgAccept(s, m) \/ MsgErr(s, m) \/ ReplyAbort(s, m) \/ ReplyRefused(s, m)
                            \/ \E a \in Answers : ReplyDone(s, m, a)
<1>1. /\ ~port.inproc /\ pc[s] \notin {"rwait", "rcvd", "dport"} /\ (pc[s] = "find" => intr[s])
  BY DEF GateShut
<1>2. /\ ~RecvFind(s) /\ ~ClosePort(s) /\ ~RecvWait(s) /\ ~RecvTake(s) /\ ~RecvNothing(s) /\ ~RecvReturn(s)
      /\ ~CloseName(s) /\ ~Broken(s, "rwait")
  BY <1>1 DEF RecvFind, ClosePort, RecvWait, RecvTake, RecvNothing, RecvReturn, CloseName, Broken, Awake
<1>3. ASSUME NEW m \in held, NEW a \in Answers, ReplyDup(s, m, a)
      PROVE  FALSE
  <2>1. ref[m.pr].msg # Null /\ ref[m.pr].msg.op = "DUP"
    BY <1>3, Zenon DEF ReplyDup, Wanted
  <2>2. m.pr \in Refs
    BY DEF Typed, ServerTyped, Sendable, Messages
  <2> QED  BY <2>1, <2>2 DEF NoClones
<1>4. RecvBroken(s) => Broken(s, "find")
  BY <1>2, Zenon DEF RecvBroken
<1>5. CASE ServerRuns(s)
  BY <1>2, <1>4, <1>5, Zenon DEF ServerRuns
<1>6. ASSUME NEW m \in held, ServerAnswers(s, m)
      PROVE  \/ MsgAccept(s, m) \/ MsgErr(s, m) \/ ReplyAbort(s, m) \/ ReplyRefused(s, m)
             \/ \E a \in Answers : ReplyDone(s, m, a)
  BY <1>3, <1>6, Zenon DEF ServerAnswers
<1> QED  BY <1>2, <1>5, <1>6, Zenon

\* A step that leaves the port as it is, and of a handle changes its state at
\* the most.
LEMMA StaysSettled ==
  ASSUME MsgAssumption, Typed, NEW s \in Servers, ClientsLeft(s),
         port' = port, held' \subseteq held,
         \A u \in Servers : u # s => intr'[u] = intr[u],
         pc'[s] \in ShuttingPcs <=> pc[s] \in ShuttingPcs,
         pc'[s] \in {"rwait", "rcvd", "dport", "find"} => pc'[s] = pc[s] /\ intr'[s] = intr[s],
         pc'[s] = "gone" => pc[s] = "gone" \/ port.refs = {},
         pc'[s] \in {"bounce", "client", "chash", "gone"} => pc[s] \in {"bounce", "client", "chash", "gone"},
         \A r \in Refs : ref'[r].port => ref[r].port,
         \A r \in Refs : \/ ref'[r].state = ref[r].state
                         \/ ref'[r].state = "ABDONE"
                         \/ /\ ref'[r].state = "IODONE"
                            /\ ref[r].state = "IOWAIT" \/ (ref[r].port => r \in port.refs)
  PROVE  Settles(s)
<1>1. /\ port'.inproc = port.inproc /\ port'.sema = port.sema /\ port'.wait = port.wait
      /\ port'.refs = port.refs /\ port'.queue = port.queue
  OBVIOUS
<1> QED  BY <1>1 DEF Settles

\* The servers that run on, and the one who takes the port down.
LEMMA RunsSettle ==
  ASSUME MsgAssumption, Typed, GateShut, NEW s \in Servers, ClientsLeft(s),
         \/ RecvBroken(s) /\ Broken(s, "find")
         \/ ReplyRuns(s) \/ DupWake(s) \/ DupHash(s)
         \/ Bounce(s) \/ BounceEnd(s) \/ CloseHash(s) \/ FreePort(s)
  PROVE  Settles(s)
<1>0. /\ pc \in [Threads -> ClientPcs \cup ServerPcs] /\ intr \in [Threads -> BOOLEAN]
      /\ ref \in [Refs -> WideRef] /\ doomed \in Seq(Sendable) /\ s \in Threads /\ Servers \subseteq Threads
  BY DEF Typed, ThreadsTyped, KernelTyped, ServerTyped, Threads
<1>1. /\ port' = port /\ held' = held /\ (intr' = intr \/ (NoEvent(s) /\ pc[s] = "find" /\ Goto(s, "out")))
  <2>1. CASE RecvBroken(s) /\ Broken(s, "find")
    <3>1. ~Broken(s, "rwait")
      BY <2>1 DEF Broken
    <3> QED  BY <2>1, <3>1, Zenon DEF RecvBroken, Broken, serverVars
  <2>2. CASE \/ ReplyRuns(s) \/ DupWake(s) \/ DupHash(s)
             \/ Bounce(s) \/ BounceEnd(s) \/ CloseHash(s) \/ FreePort(s)
    BY <2>2, ZenonT(40) DEF ReplyRuns, DupWake, DupHash, Bounce, BounceEnd, CloseHash, FreePort, serverVars
  <2> QED  BY <2>1, <2>2
<1>2. \A u \in Servers : u # s => intr'[u] = intr[u]
  BY <1>0, <1>1 DEF NoEvent
<1>3. /\ pc'[s] \in ShuttingPcs <=> pc[s] \in ShuttingPcs
      /\ pc'[s] \notin {"rwait", "rcvd", "dport", "find"}
      /\ pc'[s] = "gone" => pc[s] = "gone" \/ port.refs = {}
      /\ pc'[s] \in {"bounce", "client", "chash", "gone"} => pc[s] \in {"bounce", "client", "chash", "gone"}
  <2>1. \/ pc[s] \in {"find", "svwait", "duphash"} /\ Goto(s, "out")
        \/ pc[s] = "dupwake" /\ Goto(s, "duphash")
        \/ pc[s] = "bounce" /\ pc' = pc
        \/ pc[s] \in {"bounce", "chash"} /\ Goto(s, "client")
        \/ pc[s] = "client" /\ port.refs = {} /\ Goto(s, "gone")
    BY <1>1, ZenonT(40) DEF RecvBroken, Broken, ReplyRuns, DupWake, DupHash, Bounce, BounceEnd, CloseHash, FreePort
  <2> QED  BY <1>0, <2>1 DEF Goto, ShuttingPcs
<1>4. \A r \in Refs : /\ ref'[r].port => ref[r].port
                      /\ ref'[r].state = ref[r].state
  <2>1. CASE ref' = ref
    BY <2>1
  <2>2. CASE \E z \in Refs : ref' = [ref EXCEPT ![z].iowait = VSema(@)]
    BY <1>0, <2>2 DEF WideRef
  <2>3. CASE \E z \in Refs : ref' = [ref EXCEPT ![z].port = FALSE, ![z].iowait = VSema(@)]
    BY <1>0, <2>3 DEF WideRef
  <2>4. CASE DupWake(s)
    <3>1. got[s].pr \in Refs
      BY <2>4 DEF DupWake, Typed, LocalsSet, Sendable, Messages
    <3> QED  BY <2>2, <2>4, <3>1 DEF DupWake
  <2>5. CASE Bounce(s)
    <3>1. PICK m : m = Head(doomed)
      OBVIOUS
    <3>2. m \in Sendable
      BY <1>0, <2>5, <3>1 DEF Bounce
    <3>3. m.pr \in Refs
      BY <3>2 DEF Sendable, Messages
    <3>4. ref' = ref \/ ref' = [ref EXCEPT ![m.pr].port = FALSE, ![m.pr].iowait = VSema(@)]
      BY <2>5, <3>1 DEF Bounce
    <3> QED  BY <2>1, <2>3, <3>3, <3>4
  <2>6. CASE ~DupWake(s) /\ ~Bounce(s)
    BY <2>1, <2>6, ZenonT(40) DEF RecvBroken, ReplyRuns, DupHash, BounceEnd, CloseHash, FreePort
  <2> QED  BY <2>4, <2>5, <2>6
<1> QED  BY <1>1, <1>2, <1>3, <1>4, StaysSettled

\* He takes the queue, and cuts the handles off.
LEMMA ClosesSettle ==
  ASSUME MsgAssumption, Typed, GateShut, NEW s \in Servers, ClientsLeft(s),
         Grab(s) \/ \E r \in Refs : CloseClient(s, r)
  PROVE  Settles(s)
<1>0. /\ pc \in [Threads -> ClientPcs \cup ServerPcs] /\ s \in Threads
      /\ ref \in [Refs -> WideRef] /\ port \in WidePort
  BY DEF Typed, ThreadsTyped, KernelTyped, Threads
<1>1. CASE Grab(s)
  <2>1. /\ port' = [port EXCEPT !.queue = << >>] /\ ref' = ref /\ held' = held /\ intr' = intr
        /\ pc[s] = "grab" /\ Goto(s, "bounce")
    BY <1>1, Zenon DEF Grab
  <2>2. /\ port'.inproc = port.inproc /\ port'.sema = port.sema /\ port'.wait = port.wait
        /\ port'.refs = port.refs /\ port'.queue = << >> /\ pc'[s] = "bounce"
    BY <1>0, <2>1 DEF WidePort, Goto
  <2> QED  BY <2>1, <2>2 DEF Settles, ShuttingPcs
<1>2. ASSUME NEW r \in Refs, CloseClient(s, r)
      PROVE  Settles(s)
  <2>1. CASE SlippedIn(port)
    <3>1. port' = port /\ ref' = ref /\ held' = held /\ intr' = intr /\ pc[s] = "client" /\ Goto(s, "grab")
      BY <1>2, <2>1, Zenon DEF CloseClient
    <3>2. pc'[s] = "grab"
      BY <1>0, <3>1 DEF Goto
    <3> QED  BY <3>1, <3>2, StaysSettled DEF ShuttingPcs
  <2>2. CASE ~SlippedIn(port)
    <3>1. /\ port' = DerefPort(port, r) /\ ref' = [ref EXCEPT ![r] = CutOff(@)] /\ held' = held /\ intr' = intr
          /\ pc[s] = "client" /\ Goto(s, "chash") /\ port.queue = << >>
      BY <1>2, <2>2, Zenon DEF CloseClient, SlippedIn
    <3>2. /\ port'.inproc = port.inproc /\ port'.sema = port.sema /\ port'.wait = port.wait
          /\ port'.refs = port.refs \ {r} /\ port'.queue = << >> /\ pc'[s] = "chash"
      BY <1>0, <3>1 DEF WidePort, Goto, DerefPort
    <3>3. CutOff(ref[r]).port = FALSE /\ CutOff(ref[r]).state = ref[r].state
      BY <1>0 DEF CutOff, WideRef
    <3>4. \A p \in Refs : (ref'[p].port => ref[p].port) /\ ref'[p].state = ref[p].state
      BY <1>0, <3>1, <3>3
    <3>5. ~ref'[r].port
      BY <1>0, <3>1, <3>3
    <3> QED  BY <3>1, <3>2, <3>4, <3>5 DEF Settles, ShuttingPcs
  <2> QED  BY <2>1, <2>2
<1> QED  BY <1>1, <1>2

\* An answer is for one of those that wait, and a connection that is accepted
\* is one on the list.
LEMMA AnswersSettle ==
  ASSUME MsgAssumption, Typed, HandlesShut, NEW s \in Servers, ClientsLeft(s), NEW m \in held,
         \/ MsgAccept(s, m) \/ MsgErr(s, m) \/ ReplyAbort(s, m) \/ ReplyRefused(s, m)
         \/ \E a \in Answers : ReplyDone(s, m, a)
  PROVE  Settles(s)
<1>0. /\ pc \in [Threads -> ClientPcs \cup ServerPcs] /\ s \in Threads
      /\ ref \in [Refs -> WideRef] /\ port \in WidePort
  BY DEF Typed, ThreadsTyped, KernelTyped, Threads
<1>1. PICK r \in Refs : r = m.pr
  BY DEF Typed, ServerTyped, Sendable, Messages
<1>2. /\ intr' = intr /\ Answered(m) /\ pc[s] = "out"
      /\ pc' = pc \/ Goto(s, "svwait")
  BY ZenonT(40) DEF MsgAccept, MsgErr, ReplyAbort, ReplyRefused, ReplyDone, Holds
<1>3. held' \subseteq held
  BY <1>2 DEF Answered
<1>4. pc'[s] \in {"out", "svwait"}
  BY <1>0, <1>2 DEF Goto
<1>5. CASE MsgErr(s, m)
  <2>1. \/ port' = port /\ ref' = ref
        \/ /\ ref[r].state \in {"OPENING", "IOWAIT"}
           /\ port' = IF ref[r].state = "OPENING" THEN DerefPort(port, r) ELSE port
           /\ ref' = [ref EXCEPT ![r].state = IF @ = "OPENING" THEN "ABDONE" ELSE "IODONE", ![r].iowait = VSema(@)]
    BY <1>1, <1>5 DEF MsgErr
  <2>2. /\ port'.inproc = port.inproc /\ port'.sema = port.sema /\ port'.wait = port.wait
        /\ port'.queue = port.queue
        /\ \/ port'.refs = port.refs
           \/ port'.refs = port.refs \ {r} /\ ref[r].state = "OPENING" /\ ref'[r].state = "ABDONE"
    BY <1>0, <2>1 DEF WidePort, WideRef, DerefPort
  <2>3. \A p \in Refs : /\ ref'[p].port = ref[p].port
                        /\ \/ ref'[p].state = ref[p].state
                           \/ ref'[p].state = "ABDONE"
                           \/ ref'[p].state = "IODONE" /\ ref[p].state = "IOWAIT"
    BY <1>0, <2>1 DEF WideRef
  <2> QED  BY <1>2, <1>3, <1>4, <2>2, <2>3 DEF Settles, ShuttingPcs
<1>6. CASE ~MsgErr(s, m)
  <2>1. port' = port
    BY <1>6, ZenonT(40) DEF MsgAccept, ReplyAbort, ReplyRefused, ReplyDone
  <2>2. \A p \in Refs : /\ ref'[p].port = ref[p].port
                        /\ \/ ref'[p].state = ref[p].state
                           \/ ref'[p].state = "ABDONE"
                           \/ /\ ref'[p].state = "IODONE"
                              /\ ref[p].state = "IOWAIT" \/ (ref[p].port => p \in port.refs)
    <3>1. CASE MsgAccept(s, m)
      <4>1. \/ ref' = ref
            \/ /\ ref[r].state = "OPENING" /\ m.op = "CONNECT"
               /\ ref' = [ref EXCEPT ![r].state = "IODONE", ![r].iowait = VSema(@)]
        BY <1>1, <3>1 DEF MsgAccept
      <4>2. ref[r].state = "OPENING" /\ m.op = "CONNECT" => (ref[r].port => r \in port.refs)
        BY <1>1 DEF HandlesShut
      <4> QED  BY <1>0, <4>1, <4>2 DEF WideRef
    <3>2. CASE ReplyAbort(s, m) \/ ReplyRefused(s, m)
      <4>1. \/ ref' = ref
            \/ ref' = [ref EXCEPT ![r].state = "ABDONE", ![r].iowait = VSema(@)]
        BY <1>1, <3>2 DEF ReplyAbort, ReplyRefused
      <4> QED  BY <1>0, <4>1 DEF WideRef
    <3>3. ASSUME NEW a \in Answers, ReplyDone(s, m, a)
          PROVE  /\ ref[r].state = "IOWAIT"
                 /\ \A p \in Refs : /\ ref'[p].port = ref[p].port
                                    /\ ref'[p].state = ref[p].state \/ (p = r /\ ref'[p].state = "IODONE")
      <4>1. /\ ref[r].state = "IOWAIT"
            /\ \E v : ref' = [ref EXCEPT ![r].msg = Null, ![r].state = "IODONE", ![r].iowait = VSema(@), ![r].svwait = v]
        BY <1>1, <3>3 DEF ReplyDone, Wanted
      <4> QED  BY <1>0, <4>1 DEF WideRef
    <3> QED  BY <1>6, <3>1, <3>2, <3>3
  <2> QED  BY <1>2, <1>3, <1>4, <2>1, <2>2, StaysSettled DEF ShuttingPcs
<1> QED  BY <1>5, <1>6

-----------------------------------------------------------------------------
(* The closing, from its beginning to its end.                             *)

LEMMA ShutStep ==
  ASSUME MsgAssumption, Polite, "clone" \notin Does, IsFiniteSet(Slots), Typed, CountInv, NoClones,
         ~port.named, GateShut, HandlesShut, QueueShut, [Next]_vars
  PROVE  GateShut' /\ HandlesShut' /\ QueueShut'
<1>1. Typed'
  BY TypedStep
<1>2. ASSUME NEW c \in Clients, ClientCalls(c) \/ ClientRuns(c)
      PROVE  GateShut' /\ HandlesShut' /\ QueueShut'
  <2>1. Fades(c) /\ OthersStay(c)
    BY <1>2, ClientFades
  <2> QED  BY <1>1, <2>1, FadesKeeps
<1>3. ASSUME NEW s \in Servers, RecvFind(s) \/ ServerRuns(s) \/ ClosePort(s) \/ \E m \in held : ServerAnswers(s, m)
      PROVE  GateShut' /\ HandlesShut' /\ QueueShut'
  <2>1. ClientsLeft(s)
    BY <1>3, ServerApart
  <2>2. (RecvBroken(s) /\ Broken(s, "find")) \/ ReplyRuns(s) \/ DupWake(s) \/ DupHash(s)
        \/ Bounce(s) \/ BounceEnd(s) \/ CloseHash(s) \/ FreePort(s) => Settles(s)
    BY <2>1, RunsSettle
  <2>3. Grab(s) \/ (\E r \in Refs : CloseClient(s, r)) => Settles(s)
    BY <2>1, ClosesSettle
  <2>4. \A m \in held : \/ MsgAccept(s, m) \/ MsgErr(s, m) \/ ReplyAbort(s, m) \/ ReplyRefused(s, m)
                        \/ \E a \in Answers : ReplyDone(s, m, a)
                        => Settles(s)
    BY <2>1, AnswersSettle
  <2>5. Settles(s)
    BY <1>3, <2>2, <2>3, <2>4, SettlingSteps, Zenon
  <2> QED  BY <1>1, <2>5, SettlesKeeps
<1>4. ASSUME NEW t \in Threads, Signal(t)
      PROVE  GateShut' /\ HandlesShut' /\ QueueShut'
  <2>0. /\ ref \in [Refs -> WideRef] /\ intr \in [Threads -> BOOLEAN] /\ \A s \in Servers : s \notin Clients
    BY DEF Typed, KernelTyped, ThreadsTyped, MsgAssumption
  <2>1. ~Queued(port.sema, t) /\ ~Queued(port.wait, t)
    BY DEF GateShut, Queued, Contains
  <2>2. /\ t \in Clients /\ port' = port /\ pc' = pc /\ my' = my /\ slots' = slots /\ held' = held
        /\ intr' = [intr EXCEPT ![t] = TRUE]
        /\ \/ ref' = [ref EXCEPT ![R(t)].sema = Cunsleep(@, t)]
           \/ ref' = [ref EXCEPT ![R(t)].iowait = Cunsleep(@, t)]
    BY <1>4, <2>1, Zenon DEF Signal, clientVars, serverVars
  <2>3. \A r \in Refs : ref'[r].port = ref[r].port /\ ref'[r].state = ref[r].state
    BY <2>0, <2>2 DEF WideRef
  <2>4. GateShut'
    BY <2>0, <2>2 DEF GateShut
  <2>5. \A c \in Clients : R(c)' = R(c)
    BY <2>2 DEF R
  <2>6. HandlesShut'
    <3>1. \A c \in Clients : Sends(c)' => SlotsOf(R(c))' # {}
      BY <2>2 DEF HandlesShut, Sends, SlotsOf, R
    <3>2. \A k \in Slots : InService(k)' => Listed(slots[k])'
      BY <2>2, <2>3 DEF HandlesShut, InService, Listed
    <3>3. \A c \in Clients : pc'[c] = "shut" => Listed(R(c))'
      <4>1. \A c \in Clients : pc[c] = "shut" => R(c) \in Refs
        BY DEF Typed, LocalsSet
      <4> QED  BY <2>2, <2>3, <2>5, <4>1 DEF HandlesShut, Listed
    <3>4. \A c \in Clients : pc'[c] = "opening" =>
            /\ X(c)'.state \in {"OPENING", "IODONE", "ABDONE"}
            /\ X(c)'.state = "IODONE" /\ X(c)'.port => R(c)' \in port'.refs
      <4>1. \A c \in Clients : pc[c] = "opening" => R(c) \in Refs
        BY DEF Typed, LocalsSet
      <4> QED  BY <2>2, <2>3, <4>1 DEF HandlesShut, X, R
    <3>5. \A m \in held' : m.op = "CONNECT" /\ ref'[m.pr].state = "OPENING" /\ ref'[m.pr].port => m.pr \in port'.refs
      <4>1. \A m \in held : m.pr \in Refs
        BY DEF Typed, ServerTyped, Sendable, Messages
      <4> QED  BY <2>2, <2>3, <4>1 DEF HandlesShut
    <3> QED  BY <3>1, <3>2, <3>3, <3>4, <3>5 DEF HandlesShut
  <2>7. QueueShut'
    <3>1. \A m \in ToSet(port.queue) : m.pr \in Refs
      BY MessagesTyped DEF Sendable, Messages
    <3> QED  BY <2>2, <2>3, <3>1 DEF QueueShut
  <2> QED  BY <2>4, <2>6, <2>7
<1>5. CASE UNCHANGED vars
  BY <1>5 DEF vars, GateShut, HandlesShut, QueueShut, Sends, SlotsOf, Listed, InService, X, R
<1> QED  BY <1>2, <1>3, <1>4, <1>5, Zenon DEF Next

\* A client's step brings no message to a handle, ...
LEMMA ClientsMessage ==
  ASSUME MsgAssumption, Typed, NEW c \in Clients, ClientCalls(c) \/ ClientRuns(c),
         \A n \in Refs : ~ClonePost(c, n), \A k, j \in Slots : ~CloneFind(c, k, j), ~CloneDone(c)
  PROVE  \A r \in Refs : ref'[r].msg \in {ref[r].msg, Null}
<1>0. ref \in [Refs -> WideRef]
  BY DEF Typed, KernelTyped
<1>1. /\ FreeRef.msg = Null
      /\ [NewRef("OPENING") EXCEPT !.iowait = PSema(@, c)].msg = Null
  BY DEF FreeRef, NewRef
<1>2. CASE \/ SendPost(c) \/ SendDone(c) \/ SendMap(c) \/ CopyDone(c) \/ MapFails(c)
           \/ IntrGone(c) \/ IntrWithdraw(c) \/ IntrAbort(c) \/ IntrDone(c) \/ AbortDone(c)
  BY <1>2, SendsLeave
<1>3. CASE ref' = ref
  BY <1>3
<1>4. ASSUME NEW k \in Slots, NEW r \in Refs, MsgConnect(c, k, r)
      PROVE  \A p \in Refs : ref'[p].msg \in {ref[p].msg, Null}
  <2>1. PICK x : x = [NewRef("OPENING") EXCEPT !.iowait = PSema(@, c)]
    OBVIOUS
  <2>2. ref' = [ref EXCEPT ![r] = x] /\ x.msg = Null
    BY <1>1, <1>4, <2>1 DEF MsgConnect
  <2> QED  BY <1>0, <2>2
<1>5. ASSUME NEW k \in Slots, (\E kd \in Kinds : SendFind(c, k, kd)) \/ (\E j \in Slots : ForkPort(c, k, j)) \/ MsgDisconnect(c, k)
      PROVE  \A p \in Refs : ref'[p].msg \in {ref[p].msg, Null}
  <2>1. \E p \in Refs : \E v : \/ ref' = [ref EXCEPT ![p].sema = v]
                               \/ ref' = [ref EXCEPT ![p].refs = v]
    <3>1. slots[k] \in Refs
      BY <1>5 DEF SendFind, ForkPort, MsgDisconnect, InService
    <3>2. \/ ref' = [ref EXCEPT ![slots[k]].sema = PSema(@, c)]
          \/ ref' = [ref EXCEPT ![slots[k]].refs = @ + 1]
          \/ ref' = [ref EXCEPT ![slots[k]].refs = @ - 1]
      BY <1>5, Zenon DEF SendFind, ForkPort, MsgDisconnect
    <3> QED  BY <3>1, <3>2
  <2> QED  BY <1>0, <2>1 DEF WideRef
<1>6. CASE MsgConnectDone(c) \/ ShutClient(c)
  <2>1. PICK r \in Refs : r = R(c)
    BY <1>6 DEF MsgConnectDone, ShutClient, Awake, Typed, LocalsSet
  <2>2. \/ ref' = ref
        \/ ref' = [ref EXCEPT ![r] = FreeRef]
        \/ ref' = [ref EXCEPT ![r].state = "CLOSING", ![r].sema = PSema(@, c)]
    BY <1>6, <2>1, Zenon DEF MsgConnectDone, ShutClient
  <2>3. CASE ref' = [ref EXCEPT ![r] = FreeRef]
    BY <1>0, <1>1, <2>3
  <2>4. CASE ref' = [ref EXCEPT ![r].state = "CLOSING", ![r].sema = PSema(@, c)]
    BY <1>0, <2>4 DEF WideRef
  <2> QED  BY <1>3, <2>2, <2>3, <2>4
<1>7. CASE FindBroken(c) \/ ShutDone(c)
  BY <1>3, <1>7, Zenon DEF FindBroken, ShutDone
<1>8. \/ \E k \in Slots, r \in Refs : MsgConnect(c, k, r)
      \/ \E k \in Slots : (\E kd \in Kinds : SendFind(c, k, kd)) \/ (\E j \in Slots : ForkPort(c, k, j)) \/ MsgDisconnect(c, k)
      \/ MsgConnectDone(c) \/ ShutClient(c) \/ FindBroken(c) \/ ShutDone(c)
      \/ SendPost(c) \/ SendDone(c) \/ SendMap(c) \/ CopyDone(c) \/ MapFails(c)
      \/ IntrGone(c) \/ IntrWithdraw(c) \/ IntrAbort(c) \/ IntrDone(c) \/ AbortDone(c)
  BY Zenon DEF ClientCalls, ClientRuns
<1> QED  BY <1>2, <1>4, <1>5, <1>6, <1>7, <1>8, Zenon

\* ... and asks for no clone if it may not.
LEMMA ClientsPost ==
  ASSUME MsgAssumption, Typed, NEW c \in Clients, ClientCalls(c) \/ ClientRuns(c),
         \A n \in Refs : ~ClonePost(c, n), \A k, j \in Slots : ~CloneFind(c, k, j), ~CloneDone(c)
  PROVE  \/ port'.queue = port.queue
         \/ \E i \in 1..Len(port.queue) : port'.queue = RemoveAt(port.queue, i)
         \/ \E m \in Sendable : port'.queue = Append(port.queue, m) /\ m.op # "DUP"
<1>0. /\ port \in WidePort /\ my \in [Clients -> Local]
  BY DEF Typed, KernelTyped, ThreadsTyped
<1>1. ASSUME NEW r \in Refs, NEW m, \/ m = Message("CONNECT", c, r, Null, FALSE)
                                    \/ m = Message("IO", c, r, Null, my[c].kind = "write")
                                    \/ m = Message("ABORT", c, r, Null, FALSE)
                                    \/ m = Message("DISCONNECT", c, r, Null, FALSE),
             port' = Enqueue(port, m)
      PROVE  \E n \in Sendable : port'.queue = Append(port.queue, n) /\ n.op # "DUP"
  <2>1. (my[c].kind = "write") \in BOOLEAN
    OBVIOUS
  <2>2. m \in Sendable
    BY <1>1, <2>1, SentTyped
  <2>4. m.op # "DUP"
    BY <1>1 DEF Message
  <2>3. port'.queue = Append(port.queue, m)
    BY <1>0, <1>1 DEF Enqueue, WidePort
  <2> QED  BY <2>2, <2>3, <2>4
<1>2. ASSUME NEW k \in Slots, NEW r \in Refs, MsgConnect(c, k, r)
      PROVE  \E n \in Sendable : port'.queue = Append(port.queue, n) /\ n.op # "DUP"
  BY <1>1, <1>2 DEF MsgConnect
<1>3. CASE SendPost(c) \/ IntrAbort(c) \/ ShutClient(c)
  <2>1. PICK r \in Refs : r = R(c)
    BY <1>3 DEF SendPost, IntrAbort, ShutClient, Interrupted, Broken, Awake, Typed, LocalsSet
  <2>2. \/ port' = port
        \/ port' = Enqueue(port, Message("IO", c, r, Null, my[c].kind = "write"))
        \/ port' = Enqueue(port, Message("ABORT", c, r, Null, FALSE))
        \/ port' = Enqueue(port, Message("DISCONNECT", c, r, Null, FALSE))
    BY <1>3, <2>1, Zenon DEF SendPost, IntrAbort, ShutClient
  <2> QED  BY <1>1, <2>2
<1>4. CASE IntrWithdraw(c)
  <2>1. PlaceOf(c) \in 1..Len(port.queue)
    BY <1>4 DEF IntrWithdraw, InQueue, PlaceOf
  <2>2. port'.queue = RemoveAt(port.queue, PlaceOf(c))
    BY <1>0, <1>4 DEF IntrWithdraw, WidePort
  <2> QED  BY <2>1, <2>2
<1>5. \/ \E k \in Slots, r \in Refs : MsgConnect(c, k, r)
      \/ SendPost(c) \/ IntrAbort(c) \/ ShutClient(c) \/ IntrWithdraw(c) \/ port' = port
  BY ZenonT(60) DEF ClientCalls, ClientRuns, SendFind, ForkPort, MsgDisconnect, MsgConnectDone, SendDone, SendMap,
     CopyDone, MapFails, IntrGone, IntrDone, AbortDone, FindBroken, ShutDone
<1> QED  BY <1>2, <1>3, <1>4, <1>5

\* A server brings a handle no message but when it takes one.
LEMMA ServersMessage ==
  ASSUME MsgAssumption, Typed, NEW s \in Servers, ~RecvTake(s),
         RecvFind(s) \/ ServerRuns(s) \/ ClosePort(s) \/ \E m \in held : ServerAnswers(s, m)
  PROVE  \A r \in Refs : ref'[r].msg \in {ref[r].msg, Null}
<1>0. /\ ref \in [Refs -> WideRef] /\ held \subseteq Sendable /\ doomed \in Seq(Sendable)
      /\ \A m \in Sendable : m.pr \in Refs
  BY DEF Typed, KernelTyped, ServerTyped, Sendable, Messages
<1>1. CASE ref' = ref
  BY <1>1
<1>2. CASE RecvReturn(s)
  <2>1. ref' = ref \/ ref' = [ref EXCEPT ![got[s].pr] = FreeRef]
    BY <1>2 DEF RecvReturn
  <2>2. got[s].pr \in Refs /\ FreeRef.msg = Null
    BY <1>0, <1>2 DEF RecvReturn, Typed, LocalsSet, FreeRef
  <2> QED  BY <1>0, <2>1, <2>2
<1>3. CASE DupWake(s)
  BY <1>0, <1>3 DEF DupWake, WideRef
<1>4. CASE Bounce(s)
  <2>1. PICK m : m = Head(doomed)
    OBVIOUS
  <2>2. ref' = ref \/ ref' = [ref EXCEPT ![m.pr].port = FALSE, ![m.pr].iowait = VSema(@)]
    BY <1>4, <2>1 DEF Bounce
  <2>3. m \in Sendable
    BY <1>0, <1>4, <2>1 DEF Bounce
  <2>4. m.pr \in Refs
    BY <1>0, <2>3
  <2>5. CASE ref' = [ref EXCEPT ![m.pr].port = FALSE, ![m.pr].iowait = VSema(@)]
    BY <1>0, <2>4, <2>5 DEF WideRef
  <2> QED  BY <1>1, <2>2, <2>5
<1>5. ASSUME NEW r \in Refs, CloseClient(s, r)
      PROVE  \A p \in Refs : ref'[p].msg \in {ref[p].msg, Null}
  <2>1. ref' = ref \/ ref' = [ref EXCEPT ![r] = CutOff(@)]
    BY <1>5, Zenon DEF CloseClient
  <2>2. CutOff(ref[r]).msg = ref[r].msg
    BY <1>0 DEF CutOff, WideRef
  <2> QED  BY <1>0, <2>1, <2>2
<1>6. ASSUME NEW m \in held, ServerAnswers(s, m)
      PROVE  \A p \in Refs : ref'[p].msg \in {ref[p].msg, Null}
  <2>1. \/ ref' = ref
        \/ \E st, v : ref' = [ref EXCEPT ![m.pr].state = st, ![m.pr].iowait = v]
        \/ \E st, v, w : ref' = [ref EXCEPT ![m.pr].msg = Null, ![m.pr].state = st, ![m.pr].iowait = v, ![m.pr].svwait = w]
        \/ ref' = [ref EXCEPT ![m.pr].state = "IODONE"]
    <3>1. CASE MsgAccept(s, m) \/ ReplyAbort(s, m) \/ ReplyRefused(s, m) \/ \E a \in Answers : ReplyDup(s, m, a)
      BY <3>1 DEF MsgAccept, ReplyAbort, ReplyRefused, ReplyDup
    <3>2. CASE MsgErr(s, m)
      BY <3>2 DEF MsgErr
    <3>3. CASE \E a \in Answers : ReplyDone(s, m, a)
      <4>1. PICK a \in Answers : ReplyDone(s, m, a)
        BY <3>3
      <4>2. \E w : ref' = [ref EXCEPT ![m.pr].msg = Null, ![m.pr].state = "IODONE", ![m.pr].iowait = VSema(@), ![m.pr].svwait = w]
        BY <4>1 DEF ReplyDone
      <4>3. PICK w : ref' = [ref EXCEPT ![m.pr].msg = Null, ![m.pr].state = "IODONE", ![m.pr].iowait = VSema(@), ![m.pr].svwait = w]
        BY <4>2
      <4>4. ref' = [ref EXCEPT ![m.pr].msg = Null, ![m.pr].state = "IODONE", ![m.pr].iowait = VSema(ref[m.pr].iowait), ![m.pr].svwait = w]
        BY <1>0, <4>3
      <4> QED  BY <4>4
    <3>4. \/ MsgAccept(s, m) \/ MsgErr(s, m) \/ ReplyAbort(s, m) \/ ReplyRefused(s, m)
          \/ \E a \in Answers : ReplyDup(s, m, a) \/ ReplyDone(s, m, a)
      BY <1>6, Zenon DEF ServerAnswers
    <3> QED  BY <3>1, <3>2, <3>3, <3>4
  <2>2. m.pr \in Refs
    BY <1>0
  <2>3. ASSUME NEW st, NEW v, ref' = [ref EXCEPT ![m.pr].state = st, ![m.pr].iowait = v]
        PROVE  \A p \in Refs : ref'[p].msg = ref[p].msg
    BY <1>0, <2>2, <2>3 DEF WideRef
  <2>4. ASSUME NEW st, NEW v, NEW w,
               ref' = [ref EXCEPT ![m.pr].msg = Null, ![m.pr].state = st, ![m.pr].iowait = v, ![m.pr].svwait = w]
        PROVE  \A p \in Refs : ref'[p].msg \in {ref[p].msg, Null}
    BY <1>0, <2>2, <2>4 DEF WideRef
  <2>5. CASE ref' = [ref EXCEPT ![m.pr].state = "IODONE"]
    BY <1>0, <2>2, <2>5 DEF WideRef
  <2> QED  BY <2>1, <2>3, <2>4, <2>5
<1>7. RecvReturn(s) \/ DupWake(s) \/ Bounce(s) \/ (\E r \in Refs : CloseClient(s, r)) \/ (\E m \in held : ServerAnswers(s, m))
      \/ ref' = ref
  BY ZenonT(60) DEF RecvFind, ServerRuns, RecvWait, RecvBroken, RecvTake, RecvNothing, ReplyRuns, DupHash, ClosePort,
     CloseName, Grab, BounceEnd, CloseHash, FreePort
<1> QED  BY <1>1, <1>2, <1>3, <1>4, <1>5, <1>6, <1>7, Zenon

\* What is left of a queue is what was in it.
LEMMA TailSubset ==
  ASSUME NEW q \in Seq(Sendable), q # << >>
  PROVE  Head(q) \in ToSet(q) /\ ToSet(Tail(q)) \subseteq ToSet(q)
<1>1. PICK p, n : p = Tail(q) /\ n = Len(q)
  OBVIOUS
<1>2. /\ n \in Nat /\ n > 0 /\ Len(p) = n - 1 /\ Head(q) = q[1] /\ 1 \in 1..n
      /\ \A i \in 1..(n - 1) : p[i] = q[i + 1] /\ i + 1 \in 1..n
  BY <1>1
<1>3. DOMAIN p = 1..(n - 1) /\ DOMAIN q = 1..n
  BY <1>1, <1>2
<1> QED  BY <1>1, <1>2, <1>3 DEF ToSet

LEMMA NoClonesStep ==
  ASSUME MsgAssumption, "clone" \notin Does, Typed, NoClones, [Next]_vars
  PROVE  NoClones'
<1>0. /\ pc \in [Threads -> ClientPcs \cup ServerPcs] /\ Clients \subseteq Threads
      /\ ref \in [Refs -> WideRef] /\ port \in WidePort /\ port.queue \in Seq(Sendable)
      /\ \A s \in Servers : s \notin Clients
  BY DEF Typed, ThreadsTyped, KernelTyped, Threads, WidePort, MsgAssumption
<1>1. ASSUME NEW c \in Clients, ClientCalls(c) \/ ClientRuns(c)
      PROVE  NoClones'
  <2>1. /\ \A k, j \in Slots : ~CloneFind(c, k, j)
        /\ ~CloneDone(c) /\ \A n \in Refs : ~ClonePost(c, n)
        /\ pc[c] \notin {"cfind", "kwait"}
    BY <1>0, <1>1 DEF CloneFind, CloneDone, ClonePost, Awake, NoClones
  <2>2. OthersStay(c)
    BY <1>1, ClientAlone
  <2>3. ClientRuns(c) \/ (\E k \in Slots, r \in Refs : MsgConnect(c, k, r)) \/ (\E k \in Slots, kd \in Kinds : SendFind(c, k, kd))
        \/ (\E k, j \in Slots : ForkPort(c, k, j)) \/ (\E k \in Slots : MsgDisconnect(c, k))
    BY <1>1, <2>1, Zenon DEF ClientCalls
  <2>4. pc' = pc \/ \E l \in ClientPcs \ {"cfind", "kwait"} : Goto(c, l)
    BY <2>1, <2>3, ZenonT(60) DEF ClientRuns, MsgConnect, SendFind, ForkPort, MsgDisconnect, MsgConnectDone, SendPost, SendDone,
       SendMap, CopyDone, MapFails, IntrGone, IntrWithdraw, IntrAbort, IntrDone, AbortDone, FindBroken, ShutClient, ShutDone,
       Return, ClientPcs
  <2>5. pc'[c] \notin {"cfind", "kwait"}
    BY <1>0, <2>1, <2>4 DEF Goto
  <2>6. \A d \in Clients : pc'[d] \notin {"cfind", "kwait"}
    BY <2>2, <2>5 DEF OthersStay, NoClones
  <2>7. \A m \in ToSet(port'.queue) : m.op # "DUP"
    <3>1. \/ port'.queue = port.queue
          \/ \E i \in 1..Len(port.queue) : port'.queue = RemoveAt(port.queue, i)
          \/ \E m \in Sendable : port'.queue = Append(port.queue, m) /\ m.op # "DUP"
      BY <1>1, <2>1, ClientsPost
    <3>2. \A i \in 1..Len(port.queue) : ToSet(RemoveAt(port.queue, i)) \subseteq ToSet(port.queue)
      BY <1>0, RemoveSubset
    <3>3. \A m \in Sendable : ToSet(Append(port.queue, m)) = ToSet(port.queue) \cup {m}
      BY <1>0, ToSetAppend
    <3>4. \A m \in ToSet(port.queue) : m.op # "DUP"
      BY DEF NoClones
    <3>5. CASE port'.queue = port.queue
      BY <3>4, <3>5
    <3>6. CASE \E i \in 1..Len(port.queue) : port'.queue = RemoveAt(port.queue, i)
      BY <3>2, <3>4, <3>6
    <3>7. CASE \E m \in Sendable : port'.queue = Append(port.queue, m) /\ m.op # "DUP"
      BY <3>3, <3>4, <3>7
    <3> QED  BY <3>1, <3>5, <3>6, <3>7
  <2>8. \A r \in Refs : ref'[r].msg # Null => ref'[r].msg.op # "DUP"
    <3>1. \A r \in Refs : ref'[r].msg \in {ref[r].msg, Null}
      BY <1>1, <2>1, ClientsMessage
    <3> QED  BY <3>1 DEF NoClones
  <2> QED  BY <2>6, <2>7, <2>8 DEF NoClones
<1>2. ASSUME NEW s \in Servers, RecvFind(s) \/ ServerRuns(s) \/ ClosePort(s) \/ \E m \in held : ServerAnswers(s, m)
      PROVE  NoClones'
  <2>1. \A c \in Clients : pc'[c] \notin {"cfind", "kwait"}
    <3>1. ClientsLeft(s)
      BY <1>2, ServerApart
    <3> QED  BY <3>1 DEF ClientsLeft, NoClones
  <2>2. CASE RecvTake(s)
    <3>1. PICK m : m = Head(port.queue)
      OBVIOUS
    <3>2. m \in ToSet(port.queue) /\ ToSet(Tail(port.queue)) \subseteq ToSet(port.queue)
      BY <1>0, <2>2, <3>1, TailSubset DEF RecvTake
    <3>3. m \in Sendable /\ m.op # "DUP" /\ m.pr \in Refs
      BY <3>2, MessagesTyped DEF NoClones, Sendable, Messages
    <3>4. ref' = [ref EXCEPT ![m.pr].msg = m] /\ port'.queue = Tail(port.queue)
      <4>1. PICK p : p = [port EXCEPT !.queue = Tail(@)]
        OBVIOUS
      <4>2. p \in WidePort /\ p.queue = Tail(port.queue)
        <5>1. Tail(port.queue) \in Seq(Sendable)
          BY <1>0, <2>2 DEF RecvTake
        <5> QED  BY <1>0, <4>1, <5>1 DEF WidePort
      <4>3. port' = p \/ port' = RefPort(p, m.pr) \/ port' = DerefPort(p, m.pr)
        BY <2>2, <3>1, <4>1 DEF RecvTake
      <4> QED  BY <2>2, <3>1, <4>2, <4>3 DEF RecvTake, RefPort, DerefPort, WidePort
    <3>5. \A r \in Refs : ref'[r].msg = IF r = m.pr THEN m ELSE ref[r].msg
      BY <1>0, <3>3, <3>4 DEF WideRef
    <3> QED  BY <2>1, <3>2, <3>3, <3>4, <3>5 DEF NoClones
  <2>3. CASE ~RecvTake(s)
    <3>1. port'.queue \in {port.queue, << >>}
      <4>1. \/ port' = port \/ \E r : port' = RefPort(port, r) \/ port' = DerefPort(port, r)
            \/ \E v : port' = [port EXCEPT !.sema = v] \/ port' = [port EXCEPT !.wait = v]
            \/ \E v : port' = [port EXCEPT !.inproc = FALSE, !.sema = v]
            \/ port' = [port EXCEPT !.named = FALSE]
            \/ port' = [port EXCEPT !.queue = << >>]
        BY <1>2, <2>3, ZenonT(60) DEF RecvFind, ServerRuns, RecvWait, RecvBroken, RecvNothing, RecvReturn, ReplyRuns, DupWake,
         DupHash, ClosePort, CloseName, Grab, Bounce, BounceEnd, CloseClient, CloseHash, FreePort,
         ServerAnswers, MsgAccept, MsgErr, ReplyDone, ReplyDup, ReplyAbort, ReplyRefused
      <4> QED  BY <1>0, <4>1 DEF RefPort, DerefPort, WidePort
    <3>2. \A r \in Refs : ref'[r].msg \in {ref[r].msg, Null}
      BY <1>2, <2>3, ServersMessage
    <3>3. ToSet(<< >>) = {}
      BY DEF ToSet
    <3> QED  BY <2>1, <3>1, <3>2, <3>3 DEF NoClones
  <2> QED  BY <2>2, <2>3
<1>3. ASSUME NEW t \in Threads, Signal(t)
      PROVE  NoClones'
  <2>1. pc' = pc
    BY <1>3 DEF Signal
  <2>2. \/ ref' = ref
        \/ \E w : ref' = [ref EXCEPT ![R(t)].sema = w] \/ ref' = [ref EXCEPT ![R(t)].iowait = w]
    BY <1>3, Zenon DEF Signal
  <2>3. \A r \in Refs : ref'[r].msg = ref[r].msg
    BY <1>0, <2>2 DEF WideRef
  <2>4. port' = port \/ \E w : port' = [port EXCEPT !.sema = w] \/ port' = [port EXCEPT !.wait = w]
    BY <1>3, Zenon DEF Signal
  <2>5. port'.queue = port.queue
    BY <1>0, <2>4 DEF WidePort
  <2> QED  BY <2>1, <2>3, <2>5 DEF NoClones
<1>4. CASE UNCHANGED vars
  BY <1>4 DEF vars, NoClones
<1> QED  BY <1>1, <1>2, <1>3, <1>4, Zenon DEF Next
-----------------------------------------------------------------------------
(* The port while it keeps its name.                                       *)

\* The last in line stays last when others leave.
LEMMA LastStays ==
  ASSUME NEW T, NEW q \in Seq(T), NEW s, EndsIn(q, s)
  PROVE  /\ q # << >> => EndsIn(Tail(q), s)
         /\ \A k \in 1..Len(q) : q[k] # s => EndsIn(RemoveAt(q, k), s)
<1>1. ASSUME q # << >>
      PROVE  EndsIn(Tail(q), s)
  BY <1>1 DEF EndsIn
<1>2. ASSUME NEW k \in 1..Len(q), q[k] # s
      PROVE  EndsIn(RemoveAt(q, k), s)
  <2>1. PICK p : p = RemoveAt(q, k)
    OBVIOUS
  <2>2. /\ p \in Seq(T) /\ Len(p) = Len(q) - 1
        /\ \A i \in 1..(Len(q) - 1) : p[i] = IF i < k THEN q[i] ELSE q[i + 1]
    BY <2>1, RemoveAtIs
  <2>3. q[Len(q)] = s /\ k # Len(q)
    BY <1>2 DEF EndsIn
  <2>4. Len(q) - 1 \in 1..(Len(q) - 1) /\ ~(Len(q) - 1 < k)
    BY <2>3
  <2>5. p[Len(q) - 1] = q[Len(q)]
    BY <2>2, <2>4
  <2> QED  BY <2>1, <2>2, <2>3, <2>5 DEF EndsIn
<1> QED  BY <1>1, <1>2

\* The thread that closes the port stays the only one, and the last in line.
LEMMA LastStep ==
  ASSUME MsgAssumption, Inv, LastAtPort, [Next]_vars, port'.named
  PROVE  LastAtPort'
<1>0. /\ pc \in [Threads -> ClientPcs \cup ServerPcs] /\ port \in WidePort /\ port.sema.q \in Seq(Servers)
      /\ Servers \subseteq Threads /\ CountIsQueue(port.sema) /\ port.sema \in SemaType(Servers)
  BY DEF Inv, Protocol, PortOK, Mutex, Typed, ThreadsTyped, KernelTyped, WidePort, SemaType, Threads
<1>1. ASSUME \A u \in Servers : pc'[u] = "dport" => pc[u] = "dport", port'.inproc = port.inproc,
             port'.sema = port.sema \/ port'.sema = VSema(port.sema)
      PROVE  LastAtPort'
  <2>1. port'.sema.q = port.sema.q \/ (port.sema.q # << >> /\ port'.sema.q = Tail(port.sema.q))
    <3>1. \A w : VSema(w).q = IF w.q = << >> THEN w.q ELSE Tail(w.q)
      BY DEF VSema
    <3> QED  BY <1>1, <3>1, Zenon
  <2>2. \A u \in Servers : EndsIn(port.sema.q, u) => EndsIn(port'.sema.q, u)
    BY <1>0, <2>1, LastStays
  <2> QED  BY <1>1, <2>2 DEF LastAtPort
<1>2. ASSUME NEW c \in Clients, ClientCalls(c) \/ ClientRuns(c)
      PROVE  LastAtPort'
  BY <1>1, <1>2, ClientAlone DEF OthersStay, Inv
<1>3. ASSUME NEW s \in Servers,
             RecvFind(s) \/ ServerRuns(s) \/ ClosePort(s) \/ \E m \in held : ServerAnswers(s, m)
      PROVE  LastAtPort'
  <2>1. /\ ClientsStay(s)
        /\ \/ RecvFind(s) \/ RecvWait(s) \/ RecvBroken(s) \/ RecvTake(s) \/ RecvNothing(s) \/ RecvReturn(s)
           \/ ReplyRuns(s) \/ DupWake(s) \/ DupHash(s) \/ ClosePort(s)
           \/ \E m \in held : ServerAnswers(s, m)
    BY <1>3, ServerAlone
  <2>2. CASE RecvFind(s)
    <3>1. \A u \in Servers : pc'[u] # "dport"
      BY <1>0, <2>2 DEF RecvFind, Goto, LastAtPort
    <3> QED  BY <3>1 DEF LastAtPort
  <2>3. CASE ClosePort(s)
    <3>1. \A u \in Servers : pc'[u] = "dport" => u = s
      BY <1>0, <2>3 DEF ClosePort, Goto, LastAtPort
    <3>2. ~port'.inproc /\ port'.sema = PSema(port.sema, s)
      BY <1>0, <2>3 DEF ClosePort, WidePort
    <3>3. EndsIn(port'.sema.q, s)
      BY <1>0, <3>2 DEF EndsIn, PSema, CountIsQueue, SemaType
    <3> QED  BY <3>1, <3>2, <3>3 DEF LastAtPort
  <2>4. CASE ~RecvFind(s) /\ ~ClosePort(s)
    <3>1. (\E l \in {"rwait", "rcvd", "out", "svwait", "dupwake", "duphash"} : Goto(s, l)) \/ pc' = pc
      BY <2>1, <2>4, ZenonT(60) DEF RecvWait, RecvBroken, RecvTake, RecvNothing, RecvReturn, ReplyRuns, DupWake, DupHash,
           ServerAnswers, MsgAccept, MsgErr, ReplyDone, ReplyDup, ReplyAbort, ReplyRefused
    <3>2. port'.inproc = port.inproc /\ (port'.sema = port.sema \/ port'.sema = VSema(port.sema))
      <4>1. CASE RecvTake(s)
        BY <1>0, <4>1 DEF RecvTake, RefPort, DerefPort, WidePort
      <4>2. CASE ~RecvTake(s) /\ port' # port
        <5>1. \/ port' = [port EXCEPT !.wait = PSema(@, s)] \/ port' = [port EXCEPT !.sema = VSema(@)]
              \/ \E r : port' \in {RefPort(port, r), DerefPort(port, r)}
          BY <2>1, <2>4, <4>2, ZenonT(60) DEF RecvWait, RecvBroken, RecvNothing, RecvReturn, ReplyRuns, DupWake, DupHash,
             ServerAnswers, MsgAccept, MsgErr, ReplyDone, ReplyDup, ReplyAbort, ReplyRefused
        <5> QED  BY <1>0, <5>1 DEF RefPort, DerefPort, WidePort
      <4> QED  BY <4>1, <4>2
    <3>3. \A u \in Servers : pc'[u] = "dport" => pc[u] = "dport"
      BY <1>0, <3>1 DEF Goto
    <3> QED  BY <1>1, <3>2, <3>3
  <2> QED  BY <2>2, <2>3, <2>4
<1>4. ASSUME NEW t \in Threads, Signal(t)
      PROVE  LastAtPort'
  <2>1. CASE port'.sema = port.sema
    BY <1>0, <1>1, <1>4, <2>1 DEF Signal, WidePort
  <2>2. CASE port'.sema # port.sema
    <3>1. t \in Servers /\ pc[t] = "find" /\ Queued(port.sema, t) /\ port'.sema = Cunsleep(port.sema, t)
          /\ pc' = pc /\ port'.inproc = port.inproc
      BY <1>0, <1>4, <2>2 DEF Signal, WidePort
    <3>2. PICK k \in 1..Len(port.sema.q) : k = Position(port.sema, t) /\ port.sema.q[k] = t
      BY <3>1 DEF Position, Queued, Contains
    <3>3. port'.sema.q = RemoveAt(port.sema.q, k)
      BY <3>1, <3>2 DEF Cunsleep
    <3>4. \A u \in Servers : pc[u] = "dport" => u # t
      BY <3>1
    <3>5. \A u \in Servers : pc[u] = "dport" => EndsIn(port'.sema.q, u)
      BY <1>0, <3>2, <3>3, <3>4, LastStays DEF LastAtPort
    <3> QED  BY <3>1, <3>5 DEF LastAtPort
  <2> QED  BY <2>1, <2>2
<1>5. CASE UNCHANGED vars
  BY <1>1, <1>5 DEF vars
<1> QED  BY <1>2, <1>3, <1>4, <1>5, Zenon DEF Next

\* What a client's step does to the port, apart from its queue.
LEMMA ClientsPort ==
  ASSUME Typed, NEW c \in Clients, ClientCalls(c) \/ ClientRuns(c)
  PROVE  /\ port'.refs = port.refs
         /\ port'.wait.q = port.wait.q \/ (port.wait.q # << >> /\ port'.wait.q = Tail(port.wait.q))
<1>0. port \in WidePort
  BY DEF Typed, KernelTyped
<1>1. port' = port \/ (\E m : port' = Enqueue(port, m)) \/ \E q : port' = [port EXCEPT !.queue = q, !.wait = AdjSema(@, -1)]
  BY ZenonT(60) DEF ClientCalls, ClientRuns, MsgConnect, MsgConnectDone, SendFind, SendPost, SendDone, SendMap,
     CopyDone, MapFails, IntrGone, IntrWithdraw, IntrAbort, IntrDone, AbortDone, FindBroken,
     CloneFind, ClonePost, CloneDone, ForkPort, MsgDisconnect, ShutClient, ShutDone
<1>2. port'.refs = port.refs
  BY <1>0, <1>1 DEF Enqueue, WidePort
<1>3. port'.wait.q = port.wait.q \/ port'.wait = VSema(port.wait)
  BY <1>0, <1>1 DEF Enqueue, AdjSema, WidePort, SemaType
<1>4. \A w : VSema(w).q = IF w.q = << >> THEN w.q ELSE Tail(w.q)
  BY DEF VSema
<1> QED  BY <1>2, <1>3, <1>4, Zenon

\* Those in p_wait are about to receive.
LEMMA WaitersStep ==
  ASSUME MsgAssumption, Inv, WaitersReceive, [Next]_vars, port'.named
  PROVE  WaitersReceive'
<1>0. /\ pc \in [Threads -> ClientPcs \cup ServerPcs] /\ intr \in [Threads -> BOOLEAN]
      /\ port \in WidePort /\ port.wait.q \in Seq(Servers)
      /\ Servers \subseteq Threads /\ \A s \in Servers : s \notin Clients
  BY DEF Inv, Typed, ThreadsTyped, KernelTyped, WidePort, SemaType, Threads, MsgAssumption
<1>1. ASSUME IsInjective(port'.wait.q), \A u \in Servers : Queued(port'.wait, u) => Queued(port.wait, u),
             \A u \in Servers : Queued(port'.wait, u) => pc'[u] = pc[u] /\ intr'[u] = intr[u]
      PROVE  WaitersReceive'
  BY <1>1 DEF WaitersReceive, QueueDistinct
<1>2. ASSUME port'.wait = port.wait,
             \A u \in Servers : Queued(port.wait, u) => pc'[u] = pc[u] /\ intr'[u] = intr[u]
      PROVE  WaitersReceive'
  BY <1>2 DEF WaitersReceive
<1>3. ASSUME NEW c \in Clients, ClientCalls(c) \/ ClientRuns(c)
      PROVE  WaitersReceive'
  <2>1. \A u \in Servers : pc'[u] = pc[u] /\ intr'[u] = intr[u]
    BY <1>3, ClientAlone DEF OthersStay, Inv
  <2>3. port'.wait.q = port.wait.q \/ (port.wait.q # << >> /\ port'.wait.q = Tail(port.wait.q))
    BY <1>3, ClientsPort DEF Inv
  <2>4. /\ IsInjective(port'.wait.q)
        /\ \A u \in Servers : Contains(port'.wait.q, u) => Contains(port.wait.q, u)
    BY <1>0, <2>3, TailQueue DEF WaitersReceive, QueueDistinct
  <2> QED  BY <1>1, <2>1, <2>4 DEF Queued
<1>4. ASSUME NEW s \in Servers,
             RecvFind(s) \/ ServerRuns(s) \/ ClosePort(s) \/ \E m \in held : ServerAnswers(s, m)
      PROVE  WaitersReceive'
  <2>1. /\ ClientsStay(s)
        /\ \/ RecvFind(s) \/ RecvWait(s) \/ RecvBroken(s) \/ RecvTake(s) \/ RecvNothing(s) \/ RecvReturn(s)
           \/ ReplyRuns(s) \/ DupWake(s) \/ DupHash(s) \/ ClosePort(s)
           \/ \E m \in held : ServerAnswers(s, m)
    BY <1>4, ServerAlone
  <2>2. \A u \in Servers : u # s => pc'[u] = pc[u] /\ intr'[u] = intr[u]
    BY <2>1 DEF ClientsStay
  <2>3. CASE RecvWait(s)
    <3>1. /\ pc[s] = "find" /\ ~intr[s] /\ pc'[s] = "rwait" /\ ~intr'[s] /\ port'.wait = PSema(port.wait, s)
          /\ ~Contains(port.wait.q, s)
      BY <1>0, <2>3 DEF RecvWait, Awake, Goto, WidePort, WaitersReceive, Queued
    <3>2. port'.wait.q = port.wait.q \/ port'.wait.q = Append(port.wait.q, s)
      BY <3>1 DEF PSema
    <3>3. /\ IsInjective(port'.wait.q)
          /\ \A u \in Servers : Contains(port'.wait.q, u) => Contains(port.wait.q, u) \/ u = s
      <4>1. IsInjective(port.wait.q)
        BY DEF WaitersReceive, QueueDistinct
      <4>2. /\ IsInjective(Append(port.wait.q, s))
            /\ \A u \in Servers : Contains(Append(port.wait.q, s), u) <=> Contains(port.wait.q, u) \/ u = s
        BY <1>0, <3>1, <4>1, AppendQueue
      <4> QED  BY <3>2, <4>1, <4>2, Zenon
    <3> QED  BY <2>2, <3>1, <3>3 DEF WaitersReceive, QueueDistinct, Queued
  <2>4. CASE ~RecvWait(s)
    <3>1. port'.wait = port.wait
      <4>1. CASE RecvTake(s)
        BY <1>0, <4>1 DEF RecvTake, RefPort, DerefPort, WidePort
      <4>2. CASE ~RecvTake(s) /\ port' # port
        <5>1. \/ port' = [port EXCEPT !.inproc = FALSE, !.sema = PSema(@, s)]
              \/ port' = [port EXCEPT !.sema = PSema(@, s)] \/ port' = [port EXCEPT !.sema = VSema(@)]
              \/ \E r : port' \in {RefPort(port, r), DerefPort(port, r)}
          BY <2>1, <2>4, <4>2, ZenonT(60) DEF RecvFind, RecvBroken, RecvNothing, RecvReturn, ReplyRuns, DupWake, DupHash,
             ClosePort, ServerAnswers, MsgAccept, MsgErr, ReplyDone, ReplyDup, ReplyAbort, ReplyRefused
        <5> QED  BY <1>0, <5>1 DEF RefPort, DerefPort, WidePort
      <4> QED  BY <4>1, <4>2
    <3>2. pc[s] # "rwait" \/ intr[s] \/ ~Queued(port.wait, s) \/ (pc' = pc /\ intr' = intr)
      BY <2>1, <2>4, ZenonT(60) DEF RecvFind, RecvBroken, RecvTake, RecvNothing, RecvReturn, ReplyRuns, DupWake, DupHash,
             ClosePort, ServerAnswers, Holds, MsgAccept, MsgErr, ReplyDone, ReplyDup, ReplyAbort, ReplyRefused, Broken, Awake
    <3>3. Queued(port.wait, s) => pc'[s] = pc[s] /\ intr'[s] = intr[s]
      BY <3>2 DEF WaitersReceive
    <3> QED  BY <1>2, <2>2, <3>1, <3>3
  <2> QED  BY <2>3, <2>4
<1>5. ASSUME NEW t \in Threads, Signal(t)
      PROVE  WaitersReceive'
  <2>1. pc' = pc /\ \A u \in Servers : u # t => intr'[u] = intr[u]
    BY <1>0, <1>5 DEF Signal
  <2>2. CASE t \in Servers /\ pc[t] = "rwait" /\ Queued(port.wait, t) /\ port' = [port EXCEPT !.wait = Cunsleep(@, t)]
    <3>1. PICK k \in 1..Len(port.wait.q) : k = Position(port.wait, t) /\ port.wait.q[k] = t
      BY <2>2 DEF Position, Queued, Contains
    <3>2. port'.wait.q = RemoveAt(port.wait.q, k)
      BY <1>0, <2>2, <3>1 DEF Cunsleep, WidePort
    <3>3. /\ IsInjective(port'.wait.q)
          /\ \A u \in Servers : Contains(port'.wait.q, u) <=> Contains(port.wait.q, u) /\ u # t
      BY <1>0, <3>1, <3>2, RemoveQueue DEF WaitersReceive, QueueDistinct
    <3> QED  BY <1>1, <2>1, <3>3 DEF Queued
  <2>3. CASE t \notin Servers \/ pc[t] = "find"
    <3>1. port'.wait = port.wait
      BY <1>0, <1>5, <2>3 DEF Signal, WidePort
    <3>2. \A u \in Servers : Queued(port.wait, u) => u # t
      BY <2>3 DEF WaitersReceive
    <3> QED  BY <1>2, <2>1, <3>1, <3>2
  <2> QED  BY <1>0, <1>5, <2>2, <2>3 DEF Signal
<1>6. CASE UNCHANGED vars
  BY <1>2, <1>6 DEF vars
<1> QED  BY <1>3, <1>4, <1>5, <1>6, Zenon DEF Next

\* A handle that is being closed is still on the port's list.
LEMMA ShutsStep ==
  ASSUME MsgAssumption, Inv, CountInv, ListsOK, ShutsListed, [Next]_vars, port'.named
  PROVE  ShutsListed'
<1>0. /\ pc \in [Threads -> ClientPcs \cup ServerPcs] /\ my \in [Clients -> Local] /\ port \in WidePort
      /\ \A c \in Clients : c \in Threads /\ (pc[c] = "shut" => R(c) \in Refs)
      /\ port.queue \in Seq(Sendable) /\ held \subseteq Sendable
  BY DEF Inv, Typed, ThreadsTyped, KernelTyped, WidePort, LocalsSet, ServerTyped, Threads
<1>1. ASSUME NEW c \in Clients, ClientCalls(c) \/ ClientRuns(c)
      PROVE  ShutsListed'
  <2>1. \A d \in Clients : d # c => pc'[d] = pc[d] /\ my'[d] = my[d]
    BY <1>1, ClientAlone DEF OthersStay, Inv
  <2>3. port'.refs = port.refs
    BY <1>1, ClientsPort DEF Inv
  <2>4. pc'[c] = "shut" => my'[c].pr \in port.refs
    <3>1. ASSUME NEW k \in Slots, MsgDisconnect(c, k)
          PROVE  pc'[c] = "shut" => my'[c].pr \in port.refs
      <4>1. slots[k] \in port.refs
        BY <3>1 DEF MsgDisconnect, ListsOK, Hashed, InService
      <4>2. pc'[c] = "shut" => my'[c].pr = slots[k]
        <5>1. pc[c] = "out" /\ (LastRef(slots[k]) \/ pc' = pc)
          BY <3>1, Zenon DEF MsgDisconnect
        <5>2. LastRef(slots[k]) => my' = [my EXCEPT ![c] = [NoCall EXCEPT !.pr = slots[k]]]
          BY <3>1, Zenon DEF MsgDisconnect
        <5> QED  BY <1>0, <5>1, <5>2 DEF NoCall
      <4> QED  BY <4>1, <4>2
    <3>2. CASE \A k \in Slots : ~MsgDisconnect(c, k)
      <4>1. \/ \E l \in ClientPcs \ {"shut"} : Goto(c, l)
            \/ pc' = pc /\ pc[c] = "out"
        BY <1>1, <3>2, ZenonT(60) DEF ClientCalls, ClientRuns, MsgConnect, MsgConnectDone, SendFind, SendPost, SendDone, SendMap,
             CopyDone, MapFails, IntrGone, IntrWithdraw, IntrAbort, IntrDone, AbortDone, FindBroken,
             CloneFind, ClonePost, CloneDone, ForkPort, ShutClient, ShutDone, Return, ClientPcs
      <4> QED  BY <1>0, <4>1 DEF Goto
    <3> QED  BY <3>1, <3>2
  <2> QED  BY <2>1, <2>3, <2>4 DEF ShutsListed, R
<1>2. ASSUME NEW s \in Servers,
             RecvFind(s) \/ ServerRuns(s) \/ ClosePort(s) \/ \E m \in held : ServerAnswers(s, m)
      PROVE  ShutsListed'
  <2>1. /\ ClientsStay(s)
        /\ \/ RecvFind(s) \/ RecvWait(s) \/ RecvBroken(s) \/ RecvTake(s) \/ RecvNothing(s) \/ RecvReturn(s)
           \/ ReplyRuns(s) \/ DupWake(s) \/ DupHash(s) \/ ClosePort(s)
           \/ \E m \in held : ServerAnswers(s, m)
    BY <1>2, ServerAlone
  <2>2. ASSUME \A c \in Clients : pc[c] = "shut" => R(c) \in port'.refs
        PROVE  ShutsListed'
    BY <2>1, <2>2 DEF ClientsStay, ShutsListed, R
  <2>3. CASE RecvTake(s)
    <3>1. PICK m : m = Head(port.queue)
      OBVIOUS
    <3>2. /\ port.queue # << >>
          /\ \/ port'.refs \in {port.refs \cup {m.pr}, port.refs}
             \/ m.op = "DISCONNECT" /\ port'.refs = port.refs \ {m.pr}
      BY <1>0, <2>3, <3>1 DEF RecvTake, RefPort, DerefPort, WidePort
    <3>3. port.queue # << >> /\ m = port.queue[1]
      BY <1>0, <2>3, <3>1 DEF RecvTake
    <3>4. m.op = "DISCONNECT" => m.pr \in Byes(port.queue)
      BY <1>0, <3>3 DEF Byes
    <3>5. \A c \in Clients : pc[c] = "shut" => R(c) \notin Byes(port.queue)
      BY <1>0 DEF CountInv, EndOf, Ends
    <3> QED  BY <2>2, <3>2, <3>4, <3>5 DEF ShutsListed
  <2>4. ASSUME NEW m \in held, MsgErr(s, m)
        PROVE  ShutsListed'
    <3>1. port'.refs = port.refs \/ (ref[m.pr].state = "OPENING" /\ port'.refs = port.refs \ {m.pr})
      BY <1>0, <2>4 DEF MsgErr, DerefPort, WidePort
    <3>2. ASSUME ref[m.pr].state = "OPENING", NEW c \in Clients, pc[c] = "shut", R(c) = m.pr
          PROVE  FALSE
      <4>1. Known(m) /\ m.op \in Ops /\ m.from \in Clients
        BY MessagesTyped DEF Inv, Protocol, MessagesOK, AllMsgs
      <4>2. pc[m.from] = "opening" /\ R(m.from) = m.pr
        BY <3>2, <4>1 DEF Known, StatesOf, Ops, WaitsFor
      <4> QED  BY <3>2, <4>1, <4>2 DEF Inv, Protocol, TablesOK, AloneOK, Using
    <3> QED  BY <2>2, <3>1, <3>2 DEF ShutsListed
  <2>5. CASE ~RecvTake(s) /\ ~(\E m \in held : MsgErr(s, m))
    <3>1. \/ port' = port
          \/ port' = [port EXCEPT !.inproc = FALSE, !.sema = PSema(@, s)]
          \/ port' = [port EXCEPT !.sema = PSema(@, s)] \/ port' = [port EXCEPT !.wait = PSema(@, s)]
          \/ port' = [port EXCEPT !.sema = VSema(@)]
          \/ \E r : port' = RefPort(port, r)
      BY <2>1, <2>5, ZenonT(60) DEF RecvFind, RecvWait, RecvBroken, RecvNothing, RecvReturn, ReplyRuns, DupWake, DupHash,
         ClosePort, ServerAnswers, MsgAccept, ReplyDone, ReplyDup, ReplyAbort, ReplyRefused
    <3>2. port.refs \subseteq port'.refs
      BY <1>0, <3>1 DEF RefPort, WidePort
    <3> QED  BY <2>2, <3>2 DEF ShutsListed
  <2> QED  BY <2>3, <2>4, <2>5
<1>3. ASSUME NEW t \in Threads, Signal(t)
      PROVE  ShutsListed'
  <2>1. pc' = pc /\ my' = my /\ port'.refs = port.refs
    BY <1>0, <1>3 DEF Signal, WidePort, clientVars
  <2> QED  BY <2>1 DEF ShutsListed, R
<1>4. CASE UNCHANGED vars
  BY <1>4 DEF vars, ShutsListed, R
<1> QED  BY <1>1, <1>2, <1>3, <1>4, Zenon DEF Next

\* When the name is taken away nobody is left at the port.
LEMMA ClosingBegins ==
  ASSUME MsgAssumption, Inv, ListsOK, CloserOK, [Next]_vars, ~port'.named
  PROVE  GateShut' /\ HandlesShut' /\ QueueShut'
<1>0. /\ pc \in [Threads -> ClientPcs \cup ServerPcs] /\ port \in WidePort /\ Servers \subseteq Threads
      /\ port.sema.q \in Seq(Servers) /\ port.wait.q \in Seq(Servers)
      /\ \A c \in Clients : c \in Threads /\ c \notin Servers /\ (pc[c] # "out" => R(c) \in Refs)
  BY DEF Inv, Typed, ThreadsTyped, KernelTyped, LocalsSet, WidePort, SemaType, Threads, MsgAssumption
<1>1. port.named /\ \A u \in Servers : pc[u] \notin ShuttingPcs
  BY DEF Inv, Protocol, ServerStays
<1>2. PICK s \in Servers : CloseName(s)
  BY <1>1, NameTaken DEF Inv
<1>3. /\ pc[s] = "dport" /\ ~Queued(port.sema, s)
      /\ port' = [port EXCEPT !.named = FALSE] /\ pc' = [pc EXCEPT ![s] = "grab"]
      /\ intr' = intr /\ my' = my /\ slots' = slots /\ ref' = ref /\ held' = held
  BY <1>2, Zenon DEF CloseName, Awake, Goto, clientVars, serverVars
<1>4. /\ port'.inproc = port.inproc /\ port'.sema = port.sema /\ port'.wait = port.wait
      /\ port'.refs = port.refs /\ port'.queue = port.queue
  BY <1>0, <1>3 DEF WidePort
<1>5. GateShut'
  <2>1. ~port.inproc /\ port.sema.q = << >>
    <3>1. ~port.inproc /\ EndsIn(port.sema.q, s)
      BY <1>3 DEF CloserOK, LastAtPort
    <3> QED  BY <1>0, <1>3, <3>1 DEF EndsIn, Queued, Contains
  <2>2. \A u \in Servers : ~Queued(port.sema, u)
    BY <2>1 DEF Queued, Contains
  <2>3. Receivers = {s}
    <3>1. s \in Receivers
      BY <1>3 DEF Receivers, Receives
    <3> QED  BY <3>1, OneOwner DEF Inv, Protocol, PortOK
  <2>4. \A u \in Servers : u # s => pc[u] \notin {"rwait", "rcvd", "dport"} /\ (pc[u] = "find" => intr[u])
    BY <2>2, <2>3 DEF Receivers, Receives
  <2>5. port.wait.q = << >>
    <3>1. \A u \in Servers : ~Queued(port.wait, u)
      BY <1>3, <2>4 DEF CloserOK, WaitersReceive
    <3>2. ASSUME port.wait.q # << >>
          PROVE  FALSE
      <4>1. port.wait.q[1] \in Servers /\ 1 \in 1..Len(port.wait.q)
        BY <1>0, <3>2
      <4> QED  BY <3>1, <4>1 DEF Queued, Contains
    <3> QED  BY <3>2
  <2> QED  BY <1>0, <1>1, <1>3, <1>4, <2>1, <2>4, <2>5 DEF GateShut, ShuttingPcs
<1>6. \A c \in Clients : pc'[c] = pc[c] /\ R(c)' = R(c) /\ X(c)' = X(c)
  BY <1>0, <1>3 DEF R, X
<1>7. \A r : SlotsOf(r)' = SlotsOf(r) /\ (Listed(r)' <=> Listed(r))
  BY <1>3, <1>4 DEF SlotsOf, Listed
<1>8. HandlesShut'
  <2>0. TablesOK /\ CallsOK
    BY DEF Inv, Protocol
  <2>1. \A c \in Clients : Sends(c)' => SlotsOf(R(c))' # {}
    <3>1. \A c \in Clients : Sends(c) => SlotsOf(R(c)) # {}
      BY <2>0 DEF TablesOK, UsersOK, Sends, Sending, Using
    <3>2. \A c \in Clients : SlotsOf(R(c))' = SlotsOf(R(c))
      BY <1>3 DEF SlotsOf, R
    <3> QED  BY <1>6, <3>1, <3>2 DEF Sends
  <2>2. \A k \in Slots : InService(k)' => Listed(slots[k])'
    <3>1. ASSUME NEW k \in Slots, InService(k)
          PROVE  Listed(slots[k])
      <4>1. slots[k] \in Refs /\ SlotsOf(slots[k]) # {}
        BY <3>1 DEF InService, SlotsOf
      <4>2. ref[slots[k]].state # "OPENING"
        BY <2>0, <4>1 DEF TablesOK, HandlesKept
      <4>3. slots[k] \in port.refs
        BY <3>1 DEF ListsOK, Hashed
      <4> QED  BY <4>2, <4>3 DEF Listed
    <3> QED  BY <1>3, <1>4, <3>1 DEF InService, Listed
  <2>3. \A c \in Clients : pc'[c] = "shut" => Listed(R(c))'
    <3>1. ASSUME NEW c \in Clients, pc[c] = "shut"
          PROVE  Listed(R(c))
      <4>1. R(c) \in Refs /\ ref[R(c)].alloc /\ ref[R(c)].state # "CLOSING"
            /\ \A d \in Clients : Using(d) /\ d # c => R(d) # R(c)
        BY <1>0, <2>0, <3>1 DEF TablesOK, UsersOK, AloneOK, Using
      <4>2. ~Waiting(c) /\ \A d \in Clients : Waiting(d) => Using(d)
        BY <3>1 DEF Waiting, Using, InExchange
      <4>3. Resting(ref[R(c)])
        BY <2>0, <4>1, <4>2 DEF CallsOK
      <4>4. R(c) \in port.refs
        BY <3>1 DEF CloserOK, ShutsListed
      <4> QED  BY <4>3, <4>4 DEF Resting, Listed
    <3> QED  BY <1>3, <1>4, <1>6, <3>1 DEF Listed
  <2>4. \A c \in Clients : pc'[c] = "opening" =>
          /\ X(c)'.state \in {"OPENING", "IODONE", "ABDONE"}
          /\ X(c)'.state = "IODONE" /\ X(c)'.port => R(c)' \in port'.refs
    <3>1. \A c \in Clients : pc[c] = "opening" =>
            /\ X(c).state \in {"OPENING", "IODONE", "ABDONE"}
            /\ X(c).state = "IODONE" => R(c) \in port.refs
      BY <2>0 DEF CallsOK, CallAt, Waiting, ListsOK
    <3> QED  BY <1>4, <1>6, <3>1
  <2>5. \A m \in held' : m.op = "CONNECT" /\ ref'[m.pr].state = "OPENING" /\ ref'[m.pr].port => m.pr \in port'.refs
    BY <1>3, <1>4 DEF ListsOK
  <2> QED  BY <2>1, <2>2, <2>3, <2>4, <2>5 DEF HandlesShut
<1>9. QueueShut'
  BY <1>0, <1>1, <1>3 DEF QueueShut, ShuttingPcs
<1> QED  BY <1>5, <1>8, <1>9

\* Whether it has its name or not.
ClosingOK ==
  /\ Typed /\ CountInv /\ NoClones
  /\ port.named => Inv /\ ListsOK /\ CloserOK
  /\ ~port.named => GateShut /\ HandlesShut /\ QueueShut

LEMMA ClosingInit ==
  ASSUME MsgAssumption, Init
  PROVE  ClosingOK
<1>1. Typed /\ CountInv /\ Inv /\ ListsOK
  BY TypedInit, CountInit, InvInit, ListsInit DEF Inv
<1>2. /\ \A t \in Threads : pc[t] = "out"
      /\ port.named /\ port.queue = << >> /\ port.wait = NewSema(0) /\ \A r \in Refs : ref[r].msg = Null
  BY DEF Init, FreeRef
<1>3. (\A c \in Clients : pc[c] = "out") /\ (\A s \in Servers : pc[s] = "out")
  BY <1>2 DEF Threads
<1>4. NoClones
  BY <1>2, <1>3 DEF NoClones, ToSet
<1>5. CloserOK
  BY <1>2, <1>3 DEF CloserOK, LastAtPort, WaitersReceive, ShutsListed, NewSema, QueueDistinct, Queued,
     Contains, IsInjective
<1> QED  BY <1>1, <1>2, <1>4, <1>5 DEF ClosingOK

LEMMA ClosingStep ==
  ASSUME MsgAssumption, Polite, "clone" \notin Does, IsFiniteSet(Slots), ClosingOK, [Next]_vars
  PROVE  ClosingOK'
<1>1. Typed' /\ CountInv' /\ NoClones'
  BY TypedStep, CountStep, NoClonesStep DEF ClosingOK
<1>2. CASE port'.named
  <2>1. port.named
    BY <1>2, NameTaken DEF ClosingOK
  <2>2. Inv /\ ListsOK /\ CloserOK
    BY <2>1 DEF ClosingOK
  <2>3. Inv' /\ ListsOK'
    BY <1>2, <2>2, InvStep, ListsStep
  <2>4. CloserOK'
    BY <1>2, <2>2, LastStep, WaitersStep, ShutsStep DEF CloserOK, ClosingOK
  <2> QED  BY <1>1, <1>2, <2>3, <2>4 DEF ClosingOK
<1>3. CASE ~port'.named
  <2>1. GateShut' /\ HandlesShut' /\ QueueShut'
    <3>1. CASE port.named
      BY <1>3, <3>1, ClosingBegins DEF ClosingOK
    <3>2. CASE ~port.named
      BY <3>2, ShutStep DEF ClosingOK
    <3> QED  BY <3>1, <3>2
  <2> QED  BY <1>1, <1>3, <2>1 DEF ClosingOK
<1> QED  BY <1>2, <1>3

LEMMA ClosingMeans ==
  ASSUME MsgAssumption, ClosingOK
  PROVE  Severed
<1> SUFFICES ASSUME NEW s \in Servers, pc[s] = "gone"
             PROVE  /\ \A k \in Slots : InService(k) => ~ref[slots[k]].port
                    /\ port.queue = << >> /\ port.sema.q = << >> /\ port.wait.q = << >>
  BY DEF Severed
<1>1. ~port.named
  BY DEF ClosingOK, Inv, Protocol, ServerStays, ShuttingPcs
<1>2. GateShut /\ HandlesShut /\ QueueShut
  BY <1>1 DEF ClosingOK
<1>3. port.refs = {}
  BY <1>2 DEF QueueShut
<1>4. port.queue = << >>
  <2>1. port.queue \in Seq(Sendable) /\ ToSet(port.queue) = {}
    <3>1. \A m \in ToSet(port.queue) : m.pr \in port.refs
      BY <1>2 DEF QueueShut
    <3> QED  BY <1>3, <3>1, MessagesTyped DEF ClosingOK
  <2>2. ASSUME port.queue # << >>
        PROVE  FALSE
    <3>1. port.queue[1] \in ToSet(port.queue)
      BY <2>1, <2>2 DEF ToSet
    <3> QED  BY <2>1, <3>1
  <2> QED  BY <2>2
<1> QED  BY <1>2, <1>3, <1>4 DEF GateShut, HandlesShut, Listed

\* Once a server has freed the port no handle in service points to it, no
\* message is in its queue and nobody sleeps there, whoever was about to
\* receive, connect, send, abort, share or close a handle when he began to take
\* it down.  (A clone that was asked for by then does get a handle that points
\* to the freed port.)
THEOREM NothingLeftBehind ==
  ASSUME IsFiniteSet(Slots), Polite, "clone" \notin Does
  PROVE  Spec => []Severed
<1>1. Init => ClosingOK
  BY MsgAssumption, ClosingInit
<1>2. ClosingOK /\ [Next]_vars => ClosingOK'
  BY MsgAssumption, ClosingStep
<1>3. ClosingOK => Severed
  BY MsgAssumption, ClosingMeans
<1> QED  BY <1>1, <1>2, <1>3, PTL DEF Spec

-----------------------------------------------------------------------------
(* The port's list and the server's hash, to the end.                      *)

\* While the port has its name, the hash learns of a handle that has come to
\* the list, or has gone from it, when its message is out of the way.
RefsKnown ==
  /\ \A r \in port.refs : r \in hash \/ \E m \in InHands : m.op = "CONNECT" /\ m.pr = r
  /\ \A m \in InHands : m.op = "DISCONNECT" => m.pr \notin port.refs

\* While it is taken down the hash has the list, and the one that is cut off.
HashShut ==
  /\ port.refs \subseteq hash
  /\ \A s \in Servers : pc[s] = "chash" => got[s] \in hash /\ got[s] \notin port.refs

\* Nobody refuses a connection while another thread closes the port.
Calm == "refuse" \notin Does \/ \A s, u \in Servers : s = u

LEMMA RefsKnownStep ==
  ASSUME MsgAssumption, Inv, ListsOK, NoClones, RefsKnown, [Next]_vars, port'.named
  PROVE  RefsKnown'
<1>0. /\ pc \in [Threads -> ClientPcs \cup ServerPcs] /\ port \in WidePort /\ Servers \subseteq Threads
      /\ got \in [Servers -> Sendable \cup Refs \cup {Null}] /\ hash \subseteq Refs
      /\ \A s \in Servers : pc[s] = "rcvd" => got[s] \in Sendable
  BY DEF Inv, Typed, ThreadsTyped, KernelTyped, ServerTyped, LocalsSet, Threads
<1>1. ASSUME port'.refs = port.refs, InHands' = InHands, hash \subseteq hash'
      PROVE  RefsKnown'
  BY <1>1 DEF RefsKnown
<1>2. ASSUME NEW c \in Clients, ClientCalls(c) \/ ClientRuns(c)
      PROVE  RefsKnown'
  <2>1. hash' = hash /\ got' = got /\ \A u \in Servers : pc'[u] = pc[u]
    BY <1>2, ClientAlone DEF OthersStay, Inv
  <2>2. InHands' = InHands
    BY <2>1 DEF InHands
  <2>3. port'.refs = port.refs
    BY <1>2, ClientsPort DEF Inv
  <2> QED  BY <1>1, <2>1, <2>2, <2>3
<1>3. ASSUME NEW s \in Servers,
             RecvFind(s) \/ ServerRuns(s) \/ ClosePort(s) \/ \E m \in held : ServerAnswers(s, m)
      PROVE  RefsKnown'
  <2>1. /\ ClientsStay(s)
        /\ \/ RecvFind(s) \/ RecvWait(s) \/ RecvBroken(s) \/ RecvTake(s) \/ RecvNothing(s) \/ RecvReturn(s)
           \/ ReplyRuns(s) \/ DupWake(s) \/ DupHash(s) \/ ClosePort(s)
           \/ \E m \in held : ServerAnswers(s, m)
    BY <1>3, ServerAlone
  <2>2. \A u \in Servers : u # s => pc'[u] = pc[u] /\ got'[u] = got[u]
    BY <2>1 DEF ClientsStay
  <2>3. CASE RecvTake(s)
    <3>1. PICK m : m = Head(port.queue)
      OBVIOUS
    <3>2. pc[s] = "rwait" /\ pc'[s] = "rcvd" /\ got'[s] = m /\ hash' = hash
      BY <1>0, <2>3, <3>1 DEF RecvTake, Awake, Goto
    <3>3. \A u \in Servers : pc[u] # "rcvd"
      BY <3>2, OneReceiver
    <3>4. InHands = {} /\ InHands' = {m}
      BY <2>2, <3>2, <3>3 DEF InHands
    <3>5. \/ m.op = "CONNECT" /\ port'.refs = port.refs \cup {m.pr}
          \/ m.op = "DISCONNECT" /\ port'.refs = port.refs \ {m.pr}
          \/ m.op \notin {"CONNECT", "DISCONNECT"} /\ port'.refs = port.refs
      BY <1>0, <2>3, <3>1 DEF RecvTake, RefPort, DerefPort, WidePort
    <3> QED  BY <3>2, <3>4, <3>5 DEF RefsKnown
  <2>4. CASE RecvReturn(s)
    <3>1. PICK m : m = got[s]
      OBVIOUS
    <3>2. pc[s] = "rcvd" /\ pc'[s] = "out" /\ m \in Sendable /\ port'.refs = port.refs
      BY <1>0, <2>4, <3>1 DEF RecvReturn, Goto, WidePort
    <3>3. \A u \in Servers : pc[u] = "rcvd" => u = s
      BY <3>2, OneReceiver
    <3>4. InHands = {m} /\ InHands' = {}
      BY <2>2, <3>1, <3>2, <3>3 DEF InHands
    <3>5. \/ m.op = "CONNECT" /\ hash' = hash \cup {m.pr}
          \/ m.op = "DISCONNECT" /\ hash' = hash \ {m.pr}
          \/ m.op \notin {"CONNECT", "DISCONNECT"} /\ hash' = hash
      BY <2>4, <3>1 DEF RecvReturn
    <3> QED  BY <3>2, <3>4, <3>5 DEF RefsKnown
  <2>5. ASSUME NEW m \in held, MsgErr(s, m)
        PROVE  RefsKnown'
    <3>1. InHands' = InHands
      BY <2>5 DEF MsgErr, InHands
    <3>2. CASE ref[m.pr].state # "OPENING"
      BY <1>1, <2>5, <3>1, <3>2 DEF MsgErr
    <3>3. CASE ref[m.pr].state = "OPENING"
      <4>1. Known(m) /\ m.op \in Ops /\ m.pr \in Refs /\ ref[m.pr].port
        BY MessagesTyped DEF Inv, Protocol, MessagesOK, AllMsgs, Known, ServerStays
      <4>2. m.op = "CONNECT"
        BY <3>3, <4>1 DEF Known, StatesOf, Ops
      <4>3. ref[m.pr].msg # Null
        <5>1. ref[m.pr].msg = m /\ m \in Messages
          BY <3>3, <4>2 DEF Inv, Protocol, MessagesOK, Typed, ServerTyped, Sendable
        <5> QED  BY <5>1, NullIsNoMessage
      <4>4. m.pr \in hash
        BY <4>2 DEF ListsOK
      <4>5. hash' = hash \ {m.pr} /\ port' = DerefPort(port, m.pr)
        BY <2>5, <3>3, <4>1, <4>3, <4>4 DEF MsgErr
      <4>6. port'.refs = port.refs \ {m.pr}
        BY <1>0, <4>5 DEF DerefPort, WidePort
      <4> QED  BY <3>1, <4>5, <4>6 DEF RefsKnown
    <3> QED  BY <3>2, <3>3
  <2>6. CASE ~RecvTake(s) /\ ~RecvReturn(s) /\ ~(\E m \in held : MsgErr(s, m))
    <3>1. ASSUME NEW m \in held, NEW a \in Answers, ReplyDup(s, m, a)
          PROVE  FALSE
      <4>1. ref[m.pr].msg # Null /\ ref[m.pr].msg.op = "DUP"
        BY <3>1, Zenon DEF ReplyDup, Wanted
      <4>2. m.pr \in Refs
        BY DEF Inv, Typed, ServerTyped, Sendable, Messages
      <4> QED  BY <4>1, <4>2 DEF NoClones
    <3>2. \/ port' = port
          \/ port' = [port EXCEPT !.inproc = FALSE, !.sema = PSema(@, s)]
          \/ port' = [port EXCEPT !.sema = PSema(@, s)] \/ port' = [port EXCEPT !.wait = PSema(@, s)]
          \/ port' = [port EXCEPT !.sema = VSema(@)]
      BY <2>1, <2>6, <3>1, ZenonT(60) DEF RecvFind, RecvWait, RecvBroken, RecvNothing, ReplyRuns, DupWake, DupHash,
         ClosePort, ServerAnswers, MsgAccept, ReplyDone, ReplyAbort, ReplyRefused
    <3>3. port'.refs = port.refs
      BY <1>0, <3>2 DEF WidePort
    <3>4. hash' = hash \/ hash' = hash \cup {got[s].new}
      BY <2>1, <2>6, <3>1, ZenonT(60) DEF RecvFind, RecvWait, RecvBroken, RecvNothing, ReplyRuns, DupWake, DupHash,
         ClosePort, ServerAnswers, MsgAccept, ReplyDone, ReplyAbort, ReplyRefused, serverVars
    <3>5. \/ (\E l \in ServerPcs \ {"rcvd"} : Goto(s, l)) /\ pc[s] # "rcvd"
          \/ pc' = pc /\ got' = got
      BY <2>1, <2>6, <3>1, ZenonT(60) DEF RecvFind, RecvWait, RecvBroken, RecvNothing, ReplyRuns, DupWake, DupHash,
         ClosePort, ServerAnswers, MsgAccept, ReplyDone, ReplyAbort, ReplyRefused, serverVars, Holds, Awake, Broken, ServerPcs
    <3>6. InHands' = InHands
      BY <1>0, <2>2, <3>5 DEF InHands, Goto
    <3>7. hash \subseteq hash'
      BY <3>4
    <3> QED  BY <1>1, <3>3, <3>6, <3>7
  <2> QED  BY <2>3, <2>4, <2>5, <2>6
<1>4. ASSUME NEW t \in Threads, Signal(t)
      PROVE  RefsKnown'
  <2>1. pc' = pc /\ got' = got /\ hash' = hash /\ port'.refs = port.refs
    BY <1>0, <1>4 DEF Signal, WidePort, serverVars
  <2> QED  BY <1>1, <2>1 DEF InHands
<1>5. CASE UNCHANGED vars
  BY <1>1, <1>5 DEF vars, InHands
<1> QED  BY <1>2, <1>3, <1>4, <1>5, Zenon DEF Next

LEMMA HashShutStep ==
  ASSUME MsgAssumption, Calm, Typed, NoClones, GateShut, HashShut, [Next]_vars
  PROVE  HashShut'
<1>0. /\ pc \in [Threads -> ClientPcs \cup ServerPcs] /\ port \in WidePort /\ Servers \subseteq Threads
      /\ got \in [Servers -> Sendable \cup Refs \cup {Null}]
  BY DEF Typed, ThreadsTyped, KernelTyped, ServerTyped, Threads
<1>1. ASSUME NEW c \in Clients, ClientCalls(c) \/ ClientRuns(c)
      PROVE  HashShut'
  <2>1. hash' = hash /\ got' = got /\ \A u \in Servers : pc'[u] = pc[u]
    BY <1>1, ClientAlone DEF OthersStay
  <2>2. port'.refs = port.refs
    BY <1>1, ClientsPort
  <2> QED  BY <2>1, <2>2 DEF HashShut
<1>2. ASSUME NEW s \in Servers,
             RecvFind(s) \/ ServerRuns(s) \/ ClosePort(s) \/ \E m \in held : ServerAnswers(s, m)
      PROVE  HashShut'
  <2>1. \A u \in Servers : u # s => pc'[u] = pc[u] /\ got'[u] = got[u]
    BY <1>2, ServerApart DEF ClientsLeft
  <2>2. \A u \in Servers : pc[s] \in ShuttingPcs /\ pc[u] \in ShuttingPcs => u = s
    BY DEF GateShut
  <2>3. CASE CloseHash(s)
    <3>1. pc[s] = "chash" /\ pc'[s] = "client" /\ hash' = hash \ {got[s]} /\ port' = port
      BY <1>0, <2>3 DEF CloseHash, Goto
    <3>2. \A u \in Servers : pc'[u] # "chash"
      BY <2>1, <2>2, <3>1 DEF ShuttingPcs
    <3> QED  BY <3>1, <3>2 DEF HashShut
  <2>4. ASSUME NEW r \in Refs, CloseClient(s, r)
        PROVE  HashShut'
    <3>1. CASE SlippedIn(port)
      <4>1. port' = port /\ hash' = hash /\ got' = got /\ pc' = [pc EXCEPT ![s] = "grab"]
        BY <2>4, <3>1, Zenon DEF CloseClient, Goto
      <4> QED  BY <1>0, <4>1 DEF HashShut
    <3>2. CASE ~SlippedIn(port)
      <4>1. r \in port.refs /\ port' = DerefPort(port, r) /\ got' = [got EXCEPT ![s] = r] /\ hash' = hash
            /\ pc[s] = "client"
        BY <2>4, <3>2, Zenon DEF CloseClient
      <4>2. port'.refs = port.refs \ {r}
        BY <1>0, <4>1 DEF DerefPort, WidePort
      <4>3. \A u \in Servers : u # s => pc'[u] # "chash"
        BY <2>1, <2>2, <4>1 DEF ShuttingPcs
      <4> QED  BY <1>0, <4>1, <4>2, <4>3 DEF HashShut
    <3> QED  BY <3>1, <3>2
  <2>5. ASSUME NEW m \in held, MsgErr(s, m)
        PROVE  FALSE
    <3>1. "refuse" \in Does /\ pc[s] = "out"
      BY <2>5 DEF MsgErr, Holds
    <3> QED  BY <3>1 DEF Calm, GateShut, ShuttingPcs
  <2>6. CASE \/ RecvBroken(s) /\ Broken(s, "find")
             \/ ReplyRuns(s) \/ DupWake(s) \/ DupHash(s)
             \/ Grab(s) \/ Bounce(s) \/ BounceEnd(s) \/ FreePort(s)
             \/ \E m \in held : \/ MsgAccept(s, m) \/ ReplyAbort(s, m) \/ ReplyRefused(s, m)
                                \/ \E a \in Answers : ReplyDone(s, m, a)
    <3>1. port' = port \/ port' = [port EXCEPT !.queue = << >>]
      <4>1. Broken(s, "find") => ~Broken(s, "rwait")
        BY DEF Broken
      <4> QED  BY <2>6, <4>1, ZenonT(60) DEF RecvBroken, ReplyRuns, DupWake, DupHash, Grab, Bounce, BounceEnd, FreePort,
             MsgAccept, ReplyAbort, ReplyRefused, ReplyDone
    <3>2. port'.refs = port.refs
      BY <1>0, <3>1 DEF WidePort
    <3>3. hash' = hash \/ hash' = hash \cup {got[s].new}
      BY <2>6, ZenonT(60) DEF RecvBroken, ReplyRuns, DupWake, DupHash, Grab, Bounce, BounceEnd, FreePort,
         MsgAccept, ReplyAbort, ReplyRefused, ReplyDone, serverVars
    <3>4. \/ \E l \in ServerPcs \ {"chash"} : Goto(s, l)
          \/ pc' = pc /\ got' = got
      BY <2>6, ZenonT(60) DEF RecvBroken, ReplyRuns, DupWake, DupHash, Grab, Bounce, BounceEnd, FreePort,
         MsgAccept, ReplyAbort, ReplyRefused, ReplyDone, serverVars, ServerPcs
    <3>5. \A u \in Servers : pc'[u] = "chash" => pc[u] = "chash" /\ got'[u] = got[u]
      BY <1>0, <2>1, <3>4 DEF Goto
    <3>6. hash \subseteq hash'
      BY <3>3
    <3> QED  BY <3>2, <3>5, <3>6 DEF HashShut
  <2> QED  BY <1>2, <2>3, <2>4, <2>5, <2>6, SettlingSteps, Zenon
<1>3. ASSUME NEW t \in Threads, Signal(t)
      PROVE  HashShut'
  <2>1. pc' = pc /\ got' = got /\ hash' = hash /\ port'.refs = port.refs
    BY <1>0, <1>3 DEF Signal, WidePort, serverVars
  <2> QED  BY <2>1 DEF HashShut
<1>4. CASE UNCHANGED vars
  BY <1>4 DEF vars, HashShut
<1> QED  BY <1>1, <1>2, <1>3, <1>4, Zenon DEF Next

\* Nobody has just received a CONNECT when the name is taken away.
LEMMA HashBegins ==
  ASSUME MsgAssumption, Inv, RefsKnown, [Next]_vars, ~port'.named
  PROVE  HashShut'
<1>0. pc \in [Threads -> ClientPcs \cup ServerPcs] /\ port \in WidePort /\ Servers \subseteq Threads
  BY DEF Inv, Typed, ThreadsTyped, KernelTyped, Threads
<1>1. port.named /\ \A u \in Servers : pc[u] \notin ShuttingPcs
  BY DEF Inv, Protocol, ServerStays
<1>2. PICK s \in Servers : CloseName(s)
  BY <1>1, NameTaken DEF Inv
<1>3. /\ pc[s] = "dport" /\ ~Queued(port.sema, s) /\ hash' = hash
      /\ port' = [port EXCEPT !.named = FALSE] /\ pc' = [pc EXCEPT ![s] = "grab"]
  BY <1>2, Zenon DEF CloseName, Awake, Goto, serverVars
<1>4. InHands = {}
  <2>1. s \in Receivers
    BY <1>3 DEF Receivers, Receives
  <2>2. Receivers = {s}
    BY <2>1, OneOwner DEF Inv, Protocol, PortOK
  <2> QED  BY <1>3, <2>2 DEF InHands, Receivers, Receives
<1>5. port'.refs = port.refs
  BY <1>0, <1>3 DEF WidePort
<1>6. \A u \in Servers : pc'[u] # "chash"
  BY <1>0, <1>1, <1>3 DEF ShuttingPcs
<1> QED  BY <1>3, <1>4, <1>5, <1>6 DEF RefsKnown, HashShut

\* Whether it has its name or not.
HashOK == /\ ClosingOK
          /\ port.named => RefsKnown
          /\ ~port.named => HashShut

LEMMA HashStep ==
  ASSUME MsgAssumption, Polite, Calm, "clone" \notin Does, IsFiniteSet(Slots), HashOK, [Next]_vars
  PROVE  HashOK'
<1>1. ClosingOK'
  BY ClosingStep DEF HashOK
<1>2. CASE port'.named
  <2>1. port.named
    BY <1>2, NameTaken DEF HashOK, ClosingOK
  <2>2. RefsKnown'
    BY <1>2, <2>1, RefsKnownStep DEF HashOK, ClosingOK
  <2> QED  BY <1>1, <1>2, <2>2 DEF HashOK
<1>3. CASE ~port'.named
  <2>1. HashShut'
    <3>1. CASE port.named
      BY <1>3, <3>1, HashBegins DEF HashOK, ClosingOK
    <3>2. CASE ~port.named
      BY <3>2, HashShutStep DEF HashOK, ClosingOK
    <3> QED  BY <3>1, <3>2
  <2> QED  BY <1>1, <1>3, <2>1 DEF HashOK
<1> QED  BY <1>2, <1>3

LEMMA HashInvariance ==
  ASSUME IsFiniteSet(Slots), Polite, Calm, "clone" \notin Does
  PROVE  Spec => []HashOK
<1>1. Init => HashOK
  <2>1. Init => RefsKnown /\ port.named
    BY DEF Init, RefsKnown, InHands, Threads
  <2> QED  BY <2>1, MsgAssumption, ClosingInit DEF HashOK
<1>2. HashOK /\ [Next]_vars => HashOK'
  BY MsgAssumption, HashStep
<1> QED  BY <1>1, <1>2, PTL DEF Spec

\* The ASSERT of shut_server() on hash_delete() holds: whichever clients have
\* come and gone by then, the one that is cut off is known to the hash, as long
\* as no other thread refuses a connection while the port is taken down.
THEOREM CutOffAreHashed ==
  ASSUME IsFiniteSet(Slots), Polite, Calm, "clone" \notin Does
  PROVE  Spec => []StillHashed
<1>1. ASSUME NEW s \in Servers, HashOK, pc[s] = "chash"
      PROVE  got[s] \in hash
  BY <1>1 DEF HashOK, ClosingOK, HashShut, Inv, Protocol, ServerStays, ShuttingPcs
<1>2. HashOK => StillHashed
  BY <1>1 DEF StillHashed
<1> QED  BY <1>2, HashInvariance, PTL

\* Up to the end every handle in service that has its port is on the port's
\* list and in the hash, if nobody asks for a clone: shut_server() cuts a
\* handle off before it drops it from the hash.
THEOREM RegisteredToTheEnd ==
  ASSUME IsFiniteSet(Slots), Polite, Calm, "clone" \notin Does
  PROVE  Spec => []Registered
<1>1. HashOK => Registered
  <2>1. ASSUME HashOK, port.named
        PROVE  Registered
    BY <2>1 DEF HashOK, ClosingOK, ListsOK, Registered, Hashed
  <2>2. ASSUME HashOK, ~port.named
        PROVE  Registered
    BY <2>2 DEF HashOK, ClosingOK, HandlesShut, Listed, HashShut, Registered
  <2> QED  BY <2>1, <2>2
<1> QED  BY <1>1, HashInvariance, PTL

-----------------------------------------------------------------------------
(* The promises a port keeps for as long as it has its name.               *)

KeptPromises == /\ FramesLive /\ IowaitDrained /\ WokenMeansAnswered /\ SegStable
                /\ HandleExclusive /\ Registered

\* A server that may close its port keeps all these promises until he does,
\* which is when shut_server() takes the name off it.
THEOREM KeptUntilClosed ==
  ASSUME Polite
  PROVE  Spec => [](port.named => KeptPromises)
<1> DEFINE Kept == Typed /\ (port.named => Inv)
           Lists0 == port.named => ListsOK
<1>1. Init => Lists0
  BY MsgAssumption, ListsInit
<1>2. Kept /\ Kept' /\ Lists0 /\ [Next]_vars => Lists0'
  BY MsgAssumption, NameTaken, ListsStep
<1>3. Kept /\ Lists0 => (port.named => KeptPromises)
  BY MsgAssumption, InvMeans DEF KeptPromises, HandleExclusive, ListsOK, Registered, Hashed
<1> QED  BY <1>1, <1>2, <1>3, NamedInvariance, PTL DEF Spec

\* What AnsweredOnce of Msg says of a step, if the port has its name before it.
WritesOnce == port.named =>
  \A c \in Clients : rep'[c] \notin {"none", rep[c]} =>
    rep[c] = "none" /\ pc[c] \in {"opening", "iowait", "kwait"}

\* ... and until then an answer is written once, into a call that waits.
THEOREM AnswersOnceUntilClosed ==
  ASSUME Polite
  PROVE  Spec => [][WritesOnce]_vars
<1> DEFINE Kept == Typed /\ (port.named => Inv)
<1>1. Kept /\ [Next]_vars => [WritesOnce]_vars
  <2> SUFFICES ASSUME Kept, [Next]_vars, port.named
               PROVE  WritesOnce
    BY DEF WritesOnce
  <2>1. CASE port'.named
    BY <2>1, MsgAssumption, RepStep DEF WritesOnce
  <2>2. CASE ~port'.named
    <3>1. PICK s \in Servers : CloseName(s)
      BY <2>2, MsgAssumption, NameTaken
    <3>2. rep' = rep
      BY <3>1 DEF CloseName
    <3> QED  BY <3>2 DEF WritesOnce
  <2> QED  BY <2>1, <2>2
<1>2. Spec => []Kept
  BY NamedInvariance
<1> QED  BY <1>1, <1>2, PTL DEF Spec

=============================================================================
