----------------------------- MODULE Msg_proofs -----------------------------
(***************************************************************************)
(* Message passing, for any number of clients, servers, handles and slots. *)
(* Whatever the processes do: the types, the units of p_wait, and the      *)
(* references of the handles. As long as the server keeps its port open    *)
(* and no busy handle is closed: the protocol of msg_send(),               *)
(* msg_receive(), msg_accept(), msg_err() and msg_reply(), that is, who    *)
(* has a handle, what its state and its semaphores are while a call is     *)
(* under way on it, and where the call's message is.                       *)
(***************************************************************************)
EXTENDS Msg, SemaOps_proofs, FiniteSetTheorems, TLAPS

-----------------------------------------------------------------------------
(* Types.                                                                  *)

\* Messages as they are sent: a DUP announces a portref.
Sendable == {m \in Messages : m.op = "DUP" => m.new \in Refs}

\* A portref whose references nobody has counted yet.
WideRef ==
  [alloc : BOOLEAN, state : States, port : BOOLEAN, refs : Int,
   msg : Sendable \cup {Null}, sema : SemaType(Clients),
   iowait : SemaType(Clients), svwait : SemaType(Servers)]

WidePort ==
  [named : BOOLEAN, inproc : BOOLEAN, queue : Seq(Sendable),
   wait : SemaType(Servers), sema : SemaType(Servers), refs : SUBSET Refs]

Local == [slot : Slots \cup {Null}, pr : Refs \cup {Null}, new : Refs \cup {Null},
          kind : Kinds, nseg : BOOLEAN]

ThreadsTyped ==
  /\ pc \in [Threads -> ClientPcs \cup ServerPcs]
  /\ \A c \in Clients : pc[c] \in ClientPcs
  /\ \A s \in Servers : pc[s] \in ServerPcs
  /\ intr \in [Threads -> BOOLEAN]
  /\ my \in [Clients -> Local]
  /\ rep \in [Clients -> {"none", "ok", "segs", "err"}]

ServerTyped ==
  /\ got \in [Servers -> Sendable \cup Refs \cup {Null}]
  /\ hash \subseteq Refs
  /\ held \subseteq Sendable
  /\ doomed \in Seq(Sendable)

KernelTyped ==
  /\ ref \in [Refs -> WideRef]
  /\ port \in WidePort
  /\ slots \in [Slots -> Refs \cup {Null, Reserved}]

\* A thread in a call has the locals that the call uses.
LocalsSet ==
  /\ \A c \in Clients :
       /\ pc[c] # "out" => R(c) \in Refs
       /\ pc[c] = "kwait" => my[c].new \in Refs
       /\ pc[c] \in {"opening", "cfind", "kwait"} => my[c].slot \in Slots
  /\ \A s \in Servers :
       /\ pc[s] \in {"rcvd", "dupwake", "duphash"} => got[s] \in Sendable
       /\ pc[s] \in {"dupwake", "duphash"} => got[s].new \in Refs
       /\ pc[s] = "chash" => got[s] \in Refs

Typed == /\ ThreadsTyped /\ ServerTyped /\ KernelTyped /\ LocalsSet
         /\ nsig \in 0..MaxSig /\ panic \in BOOLEAN

\* v_sema() and set_sema() return semaphores, ...
LEMMA GiveTyped ==
  ASSUME NEW T, NEW s \in SemaType(T)
  PROVE  VSema(s) \in SemaType(T) /\ \A n \in Int : SetSema(s, n) \in SemaType(T)
BY DEF SemaType, VSema, SetSema

\* ... and so do the others.
LEMMA SemaTyped ==
  ASSUME NEW T, NEW s \in SemaType(T), NEW t \in T
  PROVE  /\ PSema(s, t) \in SemaType(T)
         /\ Queued(s, t) => Cunsleep(s, t) \in SemaType(T)
         /\ \A n \in Int : AdjSema(s, n) \in SemaType(T)
<1>1. PSema(s, t) \in SemaType(T)
  BY DEF SemaType, PSema
<1>2. ASSUME Queued(s, t)
      PROVE  Cunsleep(s, t) \in SemaType(T)
  <2>1. PICK k \in 1..Len(s.q) : k = Position(s, t) /\ s.q[k] = t
    BY <1>2 DEF Position, Queued, Contains
  <2>2. s.q \in Seq(T) /\ s.cnt \in Int
    BY DEF SemaType
  <2>3. RemoveAt(s.q, k) \in Seq(T)
    BY <2>2, RemoveAtIs
  <2> QED  BY <2>1, <2>2, <2>3 DEF Cunsleep, SemaType
<1>3. \A n \in Int : AdjSema(s, n) \in SemaType(T)
  BY DEF SemaType, AdjSema
<1> QED  BY <1>1, <1>2, <1>3

\* So do the first ones.
LEMMA NewTyped ==
  ASSUME NEW T, NEW n \in Int
  PROVE  NewSema(n) \in SemaType(T)
BY DEF NewSema, SemaType

\* A new portref, a freed one, and one that msg_send() is done with.
LEMMA RefsTyped ==
  /\ FreeRef \in WideRef
  /\ \A st \in States : NewRef(st) \in WideRef
  /\ \A x \in WideRef, n \in BOOLEAN : Out(x, n) \in WideRef
  /\ \A x \in WideRef : TakeBack(x) \in WideRef /\ CutOff(x) \in WideRef
<1>1. FreeRef \in WideRef /\ \A st \in States : NewRef(st) \in WideRef
  BY NewTyped DEF FreeRef, NewRef, WideRef, States
<1>2. ASSUME NEW x \in WideRef, NEW n \in BOOLEAN
      PROVE  Out(x, n) \in WideRef
  <2>1. VSema(x.svwait) \in SemaType(Servers) /\ VSema(x.sema) \in SemaType(Clients)
    BY GiveTyped DEF WideRef
  <2> QED  BY <2>1 DEF Out, WideRef
<1>3. ASSUME NEW x \in WideRef
      PROVE  TakeBack(x) \in WideRef /\ CutOff(x) \in WideRef
  <2>1. /\ VSema(x.svwait) \in SemaType(Servers) /\ VSema(x.iowait) \in SemaType(Clients)
        /\ SetSema(x.iowait, 0) \in SemaType(Clients)
    BY GiveTyped DEF WideRef
  <2> QED  BY <2>1 DEF TakeBack, CutOff, WideRef
<1> QED  BY <1>1, <1>2, <1>3

\* What a client sends.
LEMMA SentTyped ==
  ASSUME NEW c \in Clients, NEW r \in Refs, NEW n \in Refs, NEW b \in BOOLEAN
  PROVE  /\ Message("CONNECT", c, r, Null, FALSE) \in Sendable
         /\ Message("IO", c, r, Null, b) \in Sendable
         /\ Message("ABORT", c, r, Null, FALSE) \in Sendable
         /\ Message("DISCONNECT", c, r, Null, FALSE) \in Sendable
         /\ Message("DUP", c, r, n, FALSE) \in Sendable
BY DEF Message, Sendable, Messages, Ops

\* inline_lqueue_msg() leaves a port.
LEMMA EnqueueTyped ==
  ASSUME NEW p \in WidePort, NEW m \in Sendable
  PROVE  Enqueue(p, m) \in WidePort
<1>1. VSema(p.wait) \in SemaType(Servers) /\ Append(p.queue, m) \in Seq(Sendable)
  BY GiveTyped DEF WidePort
<1> QED  BY <1>1 DEF Enqueue, WidePort

\* A client goes to l with its locals as in y, and changes what else it may.
LEMMA ClientTyped ==
  ASSUME MsgAssumption, Typed, NEW c \in Clients, NEW l \in ClientPcs, NEW y \in Local,
         pc' = [pc EXCEPT ![c] = l], my' = [my EXCEPT ![c] = y],
         rep' = rep \/ rep' = [rep EXCEPT ![c] = "none"],
         intr' \in [Threads -> BOOLEAN],
         l # "out" => y.pr \in Refs,
         l = "kwait" => y.new \in Refs,
         l \in {"opening", "cfind", "kwait"} => y.slot \in Slots,
         KernelTyped', UNCHANGED serverVars, UNCHANGED nsig, panic' \in BOOLEAN
  PROVE  Typed'
<1>1. pc \in [Threads -> ClientPcs \cup ServerPcs] /\ my \in [Clients -> Local]
  BY DEF Typed, ThreadsTyped
<1>2. \A s \in Servers : s # c
  BY DEF MsgAssumption
<1>3. ThreadsTyped'
  <2>1. rep' \in [Clients -> {"none", "ok", "segs", "err"}]
    BY DEF Typed, ThreadsTyped
  <2> QED  BY <1>1, <1>2, <2>1 DEF Typed, ThreadsTyped, Threads
<1>4. ServerTyped'
  BY DEF Typed, ServerTyped, serverVars
<1>5. LocalsSet'
  BY <1>1, <1>2 DEF Typed, LocalsSet, Threads, R, serverVars
<1> QED  BY <1>3, <1>4, <1>5 DEF Typed

\* The same, when the call returns ...
LEMMA ReturnTyped ==
  ASSUME MsgAssumption, Typed, NEW c \in Clients, Return(c),
         intr' = intr \/ NoEvent(c),
         KernelTyped', UNCHANGED serverVars, UNCHANGED nsig, panic' \in BOOLEAN
  PROVE  Typed'
<1>1. NoCall \in Local /\ "out" \in ClientPcs
  BY DEF NoCall, Local, Kinds, ClientPcs
<1>2. intr' \in [Threads -> BOOLEAN]
  BY DEF NoEvent, Typed, ThreadsTyped
<1> QED  BY <1>1, <1>2, ClientTyped DEF Return, Goto

\* ... and when it goes on with the locals it has.
LEMMA GoOnTyped ==
  ASSUME MsgAssumption, Typed, NEW c \in Clients, NEW l, l \in ClientPcs \ {"out", "opening", "cfind", "kwait"},
         pc[c] # "out", Goto(c, l), my' = my, rep' = rep,
         intr' = intr \/ NoEvent(c),
         KernelTyped', UNCHANGED serverVars, UNCHANGED nsig, panic' = panic
  PROVE  Typed'
<1>1. my[c] \in Local /\ my' = [my EXCEPT ![c] = my[c]] /\ my[c].pr \in Refs
  BY DEF Typed, ThreadsTyped, LocalsSet, R
<1>2. intr' \in [Threads -> BOOLEAN]
  BY DEF NoEvent, Typed, ThreadsTyped
<1> QED  BY <1>1, <1>2, ClientTyped DEF Goto, Typed

\* Calls that begin.
LEMMA CallsTyped ==
  ASSUME MsgAssumption, Typed, NEW c \in Clients, ClientCalls(c)
  PROVE  Typed'
<1>0. /\ ref \in [Refs -> WideRef] /\ port \in WidePort /\ slots \in [Slots -> Refs \cup {Null, Reserved}]
      /\ NoCall \in Local /\ intr \in [Threads -> BOOLEAN] /\ panic \in BOOLEAN
  BY DEF Typed, KernelTyped, ThreadsTyped, NoCall, Local, Kinds
<1>1. ASSUME NEW k \in Slots, NEW r \in Refs, MsgConnect(c, k, r)
      PROVE  Typed'
  <2>1. PICK x : x = [NewRef("OPENING") EXCEPT !.iowait = PSema(@, c)]
    OBVIOUS
  <2>2. x \in WideRef
    <3>1. NewRef("OPENING") \in WideRef
      BY RefsTyped DEF States
    <3>2. PSema(NewRef("OPENING").iowait, c) \in SemaType(Clients)
      BY <3>1, SemaTyped DEF WideRef
    <3> QED  BY <2>1, <3>1, <3>2 DEF WideRef
  <2>3. PICK y : y = [NoCall EXCEPT !.slot = k, !.pr = r]
    OBVIOUS
  <2>4. y \in Local /\ y.slot = k /\ y.pr = r
    BY <1>0, <2>3 DEF Local, NoCall
  <2>5. port' \in WidePort
    BY <1>0, <1>1, EnqueueTyped, SentTyped DEF MsgConnect
  <2>6. KernelTyped'
    BY <1>0, <1>1, <2>1, <2>2, <2>5 DEF MsgConnect, KernelTyped
  <2> QED  BY <1>0, <1>1, <2>3, <2>4, <2>6, ClientTyped DEF MsgConnect, Goto, ClientPcs
<1>2. ASSUME NEW k \in Slots, NEW kd \in Kinds, SendFind(c, k, kd)
      PROVE  Typed'
  <2>1. PICK y : y = [NoCall EXCEPT !.slot = k, !.pr = slots[k], !.kind = kd, !.nseg = kd # "send"]
    OBVIOUS
  <2>2. slots[k] \in Refs
    BY <1>2 DEF SendFind, InService
  <2>3. y \in Local /\ y.slot = k /\ y.pr = slots[k]
    BY <1>0, <2>1, <2>2 DEF Local, NoCall
  <2>4. PSema(ref[slots[k]].sema, c) \in SemaType(Clients)
    BY <1>0, <2>2, SemaTyped DEF WideRef
  <2>5. KernelTyped'
    BY <1>0, <1>2, <2>2, <2>4 DEF SendFind, KernelTyped, WideRef
  <2> QED  BY <1>0, <1>2, <2>1, <2>2, <2>3, <2>5, ClientTyped DEF SendFind, Goto, ClientPcs
<1>3. ASSUME NEW k \in Slots, NEW j \in Slots, CloneFind(c, k, j)
      PROVE  Typed'
  <2>1. PICK y : y = [NoCall EXCEPT !.slot = j, !.pr = slots[k]]
    OBVIOUS
  <2>2. slots[k] \in Refs
    BY <1>3 DEF CloneFind, InService
  <2>3. y \in Local /\ y.slot = j /\ y.pr = slots[k]
    BY <1>0, <2>1, <2>2 DEF Local, NoCall
  <2>4. PSema(ref[slots[k]].sema, c) \in SemaType(Clients)
    BY <1>0, <2>2, SemaTyped DEF WideRef
  <2>5. KernelTyped'
    BY <1>0, <1>3, <2>2, <2>4 DEF CloneFind, KernelTyped, WideRef
  <2> QED  BY <1>0, <1>3, <2>1, <2>2, <2>3, <2>5, ClientTyped DEF CloneFind, Goto, ClientPcs
<1>4. ASSUME NEW k \in Slots, NEW j \in Slots, ForkPort(c, k, j)
      PROVE  Typed'
  <2>1. slots[k] \in Refs
    BY <1>4 DEF ForkPort, InService
  <2>2. KernelTyped'
    BY <1>0, <1>4, <2>1 DEF ForkPort, KernelTyped, WideRef
  <2> QED  BY <1>4, <2>2 DEF ForkPort, Typed, ThreadsTyped, ServerTyped, LocalsSet, serverVars, R
<1>5. ASSUME NEW k \in Slots, MsgDisconnect(c, k)
      PROVE  Typed'
  <2>1. slots[k] \in Refs
    BY <1>5 DEF MsgDisconnect, InService
  <2>2. KernelTyped'
    BY <1>0, <1>5, <2>1 DEF MsgDisconnect, KernelTyped, WideRef, DeletePortref
  <2>3. CASE LastRef(slots[k])
    <3>1. PICK y : y = [NoCall EXCEPT !.pr = slots[k]]
      OBVIOUS
    <3>2. y \in Local /\ y.pr = slots[k]
      BY <1>0, <2>1, <3>1 DEF Local, NoCall
    <3> QED  BY <1>0, <1>5, <2>1, <2>2, <2>3, <3>1, <3>2, ClientTyped DEF MsgDisconnect, Goto, ClientPcs
  <2>4. CASE ~LastRef(slots[k])
    BY <1>5, <2>2, <2>4 DEF MsgDisconnect, Typed, ThreadsTyped, ServerTyped, LocalsSet, serverVars, R
  <2> QED  BY <2>3, <2>4
<1> QED  BY <1>1, <1>2, <1>3, <1>4, <1>5 DEF ClientCalls

\* Calls that go on.
LEMMA RunsTyped ==
  ASSUME MsgAssumption, Typed, NEW c \in Clients, ClientRuns(c)
  PROVE  Typed'
<1>0. /\ ref \in [Refs -> WideRef] /\ port \in WidePort /\ slots \in [Slots -> Refs \cup {Null, Reserved}]
      /\ my[c] \in Local /\ intr \in [Threads -> BOOLEAN] /\ panic \in BOOLEAN
      /\ pc[c] # "out" => R(c) \in Refs /\ X(c) \in WideRef
      /\ pc[c] \in {"opening", "cfind", "kwait"} => my[c].slot \in Slots
      /\ pc[c] = "kwait" => my[c].new \in Refs
  BY DEF Typed, KernelTyped, ThreadsTyped, LocalsSet, R, X
<1>r. PICK r, x : r = R(c) /\ x = X(c) /\ r = my[c].pr /\ x = ref[r]
  BY DEF R, X
<1>1. CASE MsgConnectDone(c)
  <2>1. pc[c] = "opening"
    BY <1>1 DEF MsgConnectDone, Awake
  <2>2. KernelTyped'
    BY <1>0, <1>1, <2>1, RefsTyped DEF MsgConnectDone, KernelTyped
  <2> QED  BY <1>1, <2>2, ReturnTyped DEF MsgConnectDone, Typed
<1>2. CASE SendPost(c)
  <2>1. pc[c] = "find" /\ (my[c].kind = "write") \in BOOLEAN
    BY <1>2 DEF SendPost, Awake
  <2>2. /\ PSema(X(c).iowait, c) \in SemaType(Clients) /\ VSema(X(c).sema) \in SemaType(Clients)
        /\ Enqueue(port, Message("IO", c, R(c), Null, my[c].kind = "write")) \in WidePort
    BY <1>0, <2>1, SemaTyped, GiveTyped, EnqueueTyped, SentTyped DEF WideRef
  <2>3. KernelTyped'
    <3>1. \/ ref' = [ref EXCEPT ![r] = [x EXCEPT !.state = "IOWAIT", !.iowait = PSema(x.iowait, c)]]
          \/ ref' = [ref EXCEPT ![r] = [x EXCEPT !.sema = VSema(x.sema)]]
      BY <1>2, <1>r DEF SendPost
    <3>2. r \in Refs /\ x \in WideRef /\ PSema(x.iowait, c) \in SemaType(Clients) /\ VSema(x.sema) \in SemaType(Clients)
      BY <1>0, <1>r, <2>1, <2>2
    <3>3. /\ [x EXCEPT !.state = "IOWAIT", !.iowait = PSema(x.iowait, c)] \in WideRef
          /\ [x EXCEPT !.sema = VSema(x.sema)] \in WideRef
      BY <3>2 DEF WideRef, States
    <3>4. ref' \in [Refs -> WideRef]
      BY <1>0, <3>1, <3>2, <3>3
    <3> QED  BY <1>0, <1>2, <2>2, <3>4 DEF SendPost, KernelTyped
  <2>4. CASE X(c).port
    BY <1>2, <2>1, <2>3, <2>4, GoOnTyped DEF SendPost, ClientPcs
  <2>5. CASE ~X(c).port
    BY <1>2, <2>1, <2>3, <2>5, ReturnTyped DEF SendPost, Typed
  <2> QED  BY <2>4, <2>5
<1>3. CASE SendDone(c) \/ CopyDone(c) \/ MapFails(c) \/ AbortDone(c)
  <2>1. pc[c] # "out"
    BY <1>3 DEF SendDone, CopyDone, MapFails, AbortDone, Awake
  <2>2. my[c].nseg \in BOOLEAN /\ TRUE \in BOOLEAN
    BY <1>0 DEF Local
  <2>3. KernelTyped'
    <3>1. \E n \in BOOLEAN : ref' = [ref EXCEPT ![r] = Out(x, n)]
      BY <1>3, <1>r, <2>2 DEF SendDone, CopyDone, MapFails, AbortDone
    <3> QED  BY <1>0, <1>3, <1>r, <2>1, <3>1, RefsTyped DEF SendDone, CopyDone, MapFails, AbortDone, KernelTyped
  <2> QED  BY <1>3, <2>3, ReturnTyped DEF SendDone, CopyDone, MapFails, AbortDone, Typed
<1>4. CASE SendMap(c)
  <2>1. pc[c] # "out"
    BY <1>4 DEF SendMap, Awake
  <2>2. KernelTyped'
    BY <1>0, <1>4 DEF SendMap, KernelTyped
  <2> QED  BY <1>4, <2>1, <2>2, GoOnTyped DEF SendMap, ClientPcs
<1>5. CASE IntrGone(c) \/ IntrWithdraw(c) \/ IntrDone(c)
  <2>1. pc[c] # "out"
    BY <1>5 DEF IntrGone, IntrWithdraw, IntrDone, Interrupted, Broken
  <2>2. my[c].nseg \in BOOLEAN
    BY <1>0 DEF Local
  <2>3. [X(c) EXCEPT !.state = "IODONE"] \in WideRef /\ TakeBack(X(c)) \in WideRef
    BY <1>0, <2>1, RefsTyped DEF WideRef, States
  <2>4. port' \in WidePort
    <3>1. ASSUME IntrWithdraw(c)
          PROVE  port' \in WidePort
      <4>1. PlaceOf(c) \in 1..Len(port.queue)
        BY <3>1 DEF IntrWithdraw, InQueue, PlaceOf
      <4>2. RemoveAt(port.queue, PlaceOf(c)) \in Seq(Sendable)
        BY <1>0, <4>1, RemoveAtIs DEF WidePort
      <4>3. AdjSema(port.wait, -1) \in SemaType(Servers)
        <5>1. port.wait \in SemaType(Servers) /\ -1 \in Int
          BY <1>0 DEF WidePort
        <5> QED  BY <5>1 DEF SemaType, AdjSema
      <4> QED  BY <1>0, <3>1, <4>2, <4>3 DEF IntrWithdraw, WidePort
    <3> QED  BY <1>0, <1>5, <3>1 DEF IntrGone, IntrDone
  <2>5. KernelTyped'
    <3>1. \E z \in WideRef, n \in BOOLEAN : ref' = [ref EXCEPT ![r] = Out(z, n)]
      BY <1>5, <1>r, <2>2, <2>3 DEF IntrGone, IntrWithdraw, IntrDone
    <3> QED  BY <1>0, <1>5, <1>r, <2>1, <2>4, <3>1, RefsTyped DEF IntrGone, IntrWithdraw, IntrDone, KernelTyped
  <2>6. panic' \in BOOLEAN
    BY <1>0, <1>5 DEF IntrGone, IntrWithdraw, IntrDone
  <2> QED  BY <1>5, <2>5, <2>6, ReturnTyped DEF IntrGone, IntrWithdraw, IntrDone
<1>6. CASE IntrAbort(c)
  <2>1. pc[c] # "out"
    BY <1>6 DEF IntrAbort, Interrupted, Broken
  <2>2. /\ PSema(X(c).iowait, c) \in SemaType(Clients)
        /\ Enqueue(port, Message("ABORT", c, R(c), Null, FALSE)) \in WidePort
    BY <1>0, <2>1, SemaTyped, EnqueueTyped, SentTyped DEF WideRef
  <2>3. KernelTyped'
    <3>1. ref' = [ref EXCEPT ![r] = [x EXCEPT !.state = "ABWAIT", !.iowait = PSema(x.iowait, c)]]
      BY <1>6, <1>r DEF IntrAbort
    <3>2. r \in Refs /\ x \in WideRef /\ PSema(x.iowait, c) \in SemaType(Clients)
      BY <1>0, <1>r, <2>1, <2>2
    <3>3. ref' \in [Refs -> WideRef]
      BY <1>0, <3>1, <3>2 DEF WideRef, States
    <3> QED  BY <1>0, <1>6, <2>2, <3>3 DEF IntrAbort, KernelTyped
  <2> QED  BY <1>6, <2>1, <2>3, GoOnTyped DEF IntrAbort, ClientPcs
<1>7. CASE FindBroken(c)
  <2>1. KernelTyped'
    BY <1>0, <1>7 DEF FindBroken, Broken, KernelTyped
  <2> QED  BY <1>7, <2>1, ReturnTyped DEF FindBroken, Typed
<1>8. ASSUME NEW n \in Refs, ClonePost(c, n)
      PROVE  Typed'
  <2>1. pc[c] = "cfind" /\ DupRef \in WideRef
    BY <1>8, RefsTyped DEF ClonePost, Awake, DupRef, States
  <2>2. /\ PSema(X(c).iowait, c) \in SemaType(Clients) /\ VSema(X(c).sema) \in SemaType(Clients)
        /\ Enqueue(port, DupMessage(c, n)) \in WidePort
        /\ PSema(DupRef.iowait, c) \in SemaType(Clients)
    BY <1>0, <2>1, SemaTyped, GiveTyped, EnqueueTyped, SentTyped DEF WideRef, DupMessage
  <2>3. KernelTyped'
    <3>1. \/ ref' = [ref EXCEPT ![n] = DupRef, ![r].state = "IOWAIT", ![r].iowait = PSema(@, c)]
          \/ ref' = [ref EXCEPT ![r] = [x EXCEPT !.sema = VSema(x.sema)]]
      BY <1>8, <1>r DEF ClonePost
    <3>2. r \in Refs /\ x \in WideRef /\ PSema(x.iowait, c) \in SemaType(Clients) /\ VSema(x.sema) \in SemaType(Clients)
      BY <1>0, <1>r, <2>1, <2>2
    <3>3. ref' \in [Refs -> WideRef]
      BY <1>0, <1>r, <2>1, <2>2, <3>1, <3>2 DEF WideRef, States
    <3>4. slots' \in [Slots -> Refs \cup {Null, Reserved}] /\ port' \in WidePort
      BY <1>0, <1>8, <2>2 DEF ClonePost
    <3> QED  BY <3>3, <3>4 DEF KernelTyped
  <2>4. CASE X(c).port
    <3>1. PICK y : y = [my[c] EXCEPT !.new = n]
      OBVIOUS
    <3>2. y \in Local /\ y.pr \in Refs /\ y.new = n /\ y.slot \in Slots
      BY <1>0, <2>1, <3>1 DEF Local, R
    <3>3. my' = [my EXCEPT ![c] = y] /\ pc' = [pc EXCEPT ![c] = "kwait"]
      BY <1>8, <2>4, <3>1 DEF ClonePost, Goto
    <3> QED  BY <1>0, <1>8, <2>3, <2>4, <3>2, <3>3, ClientTyped DEF ClonePost, ClientPcs, Typed
  <2>5. CASE ~X(c).port
    BY <1>8, <2>3, <2>5, ReturnTyped DEF ClonePost, Typed
  <2> QED  BY <2>4, <2>5
<1>9. CASE CloneDone(c)
  <2>1. pc[c] = "kwait"
    BY <1>9 DEF CloneDone, Awake
  <2>2. Out(X(c), TRUE) \in WideRef /\ FreeRef \in WideRef
    BY <1>0, <2>1, RefsTyped
  <2>3. KernelTyped'
    <3>1. r \in Refs /\ my[c].new \in Refs /\ my[c].slot \in Slots /\ Out(x, TRUE) \in WideRef
      BY <1>0, <1>r, <2>1, <2>2
    <3>2. PICK n \in Refs : n = my[c].new
      BY <3>1
    <3>3. slots' \in [Slots -> Refs \cup {Null, Reserved}] /\ port' \in WidePort
      BY <1>0, <1>9, <3>1, <3>2 DEF CloneDone
    <3>4. \/ ref' = [ref EXCEPT ![r] = Out(x, TRUE), ![n] = FreeRef]
          \/ ref' = [ref EXCEPT ![r] = Out(x, TRUE), ![n] = @]
      BY <1>9, <1>r, <3>2 DEF CloneDone
    <3>5. ref' \in [Refs -> WideRef]
      BY <1>0, <2>2, <3>1, <3>2, <3>4
    <3> QED  BY <3>3, <3>5 DEF KernelTyped
  <2> QED  BY <1>9, <2>3, ReturnTyped DEF CloneDone, Typed
<1>10. CASE ShutClient(c)
  <2>1. pc[c] = "shut"
    BY <1>10 DEF ShutClient
  <2>2. /\ PSema(X(c).sema, c) \in SemaType(Clients) /\ FreeRef \in WideRef
        /\ Enqueue(port, Message("DISCONNECT", c, R(c), Null, FALSE)) \in WidePort
    BY <1>0, <2>1, SemaTyped, RefsTyped, EnqueueTyped, SentTyped DEF WideRef
  <2>3. KernelTyped'
    <3>1. \/ ref' = [ref EXCEPT ![r] = [x EXCEPT !.state = "CLOSING", !.sema = PSema(x.sema, c)]]
          \/ ref' = [ref EXCEPT ![r] = FreeRef]
      BY <1>10, <1>r, ZenonT(40) DEF ShutClient
    <3>2. r \in Refs /\ x \in WideRef /\ PSema(x.sema, c) \in SemaType(Clients)
      BY <1>0, <1>r, <2>1, <2>2
    <3>3. [x EXCEPT !.state = "CLOSING", !.sema = PSema(x.sema, c)] \in WideRef
      BY <3>2 DEF WideRef, States
    <3>4. ref' \in [Refs -> WideRef]
      BY <1>0, <2>2, <3>1, <3>2, <3>3
    <3> QED  BY <1>0, <1>10, <2>2, <3>4 DEF ShutClient, KernelTyped
  <2>4. CASE X(c).port
    BY <1>10, <2>1, <2>3, <2>4, GoOnTyped DEF ShutClient, ClientPcs
  <2>5. CASE ~X(c).port
    BY <1>10, <2>3, <2>5, ReturnTyped DEF ShutClient, Typed
  <2> QED  BY <2>4, <2>5
<1>11. CASE ShutDone(c)
  BY <1>11, ReturnTyped DEF ShutDone, Typed, KernelTyped
<1> QED  BY <1>1, <1>2, <1>3, <1>4, <1>5, <1>6, <1>7, <1>8, <1>9, <1>10, <1>11 DEF ClientRuns
-----------------------------------------------------------------------------
(* The server's calls.                                                     *)

\* A server goes to l and works on g.
LEMMA ServerGoesTyped ==
  ASSUME MsgAssumption, Typed, NEW s \in Servers, NEW l \in ServerPcs,
         NEW g \in Sendable \cup Refs \cup {Null},
         pc' = [pc EXCEPT ![s] = l], got' = [got EXCEPT ![s] = g],
         l \in {"rcvd", "dupwake", "duphash"} => g \in Sendable,
         l \in {"dupwake", "duphash"} => g.new \in Refs,
         l = "chash" => g \in Refs,
         my' = my \/ (\E d \in Clients, n \in BOOLEAN : my' = [my EXCEPT ![d].nseg = n]),
         rep' \in [Clients -> {"none", "ok", "segs", "err"}],
         intr' \in [Threads -> BOOLEAN],
         KernelTyped', hash' \subseteq Refs, held' \subseteq Sendable, doomed' \in Seq(Sendable),
         UNCHANGED nsig, panic' \in BOOLEAN
  PROVE  Typed'
<1>1. pc \in [Threads -> ClientPcs \cup ServerPcs] /\ my \in [Clients -> Local]
      /\ got \in [Servers -> Sendable \cup Refs \cup {Null}]
  BY DEF Typed, ThreadsTyped, ServerTyped
<1>2. \A c \in Clients : s # c
  BY DEF MsgAssumption
<1>3. my' \in [Clients -> Local]
      /\ \A c \in Clients : my'[c].pr = my[c].pr /\ my'[c].new = my[c].new /\ my'[c].slot = my[c].slot
  <2>1. CASE my' = my
    BY <1>1, <2>1
  <2>2. ASSUME NEW d \in Clients, NEW n \in BOOLEAN, my' = [my EXCEPT ![d].nseg = n]
        PROVE  my' \in [Clients -> Local]
               /\ \A c \in Clients : my'[c].pr = my[c].pr /\ my'[c].new = my[c].new
                                    /\ my'[c].slot = my[c].slot
    <3>1. [my[d] EXCEPT !.nseg = n] \in Local
      BY <1>1, SMTT(40) DEF Local
    <3>2. my' = [my EXCEPT ![d] = [my[d] EXCEPT !.nseg = n]]
      BY <2>2
    <3> QED  BY <1>1, <3>1, <3>2 DEF Local
  <2> QED  BY <2>1, <2>2
<1>4. ThreadsTyped'
  BY <1>1, <1>2, <1>3 DEF Typed, ThreadsTyped, Threads
<1>5. ServerTyped'
  BY <1>1 DEF ServerTyped
<1>6. LocalsSet'
  BY <1>1, <1>2, <1>3 DEF Typed, LocalsSet, Threads, R
<1> QED  BY <1>4, <1>5, <1>6 DEF Typed

\* The same with little else changed.
LEMMA ServerMovesTyped ==
  ASSUME MsgAssumption, Typed, NEW s \in Servers, NEW l \in ServerPcs, Goto(s, l),
         l \notin {"rcvd", "dupwake", "duphash", "chash"},
         my' = my, rep' = rep, intr' = intr \/ NoEvent(s), KernelTyped',
         got' = got, hash' = hash, held' = held, doomed' \in Seq(Sendable),
         UNCHANGED nsig, panic' \in BOOLEAN
  PROVE  Typed'
<1>1. intr' \in [Threads -> BOOLEAN] /\ rep' \in [Clients -> {"none", "ok", "segs", "err"}]
  BY DEF NoEvent, Typed, ThreadsTyped
<1>2. PICK g \in Sendable \cup Refs \cup {Null} : g = got[s]
  BY DEF Typed, ServerTyped
<1>3. got' = [got EXCEPT ![s] = g]
  BY <1>2 DEF Typed, ServerTyped
<1> QED  BY <1>1, <1>2, <1>3, ServerGoesTyped DEF Goto, Typed, ServerTyped

\* An answer.
LEMMA AnswerTyped ==
  ASSUME MsgAssumption, Typed, NEW s \in Servers, pc' = pc, got' = got, my' = my,
         NEW m, Answered(m),
         rep' \in [Clients -> {"none", "ok", "segs", "err"}],
         intr' = intr, KernelTyped', hash' \subseteq Refs, doomed' = doomed,
         UNCHANGED <<nsig, panic>>
  PROVE  Typed'
<1>1. ThreadsTyped'
  BY DEF Typed, ThreadsTyped
<1>2. ServerTyped'
  BY DEF Typed, ServerTyped, Answered
<1>3. LocalsSet'
  BY DEF Typed, LocalsSet, R
<1> QED  BY <1>1, <1>2, <1>3 DEF Typed

\* The steps of msg_receive().
LEMMA ReceivesTyped ==
  ASSUME MsgAssumption, Typed, NEW s \in Servers,
         \/ RecvFind(s) \/ RecvWait(s) \/ RecvBroken(s) \/ RecvTake(s) \/ RecvNothing(s)
         \/ RecvReturn(s)
  PROVE  Typed'
<1>0. /\ ref \in [Refs -> WideRef] /\ port \in WidePort /\ slots \in [Slots -> Refs \cup {Null, Reserved}]
      /\ my \in [Clients -> Local] /\ intr \in [Threads -> BOOLEAN] /\ panic \in BOOLEAN
      /\ rep \in [Clients -> {"none", "ok", "segs", "err"}]
      /\ got \in [Servers -> Sendable \cup Refs \cup {Null}]
      /\ hash \subseteq Refs /\ held \subseteq Sendable /\ doomed \in Seq(Sendable)
  BY DEF Typed, KernelTyped, ThreadsTyped, ServerTyped
<1>1. CASE RecvFind(s)
  <2>1. PSema(port.sema, s) \in SemaType(Servers)
    BY <1>0, SemaTyped DEF WidePort
  <2>2. KernelTyped'
    BY <1>0, <1>1, <2>1 DEF RecvFind, KernelTyped, WidePort, clientVars
  <2> QED  BY <1>0, <1>1, <2>2, ServerMovesTyped DEF RecvFind, clientVars, serverVars, ServerPcs
<1>2. CASE RecvWait(s)
  <2>1. PSema(port.wait, s) \in SemaType(Servers)
    BY <1>0, SemaTyped DEF WidePort
  <2>2. KernelTyped'
    BY <1>0, <1>2, <2>1 DEF RecvWait, KernelTyped, WidePort, clientVars
  <2> QED  BY <1>0, <1>2, <2>2, ServerMovesTyped DEF RecvWait, clientVars, serverVars, ServerPcs
<1>3. CASE RecvBroken(s)
  <2>1. VSema(port.sema) \in SemaType(Servers)
    BY <1>0, GiveTyped DEF WidePort
  <2>2. KernelTyped'
    BY <1>0, <1>3, <2>1 DEF RecvBroken, KernelTyped, WidePort, clientVars
  <2> QED  BY <1>0, <1>3, <2>2, ServerMovesTyped DEF RecvBroken, clientVars, serverVars, ServerPcs
<1>4. CASE RecvTake(s)
  <2>1. PICK m : m = Head(port.queue)
    OBVIOUS
  <2>2. m \in Sendable /\ Tail(port.queue) \in Seq(Sendable) /\ m.pr \in Refs
    BY <1>0, <1>4, <2>1 DEF RecvTake, WidePort, Sendable, Messages
  <2>3. PICK p : p = [port EXCEPT !.queue = Tail(@)]
    OBVIOUS
  <2>4. p \in WidePort
    BY <1>0, <2>2, <2>3 DEF WidePort
  <2>5. RefPort(p, m.pr) \in WidePort /\ DerefPort(p, m.pr) \in WidePort
    BY <2>2, <2>4 DEF WidePort, RefPort, DerefPort
  <2>6. port' \in WidePort
    <3>1. port' = RefPort(p, m.pr) \/ port' = DerefPort(p, m.pr) \/ port' = p
      BY <1>4, <2>1, <2>3 DEF RecvTake
    <3> QED  BY <2>4, <2>5, <3>1
  <2>7. KernelTyped'
    <3>1. ref' = [ref EXCEPT ![m.pr] = [@ EXCEPT !.msg = m]]
      BY <1>4, <2>1 DEF RecvTake
    <3>2. [ref[m.pr] EXCEPT !.msg = m] \in WideRef
      <4>1. ref[m.pr] \in WideRef
        BY <1>0, <2>2
      <4> QED  BY <2>2, <4>1 DEF WideRef
    <3>3. ref' \in [Refs -> WideRef]
      BY <1>0, <2>2, <3>1, <3>2
    <3> QED  BY <1>0, <1>4, <2>6, <3>3 DEF RecvTake, KernelTyped, clientVars
  <2> QED  BY <1>0, <1>4, <2>1, <2>2, <2>7, ServerGoesTyped DEF RecvTake, clientVars, ServerPcs, Goto
<1>5. CASE RecvNothing(s)
  BY <1>5 DEF RecvNothing, Typed, ThreadsTyped, ServerTyped, KernelTyped, LocalsSet, R, serverVars
<1>6. CASE RecvReturn(s)
  <2>1. PICK m : m = got[s]
    OBVIOUS
  <2>2. m \in Sendable /\ m.pr \in Refs /\ m.from \in Clients /\ m.seg \in BOOLEAN
    BY <1>6, <2>1 DEF RecvReturn, Typed, LocalsSet, Sendable, Messages
  <2>3. VSema(port.sema) \in SemaType(Servers) /\ FreeRef \in WideRef
    BY <1>0, GiveTyped, RefsTyped DEF WidePort
  <2>4. ref' \in [Refs -> WideRef]
    BY <1>0, <1>6, <2>1, <2>2, <2>3 DEF RecvReturn
  <2>5. KernelTyped'
    BY <1>0, <1>6, <2>3, <2>4 DEF RecvReturn, KernelTyped, WidePort
  <2>6. hash' \subseteq Refs /\ held' \subseteq Sendable
    BY <1>0, <1>6, <2>1, <2>2 DEF RecvReturn
  <2>7. my' = my \/ \E d \in Clients, n \in BOOLEAN : my' = [my EXCEPT ![d].nseg = n]
    BY <1>6, <2>1, <2>2 DEF RecvReturn
  <2>8. /\ rep' = rep /\ intr' = intr /\ doomed' = doomed /\ nsig' = nsig /\ panic' = panic
        /\ pc' = [pc EXCEPT ![s] = "out"] /\ got' = [got EXCEPT ![s] = Null]
    BY <1>6 DEF RecvReturn, Goto
  <2> QED  BY <1>0, <2>5, <2>6, <2>7, <2>8, ServerGoesTyped DEF ServerPcs
<1> QED  BY <1>1, <1>2, <1>3, <1>4, <1>5, <1>6

\* A portref whose client is woken, with a new state.
LEMMA WokenTyped ==
  ASSUME NEW x \in WideRef, NEW st \in States
  PROVE  /\ [x EXCEPT !.state = st, !.iowait = VSema(@)] \in WideRef
         /\ [x EXCEPT !.state = st] \in WideRef
         /\ [x EXCEPT !.iowait = VSema(@)] \in WideRef
         /\ \A b \in BOOLEAN : [x EXCEPT !.port = b, !.iowait = VSema(@)] \in WideRef
<1>1. VSema(x.iowait) \in SemaType(Clients)
  BY GiveTyped DEF WideRef
<1> QED  BY <1>1 DEF WideRef

\* The answers of the server.
LEMMA AnswersTyped ==
  ASSUME MsgAssumption, Typed, NEW s \in Servers, NEW m \in held, ServerAnswers(s, m)
  PROVE  Typed'
<1>0. /\ ref \in [Refs -> WideRef] /\ port \in WidePort /\ slots \in [Slots -> Refs \cup {Null, Reserved}]
      /\ rep \in [Clients -> {"none", "ok", "segs", "err"}]
      /\ hash \subseteq Refs /\ held \subseteq Sendable /\ doomed \in Seq(Sendable)
      /\ got \in [Servers -> Sendable \cup Refs \cup {Null}] /\ panic \in BOOLEAN
      /\ intr \in [Threads -> BOOLEAN]
  BY DEF Typed, KernelTyped, ThreadsTyped, ServerTyped
<1>1. PICK r, x : r = m.pr /\ x = ref[r]
  OBVIOUS
<1>2. r \in Refs /\ x \in WideRef /\ x.msg \in Sendable \cup {Null}
  BY <1>0, <1>1 DEF Sendable, Messages, WideRef
<1>3. CASE MsgAccept(s, m)
  <2>1. \/ ref' = [ref EXCEPT ![r] = [x EXCEPT !.state = "IODONE", !.iowait = VSema(@)]]
        \/ ref' = ref
    BY <1>1, <1>3, Zenon DEF MsgAccept
  <2>2. ref' \in [Refs -> WideRef]
    <3>1. \E y \in WideRef : ref' = [ref EXCEPT ![r] = y] \/ ref' = ref
      BY <1>2, <2>1, WokenTyped, Zenon DEF States
    <3> QED  BY <1>0, <1>2, <3>1
  <2> QED  BY <1>0, <1>3, <2>2, AnswerTyped DEF MsgAccept, KernelTyped, clientVars
<1>4. CASE MsgErr(s, m)
  <2>1. \/ \E st \in States : ref' = [ref EXCEPT ![r] = [x EXCEPT !.state = st, !.iowait = VSema(@)]]
        \/ ref' = ref
    <3>1. PICK st \in States : st = IF x.state = "OPENING" THEN "ABDONE" ELSE "IODONE"
      BY DEF States
    <3>2. \/ ref' = [ref EXCEPT ![r] = [x EXCEPT !.state = st, !.iowait = VSema(@)]]
          \/ ref' = ref
      BY <1>1, <1>4, <3>1 DEF MsgErr
    <3> QED  BY <3>1, <3>2
  <2>2. ref' \in [Refs -> WideRef]
    <3>1. \E y \in WideRef : ref' = [ref EXCEPT ![r] = y] \/ ref' = ref
      BY <1>2, <2>1, WokenTyped
    <3> QED  BY <1>0, <1>2, <3>1
  <2>3. rep' \in [Clients -> {"none", "ok", "segs", "err"}]
    BY <1>0, <1>4 DEF MsgErr, ErrTold
  <2>4. port' \in WidePort
    BY <1>0, <1>4 DEF MsgErr, DerefPort, WidePort
  <2>5. hash' \subseteq Refs
    BY <1>0, <1>4 DEF MsgErr
  <2> QED  BY <1>0, <1>4, <2>2, <2>3, <2>4, <2>5, AnswerTyped DEF MsgErr, KernelTyped, clientVars
<1>5. ASSUME NEW a \in Answers, ReplyDone(s, m, a)
      PROVE  Typed'
  <2>1. a \in {"ok", "segs", "err"} /\ pc[s] = "out"
    BY <1>5 DEF Answers, ReplyDone, Holds
  <2>2. PICK w : w = IF a = "segs" THEN Handover(x.svwait, s) ELSE x.svwait
    OBVIOUS
  <2>3. w \in SemaType(Servers)
    <3>1. x.svwait \in SemaType(Servers) /\ SetSema(x.svwait, 0) \in SemaType(Servers)
      <4>1. x.svwait \in SemaType(Servers) /\ 0 \in Int
        BY <1>2 DEF WideRef
      <4> QED  BY <4>1, GiveTyped
    <3> QED  BY <2>2, <3>1, SemaTyped DEF Handover
  <2>4. ref' = [ref EXCEPT ![r] = [x EXCEPT !.msg = Null, !.state = "IODONE", !.iowait = VSema(@),
                                            !.svwait = w]]
    BY <1>1, <1>5, <2>2 DEF ReplyDone
  <2>5. [x EXCEPT !.msg = Null, !.state = "IODONE", !.iowait = VSema(@), !.svwait = w] \in WideRef
    <3>1. VSema(x.iowait) \in SemaType(Clients)
      <4>1. x.iowait \in SemaType(Clients)
        BY ONLY <1>2 DEF WideRef
      <4> QED  BY <4>1, GiveTyped
    <3> QED  BY <1>2, <2>3, <3>1 DEF WideRef, States
  <2>6. KernelTyped'
    <3>1. ref' \in [Refs -> WideRef]
      BY <1>0, <1>2, <2>4, <2>5
    <3> QED  BY <1>0, <1>5, <3>1 DEF ReplyDone, KernelTyped, clientVars
  <2>7. rep' \in [Clients -> {"none", "ok", "segs", "err"}]
    BY <1>0, <1>5, <2>1 DEF ReplyDone
  <2>8. /\ got' = got /\ my' = my /\ intr' = intr /\ hash' = hash /\ doomed' = doomed /\ nsig' = nsig
        /\ panic' = panic /\ Answered(m)
        /\ IF a = "segs" THEN pc' = [pc EXCEPT ![s] = "svwait"] ELSE pc' = pc
    BY <1>5 DEF ReplyDone, Goto, clientVars
  <2>9. CASE a = "segs"
    <3>1. PICK g \in Sendable \cup Refs \cup {Null} : g = got[s]
      BY <1>0
    <3>2. got' = [got EXCEPT ![s] = g] /\ held' \subseteq Sendable
      BY <1>0, <2>8, <3>1 DEF Answered
    <3> QED  BY <1>0, <2>6, <2>7, <2>8, <2>9, <3>2, ServerGoesTyped DEF ServerPcs
  <2>10. CASE a # "segs"
    BY <1>0, <2>6, <2>7, <2>8, <2>10, AnswerTyped
  <2> QED  BY <2>9, <2>10
<1>6. ASSUME NEW a \in Answers, ReplyDup(s, m, a)
      PROVE  Typed'
  <2>1. PICK om : om = x.msg
    OBVIOUS
  <2>2. om \in Sendable /\ om.new \in Refs
    BY <1>1, <1>2, <1>6, <2>1 DEF ReplyDup, Wanted, Sendable
  <2>3. /\ port' = RefPort(port, om.new) /\ got' = [got EXCEPT ![s] = om]
        /\ rep' = [rep EXCEPT ![om.from] = "ok"]
        /\ ref' = [ref EXCEPT ![r] = [x EXCEPT !.state = "IODONE"]]
        /\ pc' = [pc EXCEPT ![s] = "dupwake"]
        /\ my' = my /\ intr' = intr /\ hash' = hash /\ doomed' = doomed /\ nsig' = nsig /\ panic' = panic
        /\ Answered(m) /\ slots' = slots
    BY <1>1, <1>6, <2>1 DEF ReplyDup, Goto, clientVars
  <2>4. KernelTyped'
    BY <1>0, <1>2, <2>2, <2>3, WokenTyped, Zenon DEF KernelTyped, WidePort, RefPort, States
  <2>5. rep' \in [Clients -> {"none", "ok", "segs", "err"}] /\ held' \subseteq Sendable
    BY <1>0, <2>3 DEF Answered
  <2> QED  BY <1>0, <2>2, <2>3, <2>4, <2>5, ServerGoesTyped DEF ServerPcs
<1>7. CASE ReplyAbort(s, m)
  <2>1. \/ ref' = [ref EXCEPT ![r] = [x EXCEPT !.state = "ABDONE", !.iowait = VSema(@)]]
        \/ ref' = ref
    BY <1>1, <1>7, Zenon DEF ReplyAbort
  <2>2. ref' \in [Refs -> WideRef]
    <3>1. \E y \in WideRef : ref' = [ref EXCEPT ![r] = y] \/ ref' = ref
      BY <1>2, <2>1, WokenTyped, Zenon DEF States
    <3> QED  BY <1>0, <1>2, <3>1
  <2> QED  BY <1>0, <1>7, <2>2, AnswerTyped DEF ReplyAbort, KernelTyped, clientVars
<1>8. CASE ReplyRefused(s, m)
  BY <1>0, <1>8, AnswerTyped DEF ReplyRefused, KernelTyped, clientVars
<1> QED  BY <1>3, <1>4, <1>5, <1>6, <1>7, <1>8 DEF ServerAnswers

\* What msg_reply() does after it has let go of the client.
LEMMA RepliesTyped ==
  ASSUME MsgAssumption, Typed, NEW s \in Servers, ReplyRuns(s) \/ DupWake(s) \/ DupHash(s)
  PROVE  Typed'
<1>0. /\ ref \in [Refs -> WideRef] /\ port \in WidePort /\ slots \in [Slots -> Refs \cup {Null, Reserved}]
      /\ hash \subseteq Refs /\ held \subseteq Sendable /\ doomed \in Seq(Sendable)
      /\ got \in [Servers -> Sendable \cup Refs \cup {Null}] /\ panic \in BOOLEAN
      /\ intr \in [Threads -> BOOLEAN] /\ rep \in [Clients -> {"none", "ok", "segs", "err"}]
  BY DEF Typed, KernelTyped, ThreadsTyped, ServerTyped
<1>1. CASE ReplyRuns(s)
  BY <1>0, <1>1, ServerMovesTyped DEF ReplyRuns, KernelTyped, clientVars, serverVars, ServerPcs
<1>2. CASE DupWake(s)
  <2>1. PICK g : g = got[s]
    OBVIOUS
  <2>2. g \in Sendable /\ g.new \in Refs /\ g.pr \in Refs
    BY <1>2, <2>1 DEF DupWake, Typed, LocalsSet, Sendable, Messages
  <2>r. PICK r : r = g.pr
    OBVIOUS
  <2>3. ref' = [ref EXCEPT ![r] = [ref[r] EXCEPT !.iowait = VSema(@)]]
    BY <1>2, <2>1, <2>r DEF DupWake
  <2>4. ref' \in [Refs -> WideRef]
    <3>1. PICK x : x = ref[r]
      OBVIOUS
    <3>2. x \in WideRef /\ "IODONE" \in States
      BY <1>0, <2>2, <2>r, <3>1 DEF States
    <3>3. PICK y \in WideRef : y = [x EXCEPT !.iowait = VSema(@)]
      BY <3>2, WokenTyped
    <3> QED  BY <1>0, <2>2, <2>r, <2>3, <3>1, <3>3
  <2>5. got' = [got EXCEPT ![s] = g]
    BY <1>0, <1>2, <2>1 DEF DupWake, serverVars
  <2>6. KernelTyped'
    BY <1>0, <1>2, <2>4 DEF DupWake, KernelTyped, clientVars
  <2> QED  BY <1>0, <1>2, <2>2, <2>5, <2>6, ServerGoesTyped
           DEF DupWake, Goto, clientVars, serverVars, ServerPcs
<1>3. CASE DupHash(s)
  <2>1. got[s].new \in Refs
    BY <1>3 DEF DupHash, Typed, LocalsSet
  <2>2. KernelTyped'
    BY <1>0, <1>3 DEF DupHash, KernelTyped, clientVars
  <2> QED  BY <1>0, <1>3, <2>1, <2>2, ServerGoesTyped, ZenonT(40) DEF DupHash, Goto, clientVars, ServerPcs
<1> QED  BY <1>1, <1>2, <1>3

\* Closing the port.
LEMMA ClosesTyped ==
  ASSUME MsgAssumption, Typed, NEW s \in Servers,
         \/ ClosePort(s) \/ CloseName(s) \/ Grab(s) \/ Bounce(s) \/ BounceEnd(s)
         \/ CloseHash(s) \/ FreePort(s) \/ \E r \in Refs : CloseClient(s, r)
  PROVE  Typed'
<1>0. /\ ref \in [Refs -> WideRef] /\ port \in WidePort /\ slots \in [Slots -> Refs \cup {Null, Reserved}]
      /\ hash \subseteq Refs /\ held \subseteq Sendable /\ doomed \in Seq(Sendable)
      /\ got \in [Servers -> Sendable \cup Refs \cup {Null}] /\ panic \in BOOLEAN
      /\ intr \in [Threads -> BOOLEAN] /\ rep \in [Clients -> {"none", "ok", "segs", "err"}]
      /\ pc \in [Threads -> ClientPcs \cup ServerPcs]
  BY DEF Typed, KernelTyped, ThreadsTyped, ServerTyped
<1>1. CASE ClosePort(s)
  <2>1. PSema(port.sema, s) \in SemaType(Servers)
    BY <1>0, SemaTyped DEF WidePort
  <2>2. KernelTyped'
    BY <1>0, <1>1, <2>1 DEF ClosePort, KernelTyped, WidePort, clientVars
  <2> QED  BY <1>0, <1>1, <2>2, ServerMovesTyped DEF ClosePort, clientVars, serverVars, ServerPcs
<1>2. CASE CloseName(s)
  <2>1. KernelTyped'
    BY <1>0, <1>2 DEF CloseName, KernelTyped, WidePort, clientVars
  <2> QED  BY <1>0, <1>2, <2>1, ServerMovesTyped DEF CloseName, clientVars, serverVars, ServerPcs
<1>3. CASE Grab(s)
  <2>1. port.queue \in Seq(Sendable) /\ << >> \in Seq(Sendable)
    BY <1>0 DEF WidePort
  <2>2. KernelTyped'
    BY <1>0, <1>3, <2>1 DEF Grab, KernelTyped, WidePort, clientVars
  <2> QED  BY <1>0, <1>3, <2>1, <2>2, ServerMovesTyped DEF Grab, clientVars, ServerPcs
<1>4. CASE Bounce(s)
  <2>1. PICK m : m = Head(doomed)
    OBVIOUS
  <2>2. m \in Sendable /\ Tail(doomed) \in Seq(Sendable)
    BY <1>0, <1>4, <2>1 DEF Bounce
  <2>3. m.pr \in Refs /\ m.from \in Clients
    BY <2>2 DEF Sendable, Messages
  <2>r. PICK r : r = m.pr
    OBVIOUS
  <2>4. ref' = ref \/ ref' = [ref EXCEPT ![r] = [ref[r] EXCEPT !.port = FALSE, !.iowait = VSema(@)]]
    BY <1>4, <2>1, <2>r DEF Bounce
  <2>5. ref' \in [Refs -> WideRef]
    <3>1. PICK x : x = ref[r]
      OBVIOUS
    <3>2. x \in WideRef /\ "IODONE" \in States
      BY <1>0, <2>3, <2>r, <3>1 DEF States
    <3>3. PICK y \in WideRef : y = [x EXCEPT !.port = FALSE, !.iowait = VSema(@)]
      BY <3>2, WokenTyped
    <3> QED  BY <1>0, <2>3, <2>r, <2>4, <3>1, <3>3
  <2>6. rep' \in [Clients -> {"none", "ok", "segs", "err"}]
    BY <1>0, <1>4, <2>1, <2>3 DEF Bounce
  <2>7. /\ KernelTyped' /\ pc[s] = "bounce"
        /\ pc' = [pc EXCEPT ![s] = "bounce"] /\ got' = [got EXCEPT ![s] = got[s]]
    BY <1>0, <1>4, <2>5 DEF Bounce, KernelTyped, clientVars, Threads
  <2>8. PICK g \in Sendable \cup Refs \cup {Null} : g = got[s]
    BY <1>0
  <2> QED  BY <1>0, <1>4, <2>2, <2>6, <2>7, <2>8, ServerGoesTyped DEF Bounce, clientVars, ServerPcs
<1>5. CASE BounceEnd(s) \/ FreePort(s)
  <2>1. KernelTyped'
    BY <1>0, <1>5 DEF BounceEnd, FreePort, KernelTyped, clientVars
  <2> QED  BY <1>0, <1>5, <2>1, ServerMovesTyped DEF BounceEnd, FreePort, clientVars, serverVars, ServerPcs
<1>6. CASE CloseHash(s)
  <2>1. KernelTyped'
    BY <1>0, <1>6 DEF CloseHash, KernelTyped, clientVars
  <2> QED  BY <1>0, <1>6, <2>1, ServerGoesTyped DEF CloseHash, Goto, clientVars, ServerPcs
<1>7. ASSUME NEW r \in Refs, CloseClient(s, r)
      PROVE  Typed'
  <2>1. CASE SlippedIn(port)
    <3>1. KernelTyped'
      BY <1>0, <1>7, <2>1 DEF CloseClient, KernelTyped, clientVars
    <3> QED  BY <1>0, <1>7, <2>1, <3>1, ServerMovesTyped DEF CloseClient, clientVars, serverVars, ServerPcs
  <2>2. CASE ~SlippedIn(port)
    <3>1. CutOff(ref[r]) \in WideRef /\ DerefPort(port, r) \in WidePort
      BY <1>0, RefsTyped DEF DerefPort, WidePort
    <3>2. KernelTyped'
      BY <1>0, <1>7, <2>2, <3>1 DEF CloseClient, KernelTyped, clientVars
    <3> QED  BY <1>0, <1>7, <2>2, <3>2, ServerGoesTyped DEF CloseClient, Goto, clientVars, ServerPcs
  <2> QED  BY <2>1, <2>2
<1> QED  BY <1>1, <1>2, <1>3, <1>4, <1>5, <1>6, <1>7

\* An event.
LEMMA SignalTyped ==
  ASSUME MsgAssumption, Typed, NEW t \in Threads, Signal(t)
  PROVE  Typed'
<1>0. /\ ref \in [Refs -> WideRef] /\ port \in WidePort /\ slots \in [Slots -> Refs \cup {Null, Reserved}]
      /\ intr \in [Threads -> BOOLEAN] /\ nsig \in Nat /\ MaxSig \in Nat
  BY DEF Typed, KernelTyped, ThreadsTyped, MsgAssumption
<1>1. KernelTyped'
  <2>1. ASSUME t \in Clients, pc[t] # "out",
               \/ ref' = [ref EXCEPT ![R(t)].sema = Cunsleep(@, t)] /\ Queued(X(t).sema, t)
               \/ ref' = [ref EXCEPT ![R(t)].iowait = Cunsleep(@, t)] /\ Queued(X(t).iowait, t)
        PROVE  ref' \in [Refs -> WideRef]
    <3>1. PICK r \in Refs, x \in WideRef : r = R(t) /\ x = X(t) /\ x = ref[r]
      BY <1>0, <2>1 DEF Typed, LocalsSet, X, R
    <3>2. \/ ref' = [ref EXCEPT ![r] = [x EXCEPT !.sema = Cunsleep(@, t)]] /\ Queued(x.sema, t)
          \/ ref' = [ref EXCEPT ![r] = [x EXCEPT !.iowait = Cunsleep(@, t)]] /\ Queued(x.iowait, t)
      BY <2>1, <3>1
    <3>3. /\ Queued(x.sema, t) => [x EXCEPT !.sema = Cunsleep(@, t)] \in WideRef
          /\ Queued(x.iowait, t) => [x EXCEPT !.iowait = Cunsleep(@, t)] \in WideRef
      <4>1. x.sema \in SemaType(Clients) /\ x.iowait \in SemaType(Clients)
        BY <3>1 DEF WideRef
      <4>2. /\ Queued(x.sema, t) => Cunsleep(x.sema, t) \in SemaType(Clients)
            /\ Queued(x.iowait, t) => Cunsleep(x.iowait, t) \in SemaType(Clients)
        BY <2>1, <4>1, SemaTyped
      <4> QED  BY <3>1, <4>2 DEF WideRef
    <3> QED  BY <1>0, <3>1, <3>2, <3>3
  <2>2. ASSUME t \in Servers,
               \/ port' = [port EXCEPT !.sema = Cunsleep(@, t)] /\ Queued(port.sema, t)
               \/ port' = [port EXCEPT !.wait = Cunsleep(@, t)] /\ Queued(port.wait, t)
        PROVE  port' \in WidePort
    <3>1. port.sema \in SemaType(Servers) /\ port.wait \in SemaType(Servers)
      BY <1>0 DEF WidePort
    <3>2. /\ Queued(port.sema, t) => Cunsleep(port.sema, t) \in SemaType(Servers)
          /\ Queued(port.wait, t) => Cunsleep(port.wait, t) \in SemaType(Servers)
      BY <2>2, <3>1, SemaTyped
    <3> QED  BY <1>0, <2>2, <3>2 DEF WidePort
  <2>3. \/ t \in Clients /\ pc[t] # "out" /\ port' = port
           /\ \/ ref' = [ref EXCEPT ![R(t)].sema = Cunsleep(@, t)] /\ Queued(X(t).sema, t)
              \/ ref' = [ref EXCEPT ![R(t)].iowait = Cunsleep(@, t)] /\ Queued(X(t).iowait, t)
        \/ t \in Servers /\ ref' = ref
           /\ \/ port' = [port EXCEPT !.sema = Cunsleep(@, t)] /\ Queued(port.sema, t)
              \/ port' = [port EXCEPT !.wait = Cunsleep(@, t)] /\ Queued(port.wait, t)
    BY DEF Signal
  <2> QED  BY <1>0, <2>1, <2>2, <2>3 DEF KernelTyped, Signal, clientVars
<1>2. ThreadsTyped'
  BY <1>0 DEF Typed, ThreadsTyped, Signal, clientVars
<1>3. ServerTyped' /\ LocalsSet'
  BY DEF Typed, ServerTyped, LocalsSet, Signal, clientVars, serverVars, R
<1>4. nsig' \in 0..MaxSig
  BY <1>0 DEF Signal
<1> QED  BY <1>1, <1>2, <1>3, <1>4 DEF Typed, Signal

\* Types are kept by every step ...
LEMMA TypedStep ==
  ASSUME MsgAssumption, Typed, [Next]_vars
  PROVE  Typed'
<1>1. CASE UNCHANGED vars
  BY <1>1 DEF vars, Typed, ThreadsTyped, ServerTyped, KernelTyped, LocalsSet, R
<1>2. CASE Next
  BY <1>2, CallsTyped, RunsTyped, ReceivesTyped, AnswersTyped, RepliesTyped, ClosesTyped, SignalTyped
     DEF Next, ServerRuns
<1> QED  BY <1>1, <1>2

\* ... and hold when the port is made.
LEMMA TypedInit ==
  ASSUME MsgAssumption, Init
  PROVE  Typed
<1>1. KernelTyped
  <2>1. NewSema(0) \in SemaType(Servers) /\ NewSema(1) \in SemaType(Servers) /\ FreeRef \in WideRef
    BY NewTyped, RefsTyped
  <2> QED  BY <2>1 DEF Init, KernelTyped, WidePort
<1>2. ThreadsTyped
  BY DEF Init, ThreadsTyped, NoCall, Local, Kinds, ClientPcs, ServerPcs, Threads
<1>3. ServerTyped
  BY DEF Init, ServerTyped
<1>4. LocalsSet
  BY DEF Init, LocalsSet, Threads
<1>5. nsig \in 0..MaxSig /\ panic \in BOOLEAN
  <2>1. MaxSig \in Nat /\ nsig = 0
    BY DEF Init, MsgAssumption
  <2>2. 0 \in 0..MaxSig
    BY <2>1
  <2> QED  BY <2>1, <2>2, Zenon DEF Init
<1> QED  BY <1>1, <1>2, <1>3, <1>4, <1>5 DEF Typed
-----------------------------------------------------------------------------
(* The units of p_wait.                                                    *)

\* Where a server is that closes the port: it waits to be the last one at it,
\* and then takes it down.
ShuttingPcs == {"grab", "bounce", "client", "chash", "gone"}
ClosingPcs == {"dport"} \cup ShuttingPcs

\* Receivers that have been let go, and have not run yet.
Handed == {s \in Servers : Awake(s, "rwait", port.wait)}

\* As long as no event has been sent, p_wait is in order: those in its queue
\* are about to receive, and its units and those handed out are the messages.
UnitsOK ==
  /\ QueueDistinct(port.wait) /\ CountIsQueue(port.wait)
  /\ \A s \in Servers : Queued(port.wait, s) => pc[s] = "rwait"
  /\ \A t \in Threads : ~intr[t]
  /\ \A s \in Servers : pc[s] \notin ClosingPcs
  /\ IsFiniteSet(Handed)
  /\ Len(port.queue) = (IF port.wait.cnt > 0 THEN port.wait.cnt ELSE 0) + Cardinality(Handed)

UnitInv == Typed /\ (port.inproc /\ nsig = 0 => UnitsOK)

\* Steps that leave p_wait and the queue alone.
LEMMA WaitKept ==
  ASSUME UnitsOK, port'.wait = port.wait, port'.queue = port.queue, intr' = intr,
         \A s \in Servers : (pc'[s] = "rwait" <=> pc[s] = "rwait") /\ pc'[s] \notin ClosingPcs
  PROVE  UnitsOK'
<1>1. Handed' = Handed
  BY DEF Handed, Awake
<1> QED  BY <1>1 DEF UnitsOK

\* A message is queued: it is counted, or the first receiver gets it.
LEMMA EnqueueCounts ==
  ASSUME Typed, UnitsOK, NEW m \in Sendable, port' = Enqueue(port, m), intr' = intr,
         \A s \in Servers : pc'[s] = pc[s]
  PROVE  UnitsOK'
<1>1. PICK w, q : w = port.wait /\ q = port.queue
  OBVIOUS
<1>2. w \in SemaType(Servers) /\ q \in Seq(Sendable) /\ w.cnt \in Int
  BY <1>1 DEF Typed, KernelTyped, WidePort, SemaType
<1>3. port'.wait = VSema(w) /\ port'.queue = Append(q, m)
  BY <1>1 DEF Enqueue, Typed, KernelTyped, WidePort
<1>4. Len(port'.queue) = Len(q) + 1
  BY <1>2, <1>3
<1>5. QueueDistinct(w) /\ CountIsQueue(w)
  BY <1>1 DEF UnitsOK
<1>6. CASE w.q = << >>
  <2>1. /\ QueueDistinct(VSema(w)) /\ CountIsQueue(VSema(w)) /\ VSema(w).cnt = w.cnt + 1 /\ w.cnt >= 0
        /\ \A s \in Servers : Queued(VSema(w), s) <=> Queued(w, s)
    BY <1>2, <1>5, <1>6, GiveFreeOK
  <2>2. Handed' = Handed
    BY <1>1, <1>3, <2>1 DEF Handed, Awake
  <2> QED  BY <1>1, <1>2, <1>3, <1>4, <2>1, <2>2, FS_CardinalityType, SMTT(40) DEF UnitsOK
<1>7. CASE w.q # << >>
  <2>1. PICK h : h = Head(w.q)
    OBVIOUS
  <2>2. /\ QueueDistinct(VSema(w)) /\ CountIsQueue(VSema(w)) /\ VSema(w).cnt = w.cnt + 1 /\ w.cnt < 0
        /\ h \in Servers /\ Queued(w, h)
        /\ \A s \in Servers : Queued(VSema(w), s) <=> Queued(w, s) /\ s # h
    BY <1>2, <1>5, <1>7, <2>1, GiveOK
  <2>3. Handed' = Handed \cup {h} /\ h \notin Handed
    BY <1>1, <1>3, <2>2 DEF Handed, Awake, UnitsOK, Threads
  <2>4. IsFiniteSet(Handed') /\ Cardinality(Handed') = Cardinality(Handed) + 1 /\ Cardinality(Handed) \in Nat
    BY <2>3, FS_AddElement, FS_CardinalityType DEF UnitsOK
  <2>5. Len(port'.queue) = (IF VSema(w).cnt > 0 THEN VSema(w).cnt ELSE 0) + Cardinality(Handed')
    BY <1>1, <1>2, <1>4, <2>2, <2>4 DEF UnitsOK
  <2> QED  BY <1>1, <1>3, <2>2, <2>4, <2>5 DEF UnitsOK
<1> QED  BY <1>6, <1>7

\* What client threads do to the port, if no event has been sent.
LEMMA ClientsCount ==
  ASSUME MsgAssumption, Typed, UnitsOK, NEW c \in Clients, ClientCalls(c) \/ ClientRuns(c)
  PROVE  UnitsOK'
<1>1. \A s \in Servers : s # c
  BY DEF MsgAssumption
<1>2. ~intr[c] /\ pc \in [Threads -> ClientPcs \cup ServerPcs]
      /\ (pc[c] # "out" => R(c) \in Refs)
  BY DEF UnitsOK, Threads, Typed, ThreadsTyped, LocalsSet
<1>3. intr' = intr /\ \A s \in Servers : pc'[s] = pc[s]
  BY <1>1, <1>2, ZenonT(40)
     DEF ClientCalls, ClientRuns, MsgConnect, MsgConnectDone, SendFind, SendPost, SendDone, SendMap,
         CopyDone, MapFails, IntrGone, IntrWithdraw, IntrAbort, IntrDone, AbortDone, FindBroken,
         Interrupted, Broken, CloneFind, ClonePost, CloneDone, ForkPort, MsgDisconnect, ShutClient,
         ShutDone, Goto, Return, Threads
<1>4. port' = port \/ \E m \in Sendable : port' = Enqueue(port, m)
  <2>1. \A r \in Refs, n \in Refs, b \in BOOLEAN :
          /\ Message("CONNECT", c, r, Null, FALSE) \in Sendable
          /\ Message("IO", c, r, Null, b) \in Sendable
          /\ Message("DISCONNECT", c, r, Null, FALSE) \in Sendable
          /\ Message("DUP", c, r, n, FALSE) \in Sendable
    BY SentTyped
  <2>2. CASE ClientCalls(c)
    BY <2>1, <2>2, Zenon DEF ClientCalls, MsgConnect, SendFind, CloneFind, ForkPort, MsgDisconnect
  <2>3. CASE SendPost(c) \/ ShutClient(c) \/ \E n \in Refs : ClonePost(c, n)
    <3>1. (my[c].kind = "write") \in BOOLEAN
      OBVIOUS
    <3> QED  BY <1>2, <2>1, <2>3, <3>1 DEF SendPost, ShutClient, ClonePost, DupMessage, Awake
  <2>4. \/ ClientCalls(c) \/ SendPost(c) \/ ShutClient(c) \/ (\E n \in Refs : ClonePost(c, n))
        \/ port' = port
    BY <1>2 DEF ClientRuns, MsgConnectDone, SendDone, SendMap, CopyDone, MapFails, IntrGone, IntrWithdraw,
         IntrAbort, IntrDone, AbortDone, FindBroken, Interrupted, Broken, CloneDone, ShutDone
  <2> QED  BY <2>2, <2>3, <2>4
<1>5. CASE port' = port
  BY <1>3, <1>5, WaitKept DEF UnitsOK
<1>6. ASSUME NEW m \in Sendable, port' = Enqueue(port, m)
      PROVE  UnitsOK'
  BY <1>3, <1>6, EnqueueCounts
<1> QED  BY <1>4, <1>5, <1>6

\* Receiving and answering, if no event has been sent.
LEMMA ServersCount ==
  ASSUME MsgAssumption, Typed, UnitsOK, NEW s \in Servers,
         \/ RecvFind(s) \/ ServerRuns(s)
         \/ \E m \in held : ServerAnswers(s, m)
  PROVE  UnitsOK'
<1>1. /\ port \in WidePort /\ pc \in [Threads -> ClientPcs \cup ServerPcs] /\ s \in Threads
      /\ ~intr[s] /\ pc[s] \notin ClosingPcs
  BY DEF Typed, KernelTyped, ThreadsTyped, UnitsOK, Threads
<1>2. CASE RecvWait(s)
  <2>1. PICK w : w = port.wait
    OBVIOUS
  <2>2. /\ w \in SemaType(Servers) /\ w.cnt \in Int /\ pc[s] = "find" /\ intr' = intr
        /\ port'.wait = PSema(w, s) /\ port'.queue = port.queue
        /\ pc' = [pc EXCEPT ![s] = "rwait"]
    BY <1>1, <1>2, <2>1 DEF RecvWait, WidePort, Goto, Awake, SemaType
  <2>3. QueueDistinct(w) /\ CountIsQueue(w) /\ ~Queued(w, s) /\ s \notin Handed
    BY <2>1, <2>2 DEF UnitsOK, Handed, Awake
  <2>4. \A u \in Servers : Awake(u, "rwait", port.wait)' <=>
           (u = s \/ pc[u] = "rwait") /\ ~Queued(PSema(w, s), u) /\ ~intr[u]
    BY <1>1, <2>2 DEF Awake, Threads
  <2>5. CASE Free(w)
    <3>1. /\ QueueDistinct(PSema(w, s)) /\ CountIsQueue(PSema(w, s)) /\ PSema(w, s).cnt = w.cnt - 1
          /\ w.cnt > 0 /\ \A u \in Servers : Queued(PSema(w, s), u) <=> Queued(w, u)
      BY <2>2, <2>3, <2>5, TakeOK
    <3>2. Handed' = Handed \cup {s}
      BY <1>1, <2>1, <2>2, <2>3, <2>4, <3>1 DEF Handed, Awake
    <3>3. IsFiniteSet(Handed') /\ Cardinality(Handed') = Cardinality(Handed) + 1 /\ Cardinality(Handed) \in Nat
      BY <2>3, <3>2, FS_AddElement, FS_CardinalityType DEF UnitsOK
    <3>4. Len(port'.queue) = (IF PSema(w, s).cnt > 0 THEN PSema(w, s).cnt ELSE 0) + Cardinality(Handed')
      BY <2>1, <2>2, <3>1, <3>3 DEF UnitsOK
    <3> QED  BY <1>1, <2>1, <2>2, <3>1, <3>3, <3>4 DEF UnitsOK, ClosingPcs, ShuttingPcs, Threads
  <2>6. CASE ~Free(w)
    <3>1. /\ QueueDistinct(PSema(w, s)) /\ CountIsQueue(PSema(w, s)) /\ PSema(w, s).cnt = w.cnt - 1
          /\ w.cnt <= 0 /\ \A u \in Servers : Queued(PSema(w, s), u) <=> Queued(w, u) \/ u = s
      BY <2>2, <2>3, <2>6, WaitOK
    <3>2. Handed' = Handed
      BY <1>1, <2>1, <2>2, <2>3, <2>4, <3>1 DEF Handed, Awake
    <3>3. Len(port'.queue) = (IF PSema(w, s).cnt > 0 THEN PSema(w, s).cnt ELSE 0) + Cardinality(Handed')
      BY <2>1, <2>2, <3>1, <3>2 DEF UnitsOK
    <3> QED  BY <1>1, <2>1, <2>2, <3>1, <3>2, <3>3 DEF UnitsOK, ClosingPcs, ShuttingPcs, Threads
  <2> QED  BY <2>5, <2>6
<1>3. CASE RecvTake(s)
  <2>1. PICK w, q : w = port.wait /\ q = port.queue
    OBVIOUS
  <2>2. /\ q \in Seq(Sendable) /\ q # << >> /\ w.cnt \in Int /\ s \in Handed /\ intr' = intr
        /\ pc' = [pc EXCEPT ![s] = "rcvd"]
    BY <1>1, <1>3, <2>1 DEF RecvTake, WidePort, Goto, Handed, SemaType
  <2>3. port'.wait = w /\ port'.queue = Tail(q)
    BY <1>1, <1>3, <2>1 DEF RecvTake, RefPort, DerefPort, WidePort
  <2>4. Handed' = Handed \ {s}
    BY <1>1, <2>1, <2>2, <2>3 DEF Handed, Awake, Threads
  <2>5. IsFiniteSet(Handed') /\ Cardinality(Handed') = Cardinality(Handed) - 1 /\ Cardinality(Handed) \in Nat
    BY <2>2, <2>4, FS_RemoveElement, FS_CardinalityType DEF UnitsOK
  <2>6. Len(port'.queue) = (IF w.cnt > 0 THEN w.cnt ELSE 0) + Cardinality(Handed')
    <3>1. Len(Tail(q)) = Len(q) - 1 /\ Len(q) \in Nat
      BY <2>2
    <3>2. Len(q) = (IF w.cnt > 0 THEN w.cnt ELSE 0) + Cardinality(Handed)
      BY <2>1 DEF UnitsOK
    <3> QED  BY <2>2, <2>3, <2>5, <3>1, <3>2
  <2>7. ~Queued(w, s)
    BY <1>3, <2>1 DEF RecvTake, Awake
  <2> QED  BY <1>1, <2>1, <2>2, <2>3, <2>5, <2>6, <2>7 DEF UnitsOK, ClosingPcs, ShuttingPcs, Threads
<1>4. CASE RecvFind(s) \/ RecvNothing(s) \/ RecvReturn(s) \/ ReplyRuns(s) \/ DupWake(s) \/ DupHash(s)
  <2>1. /\ port'.wait = port.wait /\ port'.queue = port.queue /\ intr' = intr
        /\ pc[s] \in {"out", "rcvd", "svwait", "dupwake", "duphash"} \/ pc' = pc
    BY <1>1, <1>4 DEF RecvFind, RecvNothing, RecvReturn, ReplyRuns, DupWake, DupHash, WidePort
  <2>2. pc' = pc \/ \E l \in {"find", "out", "duphash"} : pc' = [pc EXCEPT ![s] = l]
    BY <1>4 DEF RecvFind, RecvNothing, RecvReturn, ReplyRuns, DupWake, DupHash, Goto
  <2> QED  BY <1>1, <2>1, <2>2, WaitKept DEF UnitsOK, ClosingPcs, ShuttingPcs, Threads
<1>5. ASSUME NEW m \in held, ServerAnswers(s, m)
      PROVE  UnitsOK'
  <2>1. port'.wait = port.wait /\ port'.queue = port.queue /\ intr' = intr /\ pc[s] = "out"
    BY <1>1, <1>5, ZenonT(40) DEF ServerAnswers, MsgAccept, MsgErr, ReplyDone, ReplyDup, ReplyAbort, ReplyRefused,
                      RefPort, DerefPort, WidePort, Holds
  <2>2. pc' = pc \/ \E l \in {"svwait", "dupwake"} : pc' = [pc EXCEPT ![s] = l]
    BY <1>5, Zenon DEF ServerAnswers, MsgAccept, MsgErr, ReplyDone, ReplyDup, ReplyAbort, ReplyRefused, Goto
  <2> QED  BY <1>1, <2>1, <2>2, WaitKept, SMTT(40) DEF UnitsOK, ClosingPcs, ShuttingPcs, Threads
<1>6. \/ RecvWait(s) \/ RecvTake(s) \/ RecvFind(s) \/ RecvNothing(s) \/ RecvReturn(s)
      \/ ReplyRuns(s) \/ DupWake(s) \/ DupHash(s) \/ \E m \in held : ServerAnswers(s, m)
  BY <1>1 DEF ServerRuns, RecvBroken, Broken, CloseName, Grab, Bounce, BounceEnd, CloseClient, CloseHash,
              FreePort, Awake, ClosingPcs, ShuttingPcs
<1> QED  BY <1>2, <1>3, <1>4, <1>5, <1>6

\* Nobody opens a port again, and no event is forgotten.
LEMMA OneWay ==
  ASSUME MsgAssumption, Typed, [Next]_vars
  PROVE  (port'.inproc => port.inproc) /\ (nsig' = 0 => nsig = 0)
<1>1. port \in WidePort /\ nsig \in Nat
  BY DEF Typed, KernelTyped, MsgAssumption
<1>2. CASE UNCHANGED vars
  BY <1>2, SMTT(40) DEF vars
<1>3. ASSUME NEW c \in Clients, ClientCalls(c) \/ ClientRuns(c)
      PROVE  port'.inproc = port.inproc /\ nsig' = nsig
  BY <1>1, <1>3, ZenonT(40)
     DEF ClientCalls, ClientRuns, MsgConnect, MsgConnectDone, SendFind, SendPost, SendDone, SendMap,
         CopyDone, MapFails, IntrGone, IntrWithdraw, IntrAbort, IntrDone, AbortDone, FindBroken,
         CloneFind, ClonePost, CloneDone, ForkPort, MsgDisconnect, ShutClient,
         ShutDone, Enqueue, WidePort
<1>4. ASSUME NEW s \in Servers, RecvFind(s) \/ ServerRuns(s) \/ ClosePort(s)
      PROVE  (port'.inproc => port.inproc) /\ nsig' = nsig
  <2>1. CASE RecvTake(s)
    BY <1>1, <2>1 DEF RecvTake, RefPort, DerefPort, WidePort
  <2>2. CASE ~RecvTake(s)
    BY <1>1, <1>4, <2>2, SMTT(40)
       DEF ServerRuns, RecvFind, RecvWait, RecvBroken, RecvNothing, RecvReturn, ReplyRuns, DupWake, DupHash,
           CloseName, Grab, Bounce, BounceEnd, CloseClient, CloseHash, FreePort, ClosePort, DerefPort, WidePort
  <2> QED  BY <2>1, <2>2
<1>5. ASSUME NEW s \in Servers, NEW m \in held, ServerAnswers(s, m)
      PROVE  port'.inproc = port.inproc /\ nsig' = nsig
  BY <1>1, <1>5, Zenon DEF ServerAnswers, MsgAccept, MsgErr, ReplyDone, ReplyDup, ReplyAbort, ReplyRefused,
                    RefPort, DerefPort, WidePort
<1>6. ASSUME NEW t \in Threads, Signal(t)
      PROVE  port'.inproc = port.inproc /\ nsig' # 0
  BY <1>1, <1>6 DEF Signal, WidePort
<1> QED  BY <1>2, <1>3, <1>4, <1>5, <1>6 DEF Next

\* A new port has neither units nor messages.
LEMMA UnitInit ==
  ASSUME MsgAssumption, Init
  PROVE  UnitInv
<1>1. port.wait = NewSema(0) /\ port.queue = << >> /\ Handed = {}
  BY DEF Init, Handed, Awake, Threads
<1>2. QueueDistinct(port.wait) /\ CountIsQueue(port.wait) /\ \A s \in Servers : ~Queued(port.wait, s)
  BY <1>1, NewSemaOK
<1>3. (\A t \in Threads : ~intr[t]) /\ \A s \in Servers : pc[s] \notin ClosingPcs
  BY DEF Init, ClosingPcs, ShuttingPcs, Threads
<1>4. IsFiniteSet(Handed) /\ Cardinality(Handed) = 0 /\ port.wait.cnt = 0 /\ Len(port.queue) = 0
  BY <1>1, FS_EmptySet DEF NewSema
<1> QED  BY <1>2, <1>3, <1>4, TypedInit DEF UnitInv, UnitsOK

\* p_wait stays in order.
LEMMA UnitStep ==
  ASSUME MsgAssumption, UnitInv, [Next]_vars
  PROVE  UnitInv'
<1>1. Typed /\ Typed'
  BY TypedStep DEF UnitInv
<1>2. ASSUME port'.inproc, nsig' = 0
      PROVE  UnitsOK'
  <2>1. UnitsOK /\ nsig \in Nat
    BY <1>1, <1>2, OneWay DEF UnitInv, Typed, MsgAssumption
  <2>2. CASE UNCHANGED vars
    BY <2>1, <2>2, WaitKept DEF vars, UnitsOK
  <2>3. ASSUME NEW s \in Servers, ClosePort(s)
        PROVE  FALSE
    BY <1>1, <1>2, <2>3 DEF ClosePort, Typed, KernelTyped, WidePort
  <2>4. ASSUME NEW t \in Threads, Signal(t)
        PROVE  FALSE
    BY <1>2, <2>1, <2>4 DEF Signal
  <2> QED  BY <1>1, <2>1, <2>2, <2>3, <2>4, ClientsCount, ServersCount DEF Next
<1> QED  BY <1>1, <1>2 DEF UnitInv

-----------------------------------------------------------------------------
(* The theorems.                                                           *)

\* Every step of msg_connect(), msg_send(), clone(), fork_ports(),
\* msg_disconnect(), msg_receive(), msg_reply(), msg_accept(), msg_err() and
\* shut_server() leaves the portrefs, the port, p_open[], the server's hash,
\* the sysmsgs and the threads in states the kernel has a name for, and a
\* thread in a call has the handle, the slot and the sysmsg which that call
\* goes on to use.
THEOREM MsgTyped == Spec => []Typed
<1>1. Init => Typed
  BY MsgAssumption, TypedInit
<1>2. Typed /\ [Next]_vars => Typed'
  BY MsgAssumption, TypedStep
<1> QED  BY <1>1, <1>2, PTL DEF Spec

\* As long as the port is open and no event has been sent, p_wait counts the
\* messages in the port's queue that no receiver has been let go for, and
\* each receiver that p_sema() or v_sema() has let go finds one of its own:
\* inline_lqueue_msg() and msg_receive() keep the two in step, whatever the
\* clients do.
THEOREM UnitsAreMessages == Spec => []UnitPerMessage
<1>1. Init => UnitInv
  BY MsgAssumption, UnitInit
<1>2. UnitInv /\ [Next]_vars => UnitInv'
  BY MsgAssumption, UnitStep
<1>3. UnitInv => UnitPerMessage
  BY DEF UnitInv, UnitsOK, UnitPerMessage, Handed
<1> QED  BY <1>1, <1>2, <1>3, PTL DEF Spec

-----------------------------------------------------------------------------
(* The protocol, as long as the port has its name and nobody closes a      *)
(* handle that another thread is using.                                    *)

Zero      == [cnt |-> 0, q |-> << >>]
One       == [cnt |-> 1, q |-> << >>]
Asleep(c) == [cnt |-> -1, q |-> <<c>>]

\* In a call on a handle, from the slot on; and one that has been posted.
Sending == {"find", "cfind", "iowait", "copy", "abwait", "kwait"}
Using(c)   == pc[c] \notin {"out", "closing"}
Waiting(c) == pc[c] = "opening" \/ InExchange(c)

\* Who keeps a slot reserved.
Reserving(c) == pc[c] \in {"opening", "cfind", "kwait"}

SlotsOf(r) == {k \in Slots : slots[k] = r}

\* Semaphore s is a mutex that the members of O own.
Mutex(s, O) ==
  /\ QueueDistinct(s) /\ CountIsQueue(s)
  /\ \/ O = {} /\ s.cnt = 1
     \/ s.cnt <= 0 /\ \E t \in O : O = {t}

ServerStays ==
  /\ port.named /\ doomed = << >>
  /\ \A s \in Servers : pc[s] \notin ShuttingPcs
  /\ \A r \in Refs : ref[r].alloc => ref[r].port

EventsOK ==
  /\ \A c \in Clients : intr[c] => pc[c] \in {"find", "cfind", "iowait"}
  /\ \A s \in Servers : intr[s] => pc[s] \in {"find", "rwait"}
  /\ \A c \in Clients : rep[c] # "none" => Waiting(c)
  /\ \A s \in Servers : pc[s] \in {"dupwake", "duphash"} => got[s].op = "DUP"

\* Does s own the port's mutex?
Receives(s) == \/ pc[s] \in {"rwait", "rcvd"}
               \/ pc[s] = "find" /\ ~Queued(port.sema, s) /\ ~intr[s]
               \/ pc[s] = "dport" /\ ~Queued(port.sema, s)
Receivers == {s \in Servers : Receives(s)}

PortOK ==
  /\ Mutex(port.sema, Receivers)
  /\ \A s \in Servers : Queued(port.sema, s) => pc[s] \in {"find", "dport"} /\ ~intr[s]

\* Slots, handles and who uses them.
SlotsKept ==
  \A c \in Clients : Reserving(c) =>
    /\ slots[my[c].slot] = Reserved
    /\ \A d \in Clients : Reserving(d) /\ d # c => my[d].slot # my[c].slot

HandlesKept ==
  \A r \in Refs : SlotsOf(r) # {} =>
    /\ ref[r].alloc /\ ref[r].state \notin {"OPENING", "CLOSING"}
    /\ IsFiniteSet(SlotsOf(r)) /\ ref[r].refs = Cardinality(SlotsOf(r))

UsersOK ==
  \A c \in Clients : Using(c) =>
    /\ ref[R(c)].alloc /\ ref[R(c)].state # "CLOSING"
    /\ pc[c] \in Sending => SlotsOf(R(c)) # {}

AloneOK ==
  \A c \in Clients : pc[c] \in {"opening", "shut"} =>
    /\ SlotsOf(R(c)) = {}
    /\ pc[c] = "opening" => ref[R(c)].refs = 1
    /\ \A d \in Clients : Using(d) /\ d # c => R(d) # R(c)

NewOK ==
  \A c \in Clients : pc[c] = "kwait" =>
    /\ ref[my[c].new].alloc /\ ref[my[c].new].state \notin {"OPENING", "CLOSING"}
    /\ ref[my[c].new].refs = 1 /\ SlotsOf(my[c].new) = {}
    /\ \A d \in Clients : Using(d) => R(d) # my[c].new
    /\ \A d \in Clients : pc[d] = "kwait" /\ d # c => my[d].new # my[c].new

TablesOK == SlotsKept /\ HandlesKept /\ UsersOK /\ AloneOK /\ NewOK

Owners(r) == {c \in Clients : Owns(c, r)}

MutexOK(r) ==
  /\ ref[r].alloc /\ ref[r].state # "CLOSING" => Mutex(ref[r].sema, Owners(r))
  /\ \A c \in Clients : Queued(ref[r].sema, c) =>
       pc[c] \in {"find", "cfind"} /\ R(c) = r /\ ~intr[c]

MutexesOK == \A r \in Refs : MutexOK(r)

\* Where a call stands: x is its handle, a the answer so far, e whether an
\* event has ended its sleep.
CallAt(l, x, a, e, c) ==
  /\ l = "opening" =>
       \/ x.state = "OPENING" /\ x.iowait = Asleep(c) /\ a = "none"
       \/ x.state = "ABDONE" /\ x.iowait = Zero
       \/ x.state = "IODONE" /\ x.iowait = Zero /\ a = "none"
  /\ l = "iowait" =>
       \/ x.state = "IOWAIT" /\ a = "none" /\ x.iowait = IF e THEN Zero ELSE Asleep(c)
       \/ x.state = "IODONE" /\ a # "none" /\ x.iowait = IF e THEN One ELSE Zero
  /\ l = "abwait" =>
       /\ a = "none"
       /\ \/ x.state = "ABWAIT" /\ x.iowait = Asleep(c)
          \/ x.state = "ABDONE" /\ x.iowait = Zero
  /\ l = "copy" => x.state = "IODONE" /\ x.iowait = Zero /\ a = "segs"
  /\ l = "kwait" =>
       \/ x.state = "IOWAIT" /\ x.iowait = Asleep(c) /\ a = "none"
       \/ x.state = "IODONE" /\ a \in {"ok", "err"} /\ x.iowait \in {Zero, Asleep(c)}
  /\ l = "copy" \/ (l = "iowait" /\ a = "segs") => x.svwait.q # << >>

Resting(x) == x.state \in {"IODONE", "ABDONE"} /\ x.iowait = Zero

\* A client that has been granted a DUP, and not been woken yet.
DupOwed(c) == pc[c] = "kwait" /\ X(c).state = "IODONE" /\ X(c).iowait = Asleep(c)

CallsOK ==
  /\ \A c \in Clients : Waiting(c) => CallAt(pc[c], X(c), rep[c], intr[c], c)
  /\ \A r \in Refs : ref[r].alloc /\ ref[r].state # "CLOSING" =>
       Resting(ref[r]) \/ \E c \in Clients : Waiting(c) /\ R(c) = r
  /\ \A s \in Servers : pc[s] = "dupwake" =>
       /\ \E c \in Clients : R(c) = got[s].pr /\ DupOwed(c)
       /\ \A u \in Servers : pc[u] = "dupwake" /\ u # s => got[u].pr # got[s].pr

\* The states of a handle with such a message under way.
StatesOf(op) == CASE op = "CONNECT"    -> {"OPENING"}
                  [] op = "IO"         -> {"IOWAIT", "ABWAIT"}
                  [] op = "DUP"        -> {"IOWAIT"}
                  [] op = "ABORT"      -> {"ABWAIT"}
                  [] op = "DISCONNECT" -> {"CLOSING"}

InHands == {got[s] : s \in {s \in Servers : pc[s] = "rcvd"}}

Known(m) ==
  /\ ref[m.pr].alloc /\ ref[m.pr].state \in StatesOf(m.op)
  /\ m.op # "DISCONNECT" => R(m.from) = m.pr /\ pc[m.from] \in WaitsFor(m.op)
  /\ m.op = "DUP" => m.new = my[m.from].new

\* m asks for n to be aborted.
Aborts(m, n) == m.op = "ABORT" /\ n.op = "IO"

Spread(q) == \A i, j \in 1..Len(q) : i # j => q[i].pr # q[j].pr

MessagesOK ==
  /\ Spread(port.queue)
  /\ \A m \in ToSet(port.queue) \cup InHands \cup held : Known(m)
  /\ \A m \in ToSet(port.queue), n \in InHands \cup held : m.pr = n.pr => Aborts(m, n)
  /\ \A m \in InHands, h \in held : m.pr = h.pr => Aborts(m, h)
  /\ \A g, h \in held : g.pr = h.pr /\ g # h => Aborts(g, h) \/ Aborts(h, g)
  /\ \A m \in InHands \cup held : m.op # "ABORT" /\ ref[m.pr].state # "ABWAIT" => ref[m.pr].msg = m
  /\ \A h \in held : h.op # "DISCONNECT"

Protocol == /\ ServerStays /\ EventsOK /\ PortOK
            /\ TablesOK /\ MutexesOK /\ CallsOK /\ MessagesOK

Inv == Typed /\ Protocol

-----------------------------------------------------------------------------
(* Semaphores that are used as mutexes.                                    *)

\* p_sema() on a mutex: the caller owns it, or waits for it.
LEMMA MutexEnter ==
  ASSUME NEW T, NEW s \in SemaType(T), NEW O \in SUBSET T, NEW t \in T,
         Mutex(s, O), ~Queued(s, t), t \notin O
  PROVE  /\ Mutex(PSema(s, t), IF s.cnt > 0 THEN O \cup {t} ELSE O)
         /\ \A u \in T : Queued(PSema(s, t), u) <=> Queued(s, u) \/ (u = t /\ ~(s.cnt > 0))
<1>1. QueueDistinct(s) /\ CountIsQueue(s) /\ s.cnt \in Int
  BY DEF Mutex, SemaType
<1>2. CASE s.cnt > 0
  <2>1. Free(s)
    BY <1>2 DEF Free
  <2>2. O = {} /\ s.cnt = 1
    BY <1>1, <1>2 DEF Mutex
  <2>3. PSema(s, t).cnt = s.cnt - 1 /\ CountIsQueue(PSema(s, t)) /\ QueueDistinct(PSema(s, t))
        /\ \A u \in T : Queued(PSema(s, t), u) <=> Queued(s, u)
    BY <1>1, <2>1, TakeOK
  <2> QED  BY <1>2, <2>2, <2>3 DEF Mutex
<1>3. CASE ~(s.cnt > 0)
  <2>1. ~Free(s)
    BY <1>3 DEF Free
  <2>2. PSema(s, t).cnt = s.cnt - 1 /\ CountIsQueue(PSema(s, t)) /\ QueueDistinct(PSema(s, t))
        /\ \A u \in T : Queued(PSema(s, t), u) <=> Queued(s, u) \/ u = t
    BY <1>1, <2>1, WaitOK
  <2> QED  BY <1>1, <1>3, <2>2 DEF Mutex
<1> QED  BY <1>2, <1>3

\* v_sema() by the owner: the first in line owns it now, if there is one.
LEMMA MutexLeave ==
  ASSUME NEW T, NEW s \in SemaType(T), NEW t \in T, Mutex(s, {t})
  PROVE  \E O \in SUBSET T :
           /\ Mutex(VSema(s), O)
           /\ \A u \in T : u \in O <=> Queued(s, u) /\ ~Queued(VSema(s), u)
           /\ \A u \in T : Queued(VSema(s), u) => Queued(s, u)
<1>1. QueueDistinct(s) /\ CountIsQueue(s) /\ s.cnt \in Int /\ s.cnt <= 0
  BY DEF Mutex, SemaType
<1>2. CASE s.q = << >>
  <2>1. VSema(s).cnt = s.cnt + 1 /\ s.cnt >= 0 /\ CountIsQueue(VSema(s)) /\ QueueDistinct(VSema(s))
        /\ \A u \in T : Queued(VSema(s), u) <=> Queued(s, u)
    BY <1>1, <1>2, GiveFreeOK
  <2>2. Mutex(VSema(s), {})
    BY <1>1, <2>1 DEF Mutex
  <2> QED  BY <2>1, <2>2
<1>3. CASE s.q # << >>
  <2>1. PICK h : h = Head(s.q)
    OBVIOUS
  <2>2. /\ VSema(s).cnt = s.cnt + 1 /\ s.cnt < 0 /\ CountIsQueue(VSema(s)) /\ QueueDistinct(VSema(s))
        /\ h \in T /\ Queued(s, h)
        /\ \A u \in T : Queued(VSema(s), u) <=> Queued(s, u) /\ u # h
    BY <1>1, <1>3, <2>1, GiveOK
  <2>3. Mutex(VSema(s), {h})
    BY <1>1, <2>2 DEF Mutex
  <2> QED  BY <2>2, <2>3
<1> QED  BY <1>2, <1>3

\* cunsleep() of one who waits.
LEMMA MutexBreak ==
  ASSUME NEW T, NEW s \in SemaType(T), NEW O \in SUBSET T, NEW t \in T, Mutex(s, O), Queued(s, t)
  PROVE  /\ Mutex(Cunsleep(s, t), O)
         /\ \A u \in T : Queued(Cunsleep(s, t), u) <=> Queued(s, u) /\ u # t
<1>1. QueueDistinct(s) /\ CountIsQueue(s) /\ s.cnt \in Int
  BY DEF Mutex, SemaType
<1>2. /\ Cunsleep(s, t).cnt = s.cnt + 1 /\ s.cnt < 0 /\ CountIsQueue(Cunsleep(s, t))
      /\ QueueDistinct(Cunsleep(s, t))
      /\ \A u \in T : Queued(Cunsleep(s, t), u) <=> Queued(s, u) /\ u # t
  BY <1>1, CunsleepOK
<1> QED  BY <1>1, <1>2 DEF Mutex

\* A mutex has one owner at most.
LEMMA OneOwner ==
  ASSUME NEW s, NEW O, Mutex(s, O), NEW t \in O, NEW u \in O
  PROVE  t = u /\ O = {t} /\ s.cnt <= 0
BY DEF Mutex

-----------------------------------------------------------------------------
(* The port's mutex.                                                       *)

\* Steps that leave it alone.
LEMMA PortKept ==
  ASSUME PortOK, port'.sema = port.sema, \A s \in Servers : Receives(s)' <=> Receives(s),
         \A s \in Servers : Queued(port.sema, s) => pc'[s] = pc[s] /\ intr'[s] = intr[s]
  PROVE  PortOK'
<1>1. Receivers' = Receivers
  BY DEF Receivers
<1> QED  BY <1>1 DEF PortOK

\* msg_receive(), from find_port() to the way out, and delete_port().
LEMMA ReceiveKeepsPort ==
  ASSUME MsgAssumption, Inv, NEW s \in Servers,
         \/ RecvFind(s) \/ RecvWait(s) \/ RecvBroken(s) \/ RecvTake(s) \/ RecvNothing(s) \/ RecvReturn(s)
         \/ ClosePort(s)
  PROVE  PortOK'
<1>0. /\ pc \in [Threads -> ClientPcs \cup ServerPcs] /\ intr \in [Threads -> BOOLEAN]
      /\ s \in Threads /\ \A u \in Servers : u \in Threads
      /\ port \in WidePort /\ PortOK /\ EventsOK
  BY DEF Inv, Protocol, Typed, ThreadsTyped, KernelTyped, Threads
<1>1. PICK w : w = port.sema
  OBVIOUS
<1>2. w \in SemaType(Servers) /\ Mutex(w, Receivers) /\ Receivers \in SUBSET Servers
      /\ \A u \in Servers : Queued(w, u) => pc[u] \in {"find", "dport"} /\ ~intr[u]
  BY <1>0, <1>1 DEF PortOK, WidePort, Receivers
<1>3. \A u \in Servers : u \in Receivers <=> \/ pc[u] \in {"rwait", "rcvd"}
                                             \/ pc[u] = "find" /\ ~Queued(w, u) /\ ~intr[u]
                                             \/ pc[u] = "dport" /\ ~Queued(w, u)
  BY <1>1 DEF Receivers, Receives
<1>4. CASE RecvFind(s) \/ ClosePort(s)
  <2>1. pc[s] = "out" /\ ~intr[s] /\ ~Queued(w, s) /\ s \notin Receivers
    BY <1>0, <1>2, <1>3, <1>4 DEF RecvFind, ClosePort, EventsOK
  <2>2. PICK l \in {"find", "dport"} :
          port'.sema = PSema(w, s) /\ pc' = [pc EXCEPT ![s] = l] /\ intr' = intr
    BY <1>0, <1>1, <1>4 DEF RecvFind, ClosePort, WidePort, Goto
  <2>3. /\ Mutex(PSema(w, s), IF w.cnt > 0 THEN Receivers \cup {s} ELSE Receivers)
        /\ \A u \in Servers : Queued(PSema(w, s), u) <=> Queued(w, u) \/ (u = s /\ ~(w.cnt > 0))
    BY <1>2, <2>1, MutexEnter
  <2>4. \A u \in Servers : u \in Receivers' <=> u \in Receivers \/ (u = s /\ w.cnt > 0)
    BY <1>0, <1>3, <2>1, <2>2, <2>3 DEF Receivers, Receives
  <2>5. Receivers' = IF w.cnt > 0 THEN Receivers \cup {s} ELSE Receivers
    BY <1>2, <2>4 DEF Receivers
  <2> QED  BY <1>0, <1>2, <2>1, <2>2, <2>3, <2>5 DEF PortOK
<1>5. ASSUME pc[s] = "rwait" \/ pc[s] = "rcvd", port'.sema = VSema(w), pc' = [pc EXCEPT ![s] = "out"],
             intr' = intr \/ NoEvent(s)
      PROVE  PortOK'
  <2>1. s \in Receivers
    BY <1>3, <1>5
  <2>2. Receivers = {s}
    BY <1>2, <2>1, OneOwner
  <2>3. PICK O \in SUBSET Servers :
           /\ Mutex(VSema(w), O)
           /\ \A u \in Servers : u \in O <=> Queued(w, u) /\ ~Queued(VSema(w), u)
           /\ \A u \in Servers : Queued(VSema(w), u) => Queued(w, u)
    BY <1>2, <2>2, MutexLeave
  <2>4. \A u \in Servers : u # s => pc'[u] = pc[u] /\ intr'[u] = intr[u] /\ u \notin Receivers
    BY <1>0, <1>5, <2>2 DEF NoEvent
  <2>5. ~Queued(w, s) /\ pc'[s] = "out"
    BY <1>0, <1>2, <1>5
  <2>6. \A u \in Servers : u \in Receivers' <=> u \in O
    BY <1>2, <1>3, <1>5, <2>3, <2>4, <2>5 DEF Receivers, Receives
  <2>7. Receivers' = O
    BY <2>6 DEF Receivers
  <2> QED  BY <1>2, <1>5, <2>3, <2>4, <2>5, <2>7 DEF PortOK
<1>6. CASE RecvWait(s) \/ RecvTake(s) \/ RecvNothing(s) \/ (Broken(s, "find") /\ RecvBroken(s))
  <2>1. port'.sema = w
    <3>1. CASE RecvTake(s)
      BY <1>0, <1>1, <3>1 DEF RecvTake, RefPort, DerefPort, WidePort
    <3>2. CASE ~RecvTake(s)
      BY <1>0, <1>1, <1>6, <3>2 DEF RecvWait, RecvNothing, RecvBroken, Broken, WidePort
    <3> QED  BY <3>1, <3>2
  <2>2. \/ pc' = pc /\ intr' = intr
        \/ s \in Receivers /\ intr' = intr /\ \E l \in {"rwait", "rcvd"} : pc' = [pc EXCEPT ![s] = l]
        \/ pc[s] = "find" /\ intr[s] /\ intr' = [intr EXCEPT ![s] = FALSE] /\ pc' = [pc EXCEPT ![s] = "out"]
    BY <1>1, <1>3, <1>6 DEF RecvWait, RecvTake, RecvNothing, RecvBroken, Broken, Awake, Goto, NoEvent
  <2>3. ~Queued(w, s) \/ (pc' = pc /\ intr' = intr)
    BY <1>2, <1>3, <2>2
  <2>4. \A u \in Servers : Receives(u)' <=> Receives(u)
    BY <1>0, <1>1, <1>3, <2>1, <2>2 DEF Receives, Receivers
  <2> QED  BY <1>0, <1>1, <2>1, <2>2, <2>3, <2>4, PortKept
<1>7. CASE RecvReturn(s)
  BY <1>0, <1>1, <1>5, <1>7 DEF RecvReturn, WidePort, Goto
<1>8. CASE RecvBroken(s) /\ Broken(s, "rwait")
  BY <1>0, <1>1, <1>5, <1>8 DEF RecvBroken, Broken, WidePort, Goto
<1>9. RecvBroken(s) => Broken(s, "find") \/ Broken(s, "rwait")
  BY DEF RecvBroken
<1> QED  BY <1>4, <1>6, <1>7, <1>8, <1>9

-----------------------------------------------------------------------------
(* Slots and handles.                                                      *)

\* Calls go on, are woken, or end; handles nobody uses may come and go.
LEMMA TablesFrame ==
  ASSUME MsgAssumption, LocalsSet, TablesOK,
         \A d \in Clients : Using(d)' =>
           /\ Using(d) /\ my'[d].slot = my[d].slot /\ my'[d].pr = my[d].pr /\ my'[d].new = my[d].new
           /\ \/ pc'[d] = pc[d]
              \/ pc[d] \in Sending /\ pc'[d] \in {"iowait", "copy", "abwait"},
         \A k \in Slots :
           \/ slots'[k] = slots[k]
           \/ /\ slots[k] \notin Refs /\ slots'[k] \notin Refs
              /\ \A d \in Clients : Reserving(d)' => my[d].slot # k,
         \A r \in Refs :
           \/ /\ ref'[r].alloc = ref[r].alloc /\ ref'[r].refs = ref[r].refs
              /\ \/ ref'[r].state = ref[r].state
                 \/ ref[r].state # "CLOSING" /\ ref'[r].state \notin {"OPENING", "CLOSING"}
           \/ /\ SlotsOf(r) = {}
              /\ \A d \in Clients : Using(d)' => my[d].pr # r /\ (pc[d] = "kwait" => my[d].new # r)
  PROVE  TablesOK'
<1>1. \A r \in Refs : SlotsOf(r)' = SlotsOf(r)
  BY DEF SlotsOf, MsgAssumption
<1>2. \A d \in Clients : /\ Reserving(d)' => Reserving(d) /\ Using(d)'
                         /\ pc'[d] \in {"opening", "shut", "kwait"} => pc'[d] = pc[d] /\ Using(d)'
                         /\ Using(d) => R(d) \in Refs
                         /\ pc[d] = "kwait" => my[d].new \in Refs
                         /\ Reserving(d) => my[d].slot \in Slots
                         /\ Using(d)' => R(d)' = R(d)
  BY DEF Reserving, Using, LocalsSet, R
<1>3. SlotsKept'
  BY <1>2 DEF SlotsKept, TablesOK
<1>4. HandlesKept'
  BY <1>1 DEF HandlesKept, TablesOK
<1>5. UsersOK'
  <2> SUFFICES ASSUME NEW c \in Clients, Using(c)'
               PROVE  /\ ref'[R(c)'].alloc /\ ref'[R(c)'].state # "CLOSING"
                      /\ pc'[c] \in Sending => SlotsOf(R(c))' # {}
    BY DEF UsersOK
  <2>0. Using(c)
    OBVIOUS
  <2>1. PICK r \in Refs : r = R(c) /\ r = R(c)' /\ r = my[c].pr
    BY <1>2, <2>0 DEF R
  <2>2. ref[r].alloc /\ ref[r].state # "CLOSING" /\ (pc[c] \in Sending => SlotsOf(r) # {})
    <3>1. ref[R(c)].alloc /\ ref[R(c)].state # "CLOSING" /\ (pc[c] \in Sending => SlotsOf(R(c)) # {})
      BY <2>0, Zenon DEF UsersOK, TablesOK
    <3> QED  BY <2>1, <3>1
  <2>3. pc'[c] \in Sending => pc[c] \in Sending
    OBVIOUS
  <2>4. SlotsOf(r)' = SlotsOf(r)
    BY <1>1
  <2>5. ref'[r].alloc /\ ref'[r].state # "CLOSING"
    BY <2>1, <2>2
  <2>6. SlotsOf(R(c))' = SlotsOf(r)'
    BY <2>1 DEF SlotsOf
  <2> QED  BY <2>1, <2>2, <2>3, <2>4, <2>5, <2>6
<1>6. AloneOK'
  <2> SUFFICES ASSUME NEW c \in Clients, pc'[c] \in {"opening", "shut"}
               PROVE  /\ SlotsOf(R(c))' = {}
                      /\ pc'[c] = "opening" => ref'[R(c)'].refs = 1
                      /\ \A d \in Clients : Using(d)' /\ d # c => R(d)' # R(c)'
    BY DEF AloneOK
  <2>1. PICK r \in Refs : r = R(c) /\ r = R(c)' /\ r = my[c].pr /\ pc'[c] = pc[c]
    BY <1>2 DEF R
  <2>2. /\ SlotsOf(r) = {} /\ (pc[c] = "opening" => ref[r].refs = 1)
        /\ \A d \in Clients : Using(d) /\ d # c => R(d) # r
    <3>1. pc[c] \in {"opening", "shut"} /\ AloneOK
      BY <2>1 DEF TablesOK
    <3>2. /\ SlotsOf(R(c)) = {} /\ (pc[c] = "opening" => ref[R(c)].refs = 1)
          /\ \A d \in Clients : Using(d) /\ d # c => R(d) # R(c)
      BY <3>1, Zenon DEF AloneOK
    <3> QED  BY <2>1, <3>2
  <2>3. SlotsOf(r)' = SlotsOf(r)
    BY <1>1
  <2>4. SlotsOf(R(c))' = SlotsOf(r)'
    BY <2>1 DEF SlotsOf
  <2>5. Using(c)'
    BY <1>2
  <2>6. pc'[c] = "opening" => ref'[r].refs = 1
    BY <2>1, <2>2, <2>5
  <2> QED  BY <1>2, <2>1, <2>2, <2>3, <2>4, <2>6
<1>7. NewOK'
  <2> SUFFICES ASSUME NEW c \in Clients, pc'[c] = "kwait"
               PROVE  /\ ref'[my'[c].new].alloc /\ ref'[my'[c].new].state \notin {"OPENING", "CLOSING"}
                      /\ ref'[my'[c].new].refs = 1 /\ SlotsOf(my[c].new)' = {}
                      /\ \A d \in Clients : Using(d)' => R(d)' # my'[c].new
                      /\ \A d \in Clients : pc'[d] = "kwait" /\ d # c => my'[d].new # my'[c].new
    BY DEF NewOK
  <2>1. PICK n \in Refs : n = my[c].new /\ n = my'[c].new /\ pc[c] = "kwait" /\ Using(c)'
    BY <1>2
  <2>2. /\ ref[n].alloc /\ ref[n].state \notin {"OPENING", "CLOSING"} /\ ref[n].refs = 1 /\ SlotsOf(n) = {}
        /\ \A d \in Clients : Using(d) => R(d) # n
        /\ \A d \in Clients : pc[d] = "kwait" /\ d # c => my[d].new # n
    BY <2>1 DEF NewOK, TablesOK
  <2>3. SlotsOf(my[c].new)' = SlotsOf(n)'
    BY <2>1 DEF SlotsOf
  <2>4. ref'[n].alloc /\ ref'[n].state \notin {"OPENING", "CLOSING"} /\ ref'[n].refs = 1
    BY <2>1, <2>2
  <2> QED  BY <1>1, <1>2, <2>1, <2>2, <2>3, <2>4
<1> QED  BY <1>3, <1>4, <1>5, <1>6, <1>7 DEF TablesOK

-----------------------------------------------------------------------------
(* The mutexes of the handles.                                             *)

\* Those who wait for r or own it go on doing so, and nobody else does.
LEMMA MutexKept ==
  ASSUME NEW r \in Refs, MutexOK(r), ref'[r].sema = ref[r].sema,
         ref'[r].alloc /\ ref'[r].state # "CLOSING" => ref[r].alloc /\ ref[r].state # "CLOSING",
         \A d \in Clients :
           \/ pc'[d] = pc[d] /\ my'[d].pr = my[d].pr /\ intr'[d] = intr[d]
           \/ ~Queued(ref[r].sema, d) /\ (Owns(d, r)' <=> Owns(d, r))
  PROVE  MutexOK(r)'
<1>1. \A d \in Clients : Owns(d, r)' <=> Owns(d, r)
  BY DEF Owns, R
<1>2. Owners(r)' = Owners(r)
  BY <1>1 DEF Owners
<1> QED  BY <1>2 DEF MutexOK, R

\* A new handle, or memory that was one.
LEMMA MutexFresh ==
  ASSUME NEW r \in Refs, \A d \in Clients : ~Owns(d, r)',
         \/ ref'[r].alloc /\ ref'[r].sema = NewSema(1)
         \/ ~ref'[r].alloc /\ ref'[r].sema = NewSema(0)
  PROVE  MutexOK(r)'
<1>1. \A n \in {0, 1} : /\ QueueDistinct(NewSema(n)) /\ CountIsQueue(NewSema(n)) /\ NewSema(n).cnt = n
                        /\ \A t \in Clients : ~Queued(NewSema(n), t)
  BY NewSemaOK DEF NewSema
<1>2. Owners(r)' = {}
  BY DEF Owners
<1> QED  BY <1>1, <1>2 DEF MutexOK, Mutex

\* find_portref().
LEMMA MutexTaken ==
  ASSUME NEW c \in Clients, NEW r \in Refs, MutexOK(r), ref \in [Refs -> WideRef],
         ref[r].alloc, ref[r].state # "CLOSING", ref'[r].sema = PSema(ref[r].sema, c),
         pc[c] = "out", pc'[c] \in {"find", "cfind"}, my'[c].pr = r, ~intr[c], ~intr'[c],
         \A d \in Clients : d # c => pc'[d] = pc[d] /\ my'[d].pr = my[d].pr /\ intr'[d] = intr[d]
  PROVE  MutexOK(r)'
<1>1. PICK s : s = ref[r].sema
  OBVIOUS
<1>2. s \in SemaType(Clients) /\ Mutex(s, Owners(r)) /\ Owners(r) \in SUBSET Clients
      /\ ~Queued(s, c) /\ c \notin Owners(r)
  BY <1>1 DEF WideRef, MutexOK, Owners, Owns
<1>3. /\ Mutex(PSema(s, c), IF s.cnt > 0 THEN Owners(r) \cup {c} ELSE Owners(r))
      /\ \A u \in Clients : Queued(PSema(s, c), u) <=> Queued(s, u) \/ (u = c /\ ~(s.cnt > 0))
  BY <1>2, MutexEnter
<1>4. \A d \in Clients : d # c => (Owns(d, r)' <=> Owns(d, r))
  BY <1>1, <1>3 DEF Owns, R
<1>5. Owns(c, r)' <=> s.cnt > 0
  BY <1>1, <1>2, <1>3 DEF Owns, R
<1>6. Owners(r)' = IF s.cnt > 0 THEN Owners(r) \cup {c} ELSE Owners(r)
  <2>1. \A d \in Clients : Owns(d, r)' <=> Owns(d, r) \/ (d = c /\ s.cnt > 0)
    BY <1>2, <1>4, <1>5 DEF Owners
  <2> QED  BY <2>1 DEF Owners
<1> QED  BY <1>1, <1>3, <1>6 DEF MutexOK, R

\* v_sema() at out1.
LEMMA MutexGiven ==
  ASSUME NEW c \in Clients, NEW r \in Refs, MutexOK(r), ref \in [Refs -> WideRef],
         ref[r].alloc, ref[r].state # "CLOSING", Owns(c, r), ref'[r].sema = VSema(ref[r].sema),
         pc'[c] = "out",
         \A d \in Clients : d # c => pc'[d] = pc[d] /\ my'[d].pr = my[d].pr /\ intr'[d] = intr[d]
  PROVE  MutexOK(r)'
<1>1. PICK s : s = ref[r].sema
  OBVIOUS
<1>2. s \in SemaType(Clients) /\ Mutex(s, Owners(r)) /\ c \in Owners(r)
      /\ \A u \in Clients : Queued(s, u) => pc[u] \in {"find", "cfind"} /\ R(u) = r /\ ~intr[u]
  BY <1>1 DEF WideRef, MutexOK, Owners
<1>3. Owners(r) = {c} /\ Mutex(s, {c})
  <2>1. Owners(r) = {c}
    BY <1>2, OneOwner
  <2> QED  BY <1>2, <2>1
<1>4. PICK O \in SUBSET Clients :
           /\ Mutex(VSema(s), O)
           /\ \A u \in Clients : u \in O <=> Queued(s, u) /\ ~Queued(VSema(s), u)
           /\ \A u \in Clients : Queued(VSema(s), u) => Queued(s, u)
  BY <1>2, <1>3, MutexLeave
<1>5. ~Queued(s, c)
  BY <1>1, <1>2 DEF Owns
<1>6. \A d \in Clients : d # c => ~Owns(d, r)
  BY <1>3 DEF Owners
<1>7. \A d \in Clients : Owns(d, r)' <=> d \in O
  <2>1. ASSUME NEW d \in Clients, d # c
        PROVE  Owns(d, r)' <=> d \in O
    BY <1>1, <1>2, <1>4, <1>6, <2>1 DEF Owns, R
  <2>2. ~Owns(c, r)' /\ c \notin O
    BY <1>4, <1>5 DEF Owns
  <2> QED  BY <2>1, <2>2
<1>8. Owners(r)' = O
  BY <1>7 DEF Owners
<1> QED  BY <1>1, <1>2, <1>4, <1>5, <1>8 DEF MutexOK, R

-----------------------------------------------------------------------------
(* The calls.                                                              *)

\* Does c have the handle of its call for itself?
Has(c) == pc[c] = "opening" \/ Owns(c, R(c))

\* A handle is never in two such calls.
LEMMA OneCall ==
  ASSUME MsgAssumption, Inv, NEW c \in Clients, NEW d \in Clients, R(c) = R(d), Has(c), Has(d)
  PROVE  c = d
<1>1. Using(c) /\ Using(d)
  BY DEF Has, Owns, Using
<1>2. CASE pc[c] = "opening" \/ pc[d] = "opening"
  <2>1. AloneOK
    BY DEF Inv, Protocol, TablesOK
  <2> QED  BY <1>1, <1>2, <2>1, Zenon DEF AloneOK
<1>3. CASE pc[c] # "opening" /\ pc[d] # "opening"
  <2>1. PICK r \in Refs : r = R(c) /\ r = R(d)
    BY <1>1 DEF Inv, Protocol, Typed, LocalsSet, Using
  <2>2. c \in Owners(r) /\ d \in Owners(r)
    BY <1>3, <2>1 DEF Has, Owners
  <2>3. ref[R(c)].alloc /\ ref[R(c)].state # "CLOSING"
    BY <1>1 DEF Inv, Protocol, TablesOK, UsersOK
  <2>4. Mutex(ref[r].sema, Owners(r))
    BY <2>1, <2>3 DEF Inv, Protocol, MutexesOK, MutexOK
  <2> QED  BY <2>2, <2>4, OneOwner
<1> QED  BY <1>2, <1>3

\* A call that waits has the handle for itself.
LEMMA WaitersHave ==
  ASSUME NEW c \in Clients, Waiting(c)
  PROVE  Has(c)
BY DEF Waiting, Has, InExchange, Owns

\* c, which alone calls on handle r, goes on; nobody else is touched.
LEMMA CallsMove ==
  ASSUME MsgAssumption, Inv, NEW c \in Clients, NEW r \in Refs,
         \A d \in Clients : d # c => /\ pc'[d] = pc[d] /\ my'[d].pr = my[d].pr
                                     /\ rep'[d] = rep[d] /\ intr'[d] = intr[d],
         \A d \in Clients : d # c /\ Waiting(d) => R(d) # r,
         Waiting(c) => R(c) = r, ~DupOwed(c),
         \A p \in Refs : p # r =>
           \/ /\ ref'[p].alloc = ref[p].alloc /\ ref'[p].state = ref[p].state
              /\ ref'[p].iowait = ref[p].iowait /\ ref'[p].svwait = ref[p].svwait
           \/ /\ Resting(ref'[p]) \/ ~ref'[p].alloc
              /\ \A d \in Clients : Waiting(d) => R(d) # p,
         Waiting(c)' => my'[c].pr = r /\ CallAt(pc'[c], ref'[r], rep'[c], intr'[c], c),
         ~Waiting(c)' => Resting(ref'[r]) \/ ~ref'[r].alloc \/ ref'[r].state = "CLOSING",
         \A s \in Servers : pc'[s] = pc[s], got' = got
  PROVE  CallsOK'
<1>0. CallsOK /\ \A d \in Clients : Waiting(d) => R(d) \in Refs
  BY DEF Inv, Protocol, Typed, LocalsSet, Waiting, InExchange
<1>1. \A d \in Clients : d # c => (Waiting(d)' <=> Waiting(d)) /\ R(d)' = R(d)
  BY DEF Waiting, InExchange, R
<1>2. \A d \in Clients : d # c /\ Waiting(d) =>
        /\ ref'[R(d)].state = ref[R(d)].state
        /\ ref'[R(d)].iowait = ref[R(d)].iowait /\ ref'[R(d)].svwait = ref[R(d)].svwait
  BY <1>0
<1>3. ASSUME NEW d \in Clients, Waiting(d)'
      PROVE  CallAt(pc[d], X(d), rep[d], intr[d], d)'
  <2>1. CASE d = c
    BY <1>3, <2>1 DEF X
  <2>2. CASE d # c
    <3>1. PICK p, x, y : p = R(d) /\ x = ref[p] /\ y = ref'[p] /\ p = my'[d].pr
      BY <1>1, <2>2 DEF R
    <3>2. Waiting(d) /\ y.state = x.state /\ y.iowait = x.iowait /\ y.svwait = x.svwait
      BY <1>1, <1>2, <1>3, <2>2, <3>1
    <3>3. CallAt(pc[d], x, rep[d], intr[d], d)
      BY <1>0, <3>1, <3>2 DEF CallsOK, X, R
    <3>4. CallAt(pc[d], y, rep[d], intr[d], d)
      BY <3>2, <3>3 DEF CallAt
    <3>5. X(d)' = y
      BY <3>1 DEF X
    <3> QED  BY <2>2, <3>4, <3>5
  <2> QED  BY <2>1, <2>2
<1>4. ASSUME NEW p \in Refs, ref'[p].alloc, ref'[p].state # "CLOSING"
      PROVE  Resting(ref'[p]) \/ \E d \in Clients : Waiting(d)' /\ R(d)' = p
  <2>1. CASE p = r
    BY <1>4, <2>1 DEF R
  <2>2. CASE p # r /\ ~Resting(ref'[p])
    <3>1. /\ ref'[p].alloc = ref[p].alloc /\ ref'[p].state = ref[p].state
          /\ ref'[p].iowait = ref[p].iowait
      BY <1>4, <2>2
    <3>2. ~Resting(ref[p])
      BY <2>2, <3>1 DEF Resting
    <3>3. PICK d \in Clients : Waiting(d) /\ R(d) = p
      BY <1>0, <1>4, <3>1, <3>2 DEF CallsOK
    <3>4. d # c
      BY <2>2, <3>3
    <3> QED  BY <1>1, <3>3, <3>4
  <2> QED  BY <2>1, <2>2
<1>5. \A d \in Clients : DupOwed(d) => d # c /\ DupOwed(d)'
  <2> SUFFICES ASSUME NEW d \in Clients, DupOwed(d)
               PROVE  d # c /\ DupOwed(d)'
    OBVIOUS
  <2>1. d # c /\ Waiting(d) /\ pc'[d] = "kwait"
    BY DEF DupOwed, Waiting, InExchange
  <2>2. PICK p : p = R(d) /\ p = my'[d].pr /\ ref'[p].state = ref[p].state /\ ref'[p].iowait = ref[p].iowait
    BY <1>1, <1>2, <2>1 DEF R
  <2> QED  BY <2>1, <2>2 DEF DupOwed, X, R
<1>6. \A s \in Servers : pc[s] = "dupwake" =>
        /\ \E d \in Clients : R(d) = got[s].pr /\ DupOwed(d)
        /\ \A u \in Servers : pc[u] = "dupwake" /\ u # s => got[u].pr # got[s].pr
  BY <1>0 DEF CallsOK
<1>7. \A s \in Servers : pc'[s] = "dupwake" =>
        /\ \E d \in Clients : R(d)' = got'[s].pr /\ DupOwed(d)'
        /\ \A u \in Servers : pc'[u] = "dupwake" /\ u # s => got'[u].pr # got'[s].pr
  BY <1>1, <1>5, <1>6
<1> QED  BY <1>3, <1>4, <1>7 DEF CallsOK

\* Steps of threads that wait for no answer.
LEMMA CallsSame ==
  ASSUME CallsOK,
         \A d \in Clients : \/ /\ pc'[d] = pc[d] /\ my'[d].pr = my[d].pr
                               /\ rep'[d] = rep[d] /\ intr'[d] = intr[d]
                            \/ ~Waiting(d) /\ ~Waiting(d)',
         \A p \in Refs : /\ ref'[p].alloc = ref[p].alloc /\ ref'[p].state = ref[p].state
                         /\ ref'[p].iowait = ref[p].iowait /\ ref'[p].svwait = ref[p].svwait,
         \A d \in Clients : Waiting(d) => R(d) \in Refs,
         \A s \in Servers : pc'[s] = "dupwake" => pc[s] = "dupwake" /\ got'[s] = got[s]
  PROVE  CallsOK'
<1>1. \A d \in Clients : /\ Waiting(d)' <=> Waiting(d)
                         /\ Waiting(d) => /\ pc'[d] = pc[d] /\ R(d)' = R(d)
                                          /\ rep'[d] = rep[d] /\ intr'[d] = intr[d]
  BY DEF Waiting, InExchange, R
<1>2. ASSUME NEW d \in Clients, Waiting(d)'
      PROVE  CallAt(pc[d], X(d), rep[d], intr[d], d)'
  <2>1. PICK p, x, y : p = R(d) /\ p \in Refs /\ x = ref[p] /\ y = ref'[p] /\ p = R(d)'
    BY <1>1, <1>2
  <2>2. y.state = x.state /\ y.iowait = x.iowait /\ y.svwait = x.svwait
    BY <2>1
  <2>3. CallAt(pc[d], x, rep[d], intr[d], d)
    BY <1>1, <1>2, <2>1 DEF CallsOK, X, R
  <2>4. CallAt(pc[d], y, rep[d], intr[d], d)
    BY <2>2, <2>3 DEF CallAt
  <2>5. X(d)' = y
    BY <2>1 DEF X, R
  <2> QED  BY <1>1, <1>2, <2>4, <2>5
<1>3. ASSUME NEW p \in Refs, ref'[p].alloc, ref'[p].state # "CLOSING"
      PROVE  Resting(ref'[p]) \/ \E d \in Clients : Waiting(d)' /\ R(d)' = p
  <2>1. Resting(ref'[p]) <=> Resting(ref[p])
    BY DEF Resting
  <2>2. Resting(ref[p]) \/ \E d \in Clients : Waiting(d) /\ R(d) = p
    BY <1>3 DEF CallsOK
  <2> QED  BY <1>1, <2>1, <2>2
<1>4. \A d \in Clients : DupOwed(d) => DupOwed(d)' /\ R(d)' = R(d)
  <2> SUFFICES ASSUME NEW d \in Clients, DupOwed(d)
               PROVE  DupOwed(d)' /\ R(d)' = R(d)
    OBVIOUS
  <2>1. Waiting(d) /\ pc'[d] = "kwait"
    BY <1>1 DEF DupOwed, Waiting, InExchange
  <2>2. PICK p : /\ p = R(d) /\ p = R(d)' /\ ref'[p].state = ref[p].state /\ ref'[p].iowait = ref[p].iowait
    BY <1>1, <2>1
  <2> QED  BY <2>1, <2>2 DEF DupOwed, X, R
<1>5. \A s \in Servers : pc'[s] = "dupwake" =>
        /\ \E d \in Clients : R(d)' = got'[s].pr /\ DupOwed(d)'
        /\ \A u \in Servers : pc'[u] = "dupwake" /\ u # s => got'[u].pr # got'[s].pr
  <2>1. \A s \in Servers : pc[s] = "dupwake" =>
          /\ \E d \in Clients : R(d) = got[s].pr /\ DupOwed(d)
          /\ \A u \in Servers : pc[u] = "dupwake" /\ u # s => got[u].pr # got[s].pr
    BY DEF CallsOK
  <2> QED  BY <1>4, <2>1
<1> QED  BY <1>2, <1>3, <1>5 DEF CallsOK

-----------------------------------------------------------------------------
(* The messages.                                                           *)

AllMsgs == ToSet(port.queue) \cup InHands \cup held

\* What the messages under way are.
LEMMA MessagesTyped ==
  ASSUME Typed
  PROVE  /\ AllMsgs \subseteq Sendable
         /\ \A m \in AllMsgs : m.pr \in Refs /\ m.from \in Clients /\ m.op \in Ops
         /\ port.queue \in Seq(Sendable) /\ ToSet(port.queue) \subseteq Sendable
<1>1. port.queue \in Seq(Sendable)
  BY DEF Typed, KernelTyped, WidePort
<1>2. ToSet(port.queue) \subseteq Sendable
  BY <1>1 DEF ToSet
<1>3. InHands \subseteq Sendable
  BY DEF InHands, Typed, LocalsSet
<1>4. held \subseteq Sendable
  BY DEF Typed, ServerTyped
<1> QED  BY <1>1, <1>2, <1>3, <1>4 DEF AllMsgs, Sendable, Messages

\* Nothing is under way on a handle that rests, ...
LEMMA NoneOnResting ==
  ASSUME Inv, NEW m \in AllMsgs, ref[m.pr].state \in {"IODONE", "ABDONE"}
  PROVE  FALSE
<1>1. Known(m) /\ m.op \in Ops
  BY MessagesTyped DEF Inv, Protocol, MessagesOK, AllMsgs
<1> QED  BY <1>1 DEF Known, StatesOf, Ops

\* ... nor from a client that waits for nothing, ...
LEMMA NoneFromOthers ==
  ASSUME Inv, NEW m \in AllMsgs, m.op # "DISCONNECT"
  PROVE  Waiting(m.from) /\ R(m.from) = m.pr /\ pc[m.from] \in WaitsFor(m.op)
<1>1. Known(m) /\ m.op \in Ops
  BY MessagesTyped DEF Inv, Protocol, MessagesOK, AllMsgs
<1> QED  BY <1>1 DEF Known, WaitsFor, Ops, Waiting, InExchange

\* ... and what is under way on the handle of a call is the caller's.
LEMMA OnlyFromCaller ==
  ASSUME MsgAssumption, Inv, NEW m \in AllMsgs, NEW c \in Clients, Has(c), m.pr = R(c)
  PROVE  m.from = c /\ m.op # "DISCONNECT"
<1>1. Known(m) /\ m.op \in Ops /\ m.from \in Clients
  BY MessagesTyped DEF Inv, Protocol, MessagesOK, AllMsgs
<1>2. m.op # "DISCONNECT"
  <2>1. ref[R(c)].state # "CLOSING"
    BY DEF Has, Owns, Inv, Protocol, TablesOK, UsersOK, Using
  <2> QED  BY <1>1, <2>1 DEF Known, StatesOf, Ops
<1>3. Waiting(m.from) /\ R(m.from) = R(c)
  BY <1>2, NoneFromOthers
<1>4. Has(m.from)
  BY <1>1, <1>3, WaitersHave
<1> QED  BY <1>1, <1>2, <1>3, <1>4, OneCall

\* Steps that touch no message and nothing its fate depends on.
MessageKept(m) ==
  /\ ref'[m.pr].alloc = ref[m.pr].alloc /\ ref'[m.pr].state = ref[m.pr].state
  /\ ref'[m.pr].msg = ref[m.pr].msg
  /\ m.op # "DISCONNECT" =>
       /\ my'[m.from].pr = my[m.from].pr /\ pc'[m.from] = pc[m.from]
       /\ my'[m.from].new = my[m.from].new

\* What is known of a message stays known, ...
LEMMA KnownKept ==
  ASSUME NEW m, Known(m), MessageKept(m), m.op = "DUP" => m.op # "DISCONNECT"
  PROVE  Known(m)'
BY DEF Known, MessageKept, R

\* ... and so it is for all of them.
LEMMA MessagesKept ==
  ASSUME MessagesOK, \A m \in AllMsgs : MessageKept(m),
         port'.queue = port.queue, held' = held, InHands' = InHands
  PROVE  MessagesOK'
<1>1. \A m \in AllMsgs : Known(m)'
  BY KnownKept DEF MessagesOK, AllMsgs
<1>2. \A m \in InHands \cup held :
        m.op # "ABORT" /\ ref'[m.pr].state # "ABWAIT" => ref'[m.pr].msg = m
  BY DEF MessagesOK, AllMsgs, MessageKept
<1> QED  BY <1>1, <1>2 DEF MessagesOK, AllMsgs

\* One more message in the queue.
LEMMA ToSetAppend ==
  ASSUME NEW T, NEW q \in Seq(T), NEW m \in T
  PROVE  ToSet(Append(q, m)) = ToSet(q) \cup {m}
<1>1. PICK p : p = Append(q, m)
  OBVIOUS
<1>2. /\ DOMAIN p = 1..(Len(q) + 1) /\ DOMAIN q = 1..Len(q) /\ Len(q) \in Nat
      /\ \A i \in 1..Len(q) : p[i] = q[i]
      /\ p[Len(q) + 1] = m
  BY <1>1
<1>3. \A i \in 1..(Len(q) + 1) : i \in 1..Len(q) \/ i = Len(q) + 1
  BY <1>2
<1>4. \A x : (\E i \in DOMAIN p : p[i] = x) <=> (\E i \in DOMAIN q : q[i] = x) \/ x = m
  BY <1>2, <1>3
<1> QED  BY <1>1, <1>4 DEF ToSet

\* inline_lqueue_msg() of a message on a handle that has none in the queue.
LEMMA MessagePosted ==
  ASSUME Typed, MessagesOK, NEW n \in Sendable,
         port'.queue = Append(port.queue, n), held' = held, InHands' = InHands,
         Known(n)', \A m \in AllMsgs : Known(m)',
         \A m \in ToSet(port.queue) : m.pr # n.pr,
         \A m \in InHands \cup held : /\ n.pr = m.pr => Aborts(n, m)
                                      /\ m.op # "ABORT" /\ ref'[m.pr].state # "ABWAIT" => ref'[m.pr].msg = m
  PROVE  MessagesOK'
<1>1. PICK q : q = port.queue
  OBVIOUS
<1>2. q \in Seq(Sendable) /\ Spread(q) /\ port'.queue = Append(q, n)
  BY <1>1, MessagesTyped DEF MessagesOK
<1>3. ToSet(port'.queue) = ToSet(q) \cup {n}
  BY <1>2, ToSetAppend
<1>4. Spread(port'.queue)
  <2>1. \A i \in 1..Len(q) : q[i] \in ToSet(q)
    BY <1>2 DEF ToSet
  <2>2. \A i \in 1..Len(q) : q[i].pr # n.pr
    BY <1>1, <2>1
  <2>3. /\ Len(q) \in Nat /\ Len(Append(q, n)) = Len(q) + 1
        /\ \A i \in 1..Len(q) : Append(q, n)[i] = q[i]
        /\ Append(q, n)[Len(q) + 1] = n
    BY <1>2
  <2>4. \A i \in 1..(Len(q) + 1) : i \in 1..Len(q) \/ i = Len(q) + 1
    BY <2>3
  <2> QED  BY <1>2, <2>2, <2>3, <2>4 DEF Spread
<1> QED  BY <1>1, <1>3, <1>4 DEF MessagesOK, AllMsgs

\* One less: what is left of a queue without duplicates.
LEMMA ToSetRemove ==
  ASSUME NEW q \in Seq(Sendable), NEW k \in 1..Len(q), Spread(q)
  PROVE  /\ ToSet(RemoveAt(q, k)) = ToSet(q) \ {q[k]}
         /\ Spread(RemoveAt(q, k))
         /\ \A m \in ToSet(RemoveAt(q, k)) : m.pr # q[k].pr
<1>1. PICK p, n : p = RemoveAt(q, k) /\ n = Len(q)
  OBVIOUS
<1>2. /\ p \in Seq(Sendable) /\ Len(p) = n - 1 /\ n \in Nat /\ k \in 1..n /\ k \in Nat
      /\ \A i \in 1..(n - 1) : p[i] = IF i < k THEN q[i] ELSE q[i + 1]
  BY <1>1, RemoveAtIs
<1>3. DOMAIN p = 1..(n - 1) /\ DOMAIN q = 1..n
  BY <1>1, <1>2
<1>4. \A i \in 1..(n - 1) : \E j \in 1..n : j # k /\ p[i] = q[j] /\ j = (IF i < k THEN i ELSE i + 1)
  <2> SUFFICES ASSUME NEW i \in 1..(n - 1)
               PROVE  \E j \in 1..n : j # k /\ p[i] = q[j] /\ j = (IF i < k THEN i ELSE i + 1)
    OBVIOUS
  <2>1. (IF i < k THEN i ELSE i + 1) \in 1..n /\ (IF i < k THEN i ELSE i + 1) # k
    BY <1>2
  <2> QED  BY <1>2, <2>1
<1>5. \A j \in 1..n : j # k => \E i \in 1..(n - 1) : p[i] = q[j]
  <2> SUFFICES ASSUME NEW j \in 1..n, j # k
               PROVE  \E i \in 1..(n - 1) : p[i] = q[j]
    OBVIOUS
  <2>1. CASE j < k
    BY <1>2, <2>1
  <2>2. CASE j > k
    <3>1. j - 1 \in 1..(n - 1) /\ p[j - 1] = q[j]
      BY <1>2, <2>2
    <3> QED  BY <3>1
  <2> QED  BY <1>2, <2>1, <2>2
<1>6. \A i, j \in 1..n : i # j => q[i].pr # q[j].pr
  BY <1>1 DEF Spread
<1>7. \A x \in ToSet(p) : x \in ToSet(q) /\ x.pr # q[k].pr
  BY <1>2, <1>3, <1>4, <1>6, SMTT(30) DEF ToSet
<1>8. \A x \in ToSet(q) : x # q[k] => x \in ToSet(p)
  BY <1>3, <1>5 DEF ToSet
<1>9. Spread(p)
  <2> SUFFICES ASSUME NEW i \in 1..(n - 1), NEW j \in 1..(n - 1), i # j
               PROVE  p[i].pr # p[j].pr
    BY <1>2 DEF Spread
  <2>1. PICK a \in 1..n : p[i] = q[a] /\ a = (IF i < k THEN i ELSE i + 1)
    BY <1>4
  <2>2. PICK b \in 1..n : p[j] = q[b] /\ b = (IF j < k THEN j ELSE j + 1)
    BY <1>4
  <2>3. a # b
    BY <1>2, <2>1, <2>2
  <2> QED  BY <1>6, <2>1, <2>2, <2>3
<1> QED  BY <1>1, <1>7, <1>8, <1>9

-----------------------------------------------------------------------------
(* The steps of the clients.                                               *)

\* The values p_iowait goes through.
LEMMA SemaValues ==
  ASSUME NEW c
  PROVE  /\ Queued(Asleep(c), c) /\ ~Queued(Zero, c) /\ ~Queued(One, c)
         /\ VSema(Asleep(c)) = Zero /\ VSema(Zero) = One
         /\ PSema(Zero, c) = Asleep(c) /\ PSema(One, c) = Zero
         /\ SetSema(One, 0) = Zero /\ SetSema(Zero, 0) = Zero
         /\ NewSema(0) = Zero /\ NewSema(1) = One
<1>1. Queued(Asleep(c), c)
  BY DEF Queued, Contains, Asleep
<1>2. ~Queued(Zero, c) /\ ~Queued(One, c)
  BY DEF Queued, Contains, Zero, One
<1>3. VSema(Asleep(c)) = Zero
  BY DEF VSema, Asleep, Zero
<1>4. PSema(Zero, c) = Asleep(c)
  BY DEF PSema, Asleep, Zero
<1>5. /\ VSema(Zero) = One /\ PSema(One, c) = Zero /\ SetSema(One, 0) = Zero /\ SetSema(Zero, 0) = Zero
      /\ NewSema(0) = Zero /\ NewSema(1) = One
  BY DEF VSema, PSema, SetSema, NewSema, One, Zero
<1> QED  BY <1>1, <1>2, <1>3, <1>4, <1>5

\* An event takes the one sleeper off.
LEMMA CunsleepAlone ==
  ASSUME NEW c \in Clients
  PROVE  Cunsleep(Asleep(c), c) = Zero
<1>1. PICK s : s = Asleep(c)
  OBVIOUS
<1>2. s.cnt = -1 /\ s.q \in Seq(Clients) /\ Len(s.q) = 1 /\ Queued(s, c)
  BY <1>1, SemaValues DEF Asleep
<1>3. PICK k \in 1..Len(s.q) : k = Position(s, c) /\ s.q[k] = c
  BY <1>2 DEF Position, Queued, Contains
<1>4. RemoveAt(s.q, k) \in Seq(Clients) /\ Len(RemoveAt(s.q, k)) = 0
  BY <1>2, <1>3, RemoveAtIs
<1>5. RemoveAt(s.q, k) = << >>
  BY <1>4
<1> QED  BY <1>1, <1>2, <1>3, <1>5 DEF Cunsleep, Zero

\* What a client's step leaves alone.
OthersStay(c) ==
  /\ \A d \in Clients : d # c => /\ pc'[d] = pc[d] /\ my'[d] = my[d]
                                 /\ rep'[d] = rep[d] /\ intr'[d] = intr[d]
  /\ \A s \in Servers : pc'[s] = pc[s] /\ intr'[s] = intr[s]
  /\ got' = got /\ hash' = hash /\ held' = held /\ doomed' = doomed
  /\ port'.named = port.named /\ port'.inproc = port.inproc /\ port'.sema = port.sema

\* No client touches another one, nor what the server keeps for itself.
LEMMA ClientAlone ==
  ASSUME MsgAssumption, Typed, NEW c \in Clients, ClientCalls(c) \/ ClientRuns(c)
  PROVE  OthersStay(c)
<1>1. /\ pc \in [Threads -> ClientPcs \cup ServerPcs] /\ intr \in [Threads -> BOOLEAN]
      /\ my \in [Clients -> Local] /\ rep \in [Clients -> {"none", "ok", "segs", "err"}]
      /\ port \in WidePort /\ Clients \subseteq Threads /\ Servers \subseteq Threads
      /\ \A s \in Servers : s # c
  <2>1. Clients \subseteq Threads /\ Servers \subseteq Threads /\ \A s \in Servers : s # c
    BY DEF Threads, MsgAssumption
  <2> QED  BY <2>1 DEF Typed, ThreadsTyped, KernelTyped
<1>2. UNCHANGED serverVars /\ (intr' = intr \/ NoEvent(c))
  BY ZenonT(60) DEF ClientCalls, ClientRuns, MsgConnect, MsgConnectDone, SendFind, SendPost, SendDone, SendMap,
         CopyDone, MapFails, IntrGone, IntrWithdraw, IntrAbort, IntrDone, AbortDone, FindBroken,
         CloneFind, ClonePost, CloneDone, ForkPort, MsgDisconnect, ShutClient, ShutDone
<1>3. (\E l \in ClientPcs : Goto(c, l)) \/ pc' = pc
  BY ZenonT(60) DEF ClientCalls, ClientRuns, MsgConnect, MsgConnectDone, SendFind, SendPost, SendDone, SendMap,
         CopyDone, MapFails, IntrGone, IntrWithdraw, IntrAbort, IntrDone, AbortDone, FindBroken,
         CloneFind, ClonePost, CloneDone, ForkPort, MsgDisconnect, ShutClient, ShutDone, Return, ClientPcs
<1>4. rep' = rep \/ rep' = [rep EXCEPT ![c] = "none"]
  BY ZenonT(60) DEF ClientCalls, ClientRuns, MsgConnect, MsgConnectDone, SendFind, SendPost, SendDone, SendMap,
         CopyDone, MapFails, IntrGone, IntrWithdraw, IntrAbort, IntrDone, AbortDone, FindBroken,
         CloneFind, ClonePost, CloneDone, ForkPort, MsgDisconnect, ShutClient, ShutDone, Return
<1>5. my' = my \/ \E y : my' = [my EXCEPT ![c] = y]
  BY ZenonT(60) DEF ClientCalls, ClientRuns, MsgConnect, MsgConnectDone, SendFind, SendPost, SendDone, SendMap,
         CopyDone, MapFails, IntrGone, IntrWithdraw, IntrAbort, IntrDone, AbortDone, FindBroken,
         CloneFind, ClonePost, CloneDone, ForkPort, MsgDisconnect, ShutClient, ShutDone, Return
<1>6. port'.named = port.named /\ port'.inproc = port.inproc /\ port'.sema = port.sema
  BY <1>1, ZenonT(60)
     DEF ClientCalls, ClientRuns, MsgConnect, MsgConnectDone, SendFind, SendPost, SendDone, SendMap,
         CopyDone, MapFails, IntrGone, IntrWithdraw, IntrAbort, IntrDone, AbortDone, FindBroken,
         CloneFind, ClonePost, CloneDone, ForkPort, MsgDisconnect, ShutClient, ShutDone, Enqueue, WidePort
<1>7. \A d \in Clients : d # c => /\ pc'[d] = pc[d] /\ my'[d] = my[d]
                                  /\ rep'[d] = rep[d] /\ intr'[d] = intr[d]
  BY <1>1, <1>2, <1>3, <1>4, <1>5 DEF Goto, NoEvent
<1>8. \A s \in Servers : pc'[s] = pc[s] /\ intr'[s] = intr[s]
  BY <1>1, <1>2, <1>3 DEF Goto, NoEvent
<1> QED  BY <1>2, <1>6, <1>7, <1>8 DEF OthersStay, serverVars

\* What follows of the server, the events and the port.
LEMMA ClientQuiet ==
  ASSUME Inv, NEW c \in Clients, OthersStay(c),
         \A r \in Refs : ref'[r].alloc => ref'[r].port,
         intr'[c] => pc'[c] \in {"find", "cfind", "iowait"}, rep'[c] # "none" => Waiting(c)'
  PROVE  ServerStays' /\ EventsOK' /\ PortOK' /\ InHands' = InHands /\ held' = held
<1>1. \A d \in Clients : d # c => (Waiting(d)' <=> Waiting(d))
  BY DEF OthersStay, Waiting, InExchange
<1>2. ServerStays'
  BY DEF OthersStay, ServerStays, Inv, Protocol
<1>3. EventsOK'
  BY <1>1 DEF OthersStay, EventsOK, Inv, Protocol
<1>4. PortOK'
  <2>1. \A s \in Servers : Receives(s)' <=> Receives(s)
    BY DEF OthersStay, Receives
  <2> QED  BY <2>1, PortKept DEF OthersStay, Inv, Protocol
<1>5. InHands' = InHands
  BY DEF OthersStay, InHands
<1> QED  BY <1>2, <1>3, <1>4, <1>5 DEF OthersStay

\* A thread goes on with its call on r, which it has for itself.
LEMMA ClientStays ==
  ASSUME MsgAssumption, Inv, NEW c \in Clients, NEW r \in Refs, OthersStay(c), Owns(c, r), pc[c] # "kwait",
         NEW z, ref' = [ref EXCEPT ![r] = z],
         z.alloc = ref[r].alloc, z.port = ref[r].port, z.refs = ref[r].refs, z.sema = ref[r].sema,
         z.state \notin {"OPENING", "CLOSING"},
         pc'[c] \in {"iowait", "copy", "abwait"}, my'[c] = my[c], slots' = slots, ~intr'[c],
         CallAt(pc'[c], z, rep'[c], FALSE, c)
  PROVE  /\ ServerStays' /\ EventsOK' /\ PortOK' /\ TablesOK' /\ MutexesOK' /\ CallsOK'
         /\ InHands' = InHands /\ held' = held
         /\ \A m \in AllMsgs : m.pr # r => MessageKept(m)
<1>0. /\ ref \in [Refs -> WideRef] /\ LocalsSet /\ TablesOK /\ MutexesOK /\ ServerStays
      /\ R(c) = r /\ Using(c) /\ Has(c) /\ pc[c] \in Sending
      /\ Using(c)' /\ R(c)' = r /\ Waiting(c)'
      /\ ref'[r] = z /\ \A p \in Refs : p # r => ref'[p] = ref[p]
  BY DEF Inv, Protocol, Typed, KernelTyped, Owns, Using, Has, R, Sending, Waiting, InExchange
<1>1. ref[r].alloc /\ ref[r].state # "CLOSING"
  BY <1>0 DEF TablesOK, UsersOK
<1>2. \A p \in Refs : ref'[p].alloc => ref'[p].port
  BY <1>0 DEF ServerStays
<1>3. \A d \in Clients : Waiting(d) /\ d # c => R(d) # r
  BY <1>0, WaitersHave, OneCall
<1>4. \A p \in Refs : p # r => ~Owns(c, p) /\ ~Owns(c, p)'
  BY <1>0 DEF Owns
<1>5. Owns(c, r)' /\ ~Queued(ref[r].sema, c)
  <2>1. MutexOK(r)
    BY <1>0 DEF MutexesOK
  <2> QED  BY <1>0, <2>1 DEF Owns, R, MutexOK
<1>6. MutexesOK'
  <2> SUFFICES ASSUME NEW p \in Refs
               PROVE  MutexOK(p)'
    BY DEF MutexesOK
  <2>1. MutexOK(p) /\ ref'[p].sema = ref[p].sema
    BY <1>0 DEF MutexesOK
  <2>2. ref'[p].alloc /\ ref'[p].state # "CLOSING" => ref[p].alloc /\ ref[p].state # "CLOSING"
    BY <1>0, <1>1
  <2>3. ~Queued(ref[p].sema, c) /\ (Owns(c, p)' <=> Owns(c, p))
    BY <1>0, <1>4, <1>5, <2>1 DEF MutexOK
  <2>4. \A d \in Clients : d # c => pc'[d] = pc[d] /\ my'[d].pr = my[d].pr /\ intr'[d] = intr[d]
    BY DEF OthersStay
  <2> QED  BY <2>1, <2>2, <2>3, <2>4, MutexKept
<1>7. TablesOK'
  <2>1. \A d \in Clients : Using(d)' =>
          /\ Using(d) /\ my'[d].slot = my[d].slot /\ my'[d].pr = my[d].pr /\ my'[d].new = my[d].new
          /\ \/ pc'[d] = pc[d]
             \/ pc[d] \in Sending /\ pc'[d] \in {"iowait", "copy", "abwait"}
    BY <1>0 DEF OthersStay, Using
  <2>2. \A p \in Refs :
          /\ ref'[p].alloc = ref[p].alloc /\ ref'[p].refs = ref[p].refs
          /\ \/ ref'[p].state = ref[p].state
             \/ ref[p].state # "CLOSING" /\ ref'[p].state \notin {"OPENING", "CLOSING"}
    BY <1>0, <1>1
  <2> QED  BY <1>0, <2>1, <2>2, TablesFrame
<1>8. CallsOK'
  <2>1. ~DupOwed(c)
    BY DEF DupOwed
  <2>2. \A d \in Clients : d # c => /\ pc'[d] = pc[d] /\ my'[d].pr = my[d].pr
                                    /\ rep'[d] = rep[d] /\ intr'[d] = intr[d]
    BY DEF OthersStay
  <2>3. \A p \in Refs : p # r =>
           /\ ref'[p].alloc = ref[p].alloc /\ ref'[p].state = ref[p].state
           /\ ref'[p].iowait = ref[p].iowait /\ ref'[p].svwait = ref[p].svwait
    BY <1>0
  <2>4. my'[c].pr = r /\ CallAt(pc'[c], ref'[r], rep'[c], intr'[c], c)
    <3>1. intr'[c] = FALSE
      BY DEF Inv, Protocol, Typed, ThreadsTyped
    <3> QED  BY <1>0, <3>1 DEF R
  <2>5. (\A s \in Servers : pc'[s] = pc[s]) /\ got' = got
    BY DEF OthersStay
  <2> QED  BY <1>0, <1>3, <2>1, <2>2, <2>3, <2>4, <2>5, CallsMove
<1>9. \A m \in AllMsgs : m.pr # r => MessageKept(m)
  <2> SUFFICES ASSUME NEW m \in AllMsgs, m.pr # r
               PROVE  MessageKept(m)
    OBVIOUS
  <2>1. m.pr \in Refs /\ m.from \in Clients
    BY MessagesTyped DEF Inv, Protocol
  <2>2. m.op # "DISCONNECT" => m.from # c
    BY <1>0, NoneFromOthers
  <2> QED  BY <1>0, <2>1, <2>2 DEF MessageKept, OthersStay
<1> QED  BY <1>0, <1>2, <1>6, <1>7, <1>8, <1>9, ClientQuiet

\* A thread is done with its call on r.
LEMMA ClientLeaves ==
  ASSUME MsgAssumption, Inv, NEW c \in Clients, NEW r \in Refs, OthersStay(c), Owns(c, r), pc[c] # "kwait",
         NEW z, NEW b, ref' = [ref EXCEPT ![r] = Out(z, b)], z \in WideRef,
         z.alloc = ref[r].alloc, z.port = ref[r].port, z.refs = ref[r].refs, z.sema = ref[r].sema,
         Resting(z),
         pc'[c] = "out", rep'[c] = "none", slots' = slots, ~intr'[c]
  PROVE  /\ ServerStays' /\ EventsOK' /\ PortOK' /\ TablesOK' /\ MutexesOK' /\ CallsOK'
         /\ InHands' = InHands /\ held' = held
         /\ \A m \in AllMsgs : m.pr # r => MessageKept(m)
<1>o. PICK y : y = Out(z, b)
  OBVIOUS
<1>z. /\ y.alloc = z.alloc /\ y.port = z.port /\ y.refs = z.refs /\ y.state = z.state /\ y.iowait = z.iowait
      /\ y.sema = VSema(z.sema)
  BY <1>o DEF Out, WideRef
<1>0. /\ ref \in [Refs -> WideRef] /\ LocalsSet /\ TablesOK /\ MutexesOK /\ ServerStays
      /\ R(c) = r /\ Using(c) /\ Has(c) /\ pc[c] \in Sending
      /\ ~Using(c)' /\ ~Waiting(c)'
      /\ ref'[r] = y /\ \A p \in Refs : p # r => ref'[p] = ref[p]
  BY <1>o DEF Inv, Protocol, Typed, KernelTyped, Owns, Using, Has, R, Sending, Waiting, InExchange
<1>1. ref[r].alloc /\ ref[r].state # "CLOSING"
  BY <1>0 DEF TablesOK, UsersOK
<1>2. \A p \in Refs : ref'[p].alloc => ref'[p].port
  BY <1>0, <1>z DEF ServerStays
<1>3. \A d \in Clients : Waiting(d) /\ d # c => R(d) # r
  BY <1>0, WaitersHave, OneCall
<1>4. \A p \in Refs : p # r => ~Owns(c, p) /\ ~Owns(c, p)'
  BY <1>0 DEF Owns
<1>5. \A d \in Clients : d # c => pc'[d] = pc[d] /\ my'[d].pr = my[d].pr /\ intr'[d] = intr[d]
  BY DEF OthersStay
<1>6. MutexesOK'
  <2> SUFFICES ASSUME NEW p \in Refs
               PROVE  MutexOK(p)'
    BY DEF MutexesOK
  <2>1. MutexOK(p)
    BY <1>0 DEF MutexesOK
  <2>2. CASE p = r
    <3>1. ref'[r].sema = VSema(ref[r].sema)
      BY <1>0, <1>z
    <3> QED  BY <1>0, <1>1, <1>5, <2>1, <2>2, <3>1, MutexGiven
  <2>3. CASE p # r
    <3>1. ref'[p] = ref[p] /\ ~Queued(ref[p].sema, c) /\ (Owns(c, p)' <=> Owns(c, p))
      BY <1>0, <1>4, <2>1, <2>3 DEF MutexOK
    <3> QED  BY <1>5, <2>1, <3>1, MutexKept
  <2> QED  BY <2>2, <2>3
<1>7. TablesOK'
  <2>1. \A d \in Clients : Using(d)' =>
          /\ Using(d) /\ my'[d].slot = my[d].slot /\ my'[d].pr = my[d].pr /\ my'[d].new = my[d].new
          /\ pc'[d] = pc[d]
    BY <1>0 DEF OthersStay, Using
  <2>2. \A p \in Refs :
          /\ ref'[p].alloc = ref[p].alloc /\ ref'[p].refs = ref[p].refs
          /\ \/ ref'[p].state = ref[p].state
             \/ ref[p].state # "CLOSING" /\ ref'[p].state \notin {"OPENING", "CLOSING"}
    BY <1>0, <1>1, <1>z DEF Resting
  <2> QED  BY <1>0, <2>1, <2>2, TablesFrame
<1>8. CallsOK'
  <2>1. ~DupOwed(c)
    BY DEF DupOwed
  <2>2. \A d \in Clients : d # c => /\ pc'[d] = pc[d] /\ my'[d].pr = my[d].pr
                                    /\ rep'[d] = rep[d] /\ intr'[d] = intr[d]
    BY DEF OthersStay
  <2>3. \A p \in Refs : p # r =>
           /\ ref'[p].alloc = ref[p].alloc /\ ref'[p].state = ref[p].state
           /\ ref'[p].iowait = ref[p].iowait /\ ref'[p].svwait = ref[p].svwait
    BY <1>0
  <2>4. Resting(ref'[r])
    BY <1>0, <1>z DEF Resting
  <2>5. (\A s \in Servers : pc'[s] = pc[s]) /\ got' = got
    BY DEF OthersStay
  <2> QED  BY <1>0, <1>3, <2>1, <2>2, <2>3, <2>4, <2>5, CallsMove
<1>9. \A m \in AllMsgs : m.pr # r => MessageKept(m)
  <2> SUFFICES ASSUME NEW m \in AllMsgs, m.pr # r
               PROVE  MessageKept(m)
    OBVIOUS
  <2>1. m.pr \in Refs /\ m.from \in Clients
    BY MessagesTyped DEF Inv, Protocol
  <2>2. m.op # "DISCONNECT" => m.from # c
    BY <1>0, NoneFromOthers
  <2> QED  BY <1>0, <2>1, <2>2 DEF MessageKept, OthersStay
<1> QED  BY <1>0, <1>2, <1>6, <1>7, <1>8, <1>9, ClientQuiet

\* Where an exchange stands.
LEMMA InCall ==
  ASSUME MsgAssumption, Inv, NEW c \in Clients, Has(c)
  PROVE  \E r \in Refs, x \in WideRef :
           /\ r = R(c) /\ x = X(c) /\ x = ref[r]
           /\ x.alloc /\ x.port /\ x.state # "CLOSING"
           /\ pc[c] # "opening" => Owns(c, r) /\ Mutex(x.sema, {c})
           /\ Waiting(c) => CallAt(pc[c], x, rep[c], intr[c], c)
           /\ ~Waiting(c) => Resting(x) /\ rep[c] = "none"
           /\ \A m \in AllMsgs : m.pr = r => m.from = c /\ m.op # "DISCONNECT"
<1>1. Using(c) /\ R(c) \in Refs /\ ref \in [Refs -> WideRef] /\ Typed
  BY DEF Has, Owns, Using, Inv, Typed, LocalsSet, KernelTyped
<1>2. PICK r \in Refs, x \in WideRef : r = R(c) /\ x = X(c) /\ x = ref[r]
  BY <1>1 DEF X, R
<1>3. ref[R(c)].alloc /\ ref[R(c)].state # "CLOSING"
  BY <1>1 DEF Inv, Protocol, TablesOK, UsersOK
<1>4. x.alloc /\ x.port /\ x.state # "CLOSING"
  BY <1>2, <1>3 DEF Inv, Protocol, ServerStays
<1>5. ASSUME pc[c] # "opening"
      PROVE  Owns(c, r) /\ Mutex(x.sema, {c})
  <2>1. Owns(c, r) /\ c \in Owners(r)
    BY <1>2, <1>5 DEF Has, Owners
  <2>2. Mutex(x.sema, Owners(r))
    BY <1>2, <1>4 DEF Inv, Protocol, MutexesOK, MutexOK
  <2>3. Owners(r) = {c}
    BY <2>1, <2>2, OneOwner
  <2> QED  BY <2>1, <2>2, <2>3
<1>6. Waiting(c) => CallAt(pc[c], x, rep[c], intr[c], c)
  BY <1>2 DEF Inv, Protocol, CallsOK
<1>7. ASSUME ~Waiting(c)
      PROVE  Resting(x) /\ rep[c] = "none"
  <2>1. Resting(ref[r]) \/ \E d \in Clients : Waiting(d) /\ R(d) = r
    BY <1>2, <1>4 DEF Inv, Protocol, CallsOK
  <2>2. \A d \in Clients : Waiting(d) /\ R(d) = r => d = c
    BY <1>2, WaitersHave, OneCall
  <2> QED  BY <1>2, <1>7, <2>1, <2>2 DEF Inv, Protocol, EventsOK
<1>8. \A m \in AllMsgs : m.pr = r => m.from = c /\ m.op # "DISCONNECT"
  BY <1>2, OnlyFromCaller
<1> QED  BY <1>2, <1>4, <1>5, <1>6, <1>7, <1>8

\* A message on a handle that carried none.
LEMMA MessageAdded ==
  ASSUME Inv, NEW n \in Sendable, \A m \in AllMsgs : MessageKept(m) /\ m.pr # n.pr,
         port'.queue = Append(port.queue, n), held' = held, InHands' = InHands, Known(n)'
  PROVE  MessagesOK'
<1>1. MessagesOK /\ Typed
  BY DEF Inv, Protocol
<1>2. \A m \in AllMsgs : Known(m)'
  BY <1>1, KnownKept DEF MessagesOK, AllMsgs
<1>3. \A m \in InHands \cup held : /\ m.pr # n.pr
                                   /\ m.op # "ABORT" /\ ref'[m.pr].state # "ABWAIT" => ref'[m.pr].msg = m
  BY <1>1 DEF MessagesOK, AllMsgs, MessageKept
<1>4. \A m \in ToSet(port.queue) : m.pr # n.pr
  BY DEF AllMsgs
<1> QED  BY <1>1, <1>2, <1>3, <1>4, MessagePosted

\* find_portref() is through, and msg_send() sleeps.
LEMMA SendPostOK ==
  ASSUME MsgAssumption, Inv, NEW c \in Clients, OthersStay(c), SendPost(c)
  PROVE  Protocol'
<1>1. Has(c) /\ pc[c] = "find" /\ ~Waiting(c) /\ ~intr[c]
  BY DEF SendPost, Awake, Has, Owns, X, R, Waiting, InExchange
<1>2. PICK r \in Refs, x \in WideRef :
        /\ r = R(c) /\ x = X(c) /\ x = ref[r] /\ x.alloc /\ x.port /\ x.state # "CLOSING"
        /\ Owns(c, r) /\ Resting(x) /\ rep[c] = "none"
  BY <1>1, InCall
<1>3. /\ port \in WidePort /\ pc \in [Threads -> ClientPcs \cup ServerPcs] /\ ref \in [Refs -> WideRef]
      /\ my \in [Clients -> Local] /\ c \in Threads
  BY DEF Inv, Typed, ThreadsTyped, KernelTyped, Threads
<1>4. PICK n \in Sendable : n = Message("IO", c, r, Null, my[c].kind = "write")
  BY SentTyped
<1>5. n.pr = r /\ n.from = c /\ n.op = "IO"
  BY <1>4 DEF Message
<1>6. PICK z : z = [x EXCEPT !.state = "IOWAIT", !.iowait = PSema(x.iowait, c)]
  OBVIOUS
<1>7. /\ port' = Enqueue(port, n) /\ ref' = [ref EXCEPT ![r] = z]
      /\ pc' = [pc EXCEPT ![c] = "iowait"] /\ my' = my /\ rep' = rep /\ slots' = slots /\ intr' = intr
  BY <1>2, <1>4, <1>6 DEF SendPost, Goto
<1>8. /\ z.state = "IOWAIT" /\ z.iowait = Asleep(c)
      /\ z.alloc = x.alloc /\ z.port = x.port /\ z.refs = x.refs /\ z.sema = x.sema
  BY <1>2, <1>6, SemaValues DEF WideRef, Resting
<1>9. pc'[c] = "iowait" /\ CallAt(pc'[c], z, rep'[c], FALSE, c)
  BY <1>2, <1>3, <1>7, <1>8 DEF CallAt
<1>10. /\ ServerStays' /\ EventsOK' /\ PortOK' /\ TablesOK' /\ MutexesOK' /\ CallsOK'
       /\ InHands' = InHands /\ held' = held
       /\ \A m \in AllMsgs : m.pr # r => MessageKept(m)
  <2>1. pc[c] # "kwait" /\ z.state \notin {"OPENING", "CLOSING"} /\ ~intr'[c] /\ my'[c] = my[c]
        /\ pc'[c] \in {"iowait", "copy", "abwait"}
    BY <1>1, <1>7, <1>8, <1>9
  <2> QED  BY <1>2, <1>7, <1>8, <1>9, <2>1, ClientStays, ZenonT(60)
<1>11. \A m \in AllMsgs : m.pr # n.pr
  <2>1. x.state \in {"IODONE", "ABDONE"}
    BY <1>2 DEF Resting
  <2> QED  BY <1>2, <1>5, <2>1, NoneOnResting
<1>12. Known(n)'
  BY <1>2, <1>3, <1>5, <1>7, <1>8, <1>9 DEF Known, StatesOf, WaitsFor, R
<1>13. MessagesOK'
  <2>1. port'.queue = Append(port.queue, n)
    BY <1>3, <1>7 DEF Enqueue, WidePort
  <2> QED  BY <1>5, <1>10, <1>11, <1>12, <2>1, MessageAdded
<1> QED  BY <1>10, <1>13 DEF Protocol

\* Messages on other handles only.
LEMMA AloneOnHandle ==
  ASSUME Inv, NEW r \in Refs, ref[r].state \in {"IODONE", "ABDONE"}, NEW m \in AllMsgs
  PROVE  m.pr # r
BY NoneOnResting

\* The end of a call whose answer, or whose abort's, is there.
LEMMA LeaveOK ==
  ASSUME MsgAssumption, Inv, NEW c \in Clients, OthersStay(c), NEW r \in Refs, Owns(c, r), pc[c] # "kwait",
         ref[r].state \in {"IODONE", "ABDONE"},
         NEW z \in WideRef, NEW b, ref' = [ref EXCEPT ![r] = Out(z, b)],
         z.alloc = ref[r].alloc, z.port = ref[r].port, z.refs = ref[r].refs, z.sema = ref[r].sema, Resting(z),
         Return(c), slots' = slots, port' = port, ~intr'[c]
  PROVE  Protocol'
<1>1. pc'[c] = "out" /\ rep'[c] = "none"
  BY DEF Return, Goto, Inv, Typed, ThreadsTyped, Threads
<1>2. /\ ServerStays' /\ EventsOK' /\ PortOK' /\ TablesOK' /\ MutexesOK' /\ CallsOK'
      /\ InHands' = InHands /\ held' = held
      /\ \A m \in AllMsgs : m.pr # r => MessageKept(m)
  BY <1>1, ClientLeaves
<1>3. MessagesOK'
  <2>1. \A m \in AllMsgs : MessageKept(m)
    BY <1>2, AloneOnHandle
  <2> QED  BY <1>2, <2>1, MessagesKept DEF Inv, Protocol
<1> QED  BY <1>2, <1>3 DEF Protocol

\* msg_send() returns with the answer, or after an abort.
LEMMA DoneOK ==
  ASSUME MsgAssumption, Inv, NEW c \in Clients, OthersStay(c),
         SendDone(c) \/ CopyDone(c) \/ MapFails(c) \/ AbortDone(c)
  PROVE  Protocol'
<1>1. /\ pc[c] \in {"iowait", "copy", "abwait"} /\ Has(c) /\ Waiting(c)
      /\ pc[c] # "copy" => ~Queued(X(c).iowait, c) /\ ~intr[c]
  BY DEF SendDone, CopyDone, MapFails, AbortDone, Awake, Has, Owns, Waiting, InExchange
<1>2. PICK r \in Refs, x \in WideRef :
        /\ r = R(c) /\ x = X(c) /\ x = ref[r] /\ Owns(c, r)
        /\ CallAt(pc[c], x, rep[c], intr[c], c)
  BY <1>1, InCall
<1>3. Resting(x)
  BY <1>1, <1>2, SemaValues DEF CallAt, Resting
<1>4. /\ Return(c) /\ slots' = slots /\ port' = port /\ intr' = intr
      /\ \E b : ref' = [ref EXCEPT ![r] = Out(x, b)]
  BY <1>2 DEF SendDone, CopyDone, MapFails, AbortDone
<1>5. PICK b : ref' = [ref EXCEPT ![r] = Out(x, b)]
  BY <1>4
<1>6. ~intr'[c]
  BY <1>1, <1>4 DEF Inv, Protocol, EventsOK
<1>7. ref[r].state \in {"IODONE", "ABDONE"}
  BY <1>2, <1>3 DEF Resting
<1> QED  BY <1>1, <1>2, <1>3, <1>4, <1>5, <1>6, <1>7, LeaveOK

\* An event, but the answer was faster.
LEMMA IntrDoneOK ==
  ASSUME MsgAssumption, Inv, NEW c \in Clients, OthersStay(c), IntrDone(c)
  PROVE  Protocol'
<1>1. pc[c] = "iowait" /\ Has(c) /\ Waiting(c) /\ intr[c]
  BY DEF IntrDone, Broken, Has, Owns, Waiting, InExchange
<1>2. PICK r \in Refs, x \in WideRef :
        /\ r = R(c) /\ x = X(c) /\ x = ref[r] /\ Owns(c, r)
        /\ CallAt(pc[c], x, rep[c], intr[c], c)
  BY <1>1, InCall
<1>3. x.state = "IODONE" /\ x.iowait = One
  BY <1>1, <1>2 DEF CallAt, IntrDone
<1>4. PICK z : z = TakeBack(x)
  OBVIOUS
<1>5. z \in WideRef
  BY <1>4, RefsTyped
<1>6. /\ z.alloc = x.alloc /\ z.port = x.port /\ z.refs = x.refs /\ z.sema = x.sema /\ z.state = x.state
      /\ z.iowait = SetSema(x.iowait, 0)
  BY <1>4 DEF TakeBack, WideRef
<1>7. Resting(z)
  BY <1>3, <1>6, SemaValues DEF Resting
<1>8. /\ Return(c) /\ slots' = slots /\ port' = port /\ NoEvent(c)
      /\ ref' = [ref EXCEPT ![r] = Out(z, my[c].nseg)]
  BY <1>2, <1>4 DEF IntrDone
<1>9. ~intr'[c]
  BY <1>8 DEF NoEvent, Inv, Typed, ThreadsTyped, Threads
<1> QED  BY <1>1, <1>2, <1>3, <1>5, <1>6, <1>7, <1>8, <1>9, LeaveOK

\* The answer has segments: map them.
LEMMA SendMapOK ==
  ASSUME MsgAssumption, Inv, NEW c \in Clients, OthersStay(c), SendMap(c)
  PROVE  Protocol'
<1>1. pc[c] = "iowait" /\ Has(c) /\ Waiting(c) /\ ~intr[c] /\ ~Queued(X(c).iowait, c) /\ rep[c] = "segs"
  BY DEF SendMap, Awake, Has, Owns, Waiting, InExchange
<1>2. PICK r \in Refs, x \in WideRef :
        /\ r = R(c) /\ x = X(c) /\ x = ref[r] /\ Owns(c, r)
        /\ CallAt(pc[c], x, rep[c], intr[c], c)
  BY <1>1, InCall
<1>3. x.state = "IODONE" /\ x.iowait = Zero /\ x.svwait.q # << >>
  BY <1>1, <1>2, SemaValues DEF CallAt
<1>4. /\ ref' = [ref EXCEPT ![r] = x] /\ port' = port /\ slots' = slots /\ intr' = intr
      /\ my' = my /\ rep' = rep /\ pc' = [pc EXCEPT ![c] = "copy"]
  BY <1>2 DEF SendMap, Goto, Inv, Typed, KernelTyped
<1>5. pc'[c] = "copy"
  BY <1>4 DEF Inv, Typed, ThreadsTyped, Threads
<1>6. CallAt(pc'[c], x, rep'[c], FALSE, c)
  BY <1>1, <1>3, <1>4, <1>5 DEF CallAt
<1>7. /\ ServerStays' /\ EventsOK' /\ PortOK' /\ TablesOK' /\ MutexesOK' /\ CallsOK'
      /\ InHands' = InHands /\ held' = held
      /\ \A m \in AllMsgs : m.pr # r => MessageKept(m)
  <2>1. pc[c] # "kwait" /\ x.state \notin {"OPENING", "CLOSING"} /\ ~intr'[c] /\ my'[c] = my[c]
        /\ pc'[c] \in {"iowait", "copy", "abwait"}
    BY <1>1, <1>3, <1>4, <1>5
  <2> QED  BY <1>2, <1>4, <1>6, <2>1, ClientStays
<1>8. \A m \in AllMsgs : MessageKept(m)
  BY <1>2, <1>3, <1>7, AloneOnHandle
<1> QED  BY <1>4, <1>7, <1>8, MessagesKept DEF Inv, Protocol

\* The server is there: nobody leaves because it has gone.
LEMMA IntrGoneOK ==
  ASSUME MsgAssumption, Inv, NEW c \in Clients, IntrGone(c)
  PROVE  FALSE
<1>1. pc[c] = "iowait" /\ Has(c)
  BY DEF IntrGone, Interrupted, Broken, Has, Owns
<1>2. X(c).port
  BY <1>1, InCall
<1> QED  BY <1>2 DEF IntrGone

\* What an event meets when the answer is not there.
LEMMA InterruptedCall ==
  ASSUME MsgAssumption, Inv, NEW c \in Clients, Interrupted(c)
  PROVE  \E r \in Refs, x \in WideRef :
           /\ r = R(c) /\ x = X(c) /\ x = ref[r] /\ Owns(c, r)
           /\ x.state = "IOWAIT" /\ x.iowait = Zero /\ rep[c] = "none"
           /\ \A m \in AllMsgs : m.pr = r => m.from = c /\ m.op = "IO"
<1>1. pc[c] = "iowait" /\ Has(c) /\ Waiting(c) /\ intr[c]
  BY DEF Interrupted, Broken, Has, Owns, Waiting, InExchange
<1>2. PICK r \in Refs, x \in WideRef :
        /\ r = R(c) /\ x = X(c) /\ x = ref[r] /\ Owns(c, r)
        /\ CallAt(pc[c], x, rep[c], intr[c], c)
        /\ \A m \in AllMsgs : m.pr = r => m.from = c /\ m.op # "DISCONNECT"
  BY <1>1, InCall, ZenonT(60)
<1>3. x.state = "IOWAIT" /\ x.iowait = Zero /\ rep[c] = "none"
  BY <1>1, <1>2 DEF CallAt, Interrupted
<1>4. ASSUME NEW m \in AllMsgs, m.pr = r
      PROVE  m.from = c /\ m.op = "IO"
  <2>1. m.from = c /\ m.op \in Ops \ {"DISCONNECT"}
    BY <1>2, <1>4, MessagesTyped DEF Inv
  <2>2. "iowait" \in WaitsFor(m.op)
    BY <1>1, <2>1, NoneFromOthers
  <2> QED  BY <2>1, <2>2 DEF WaitsFor, Ops
<1> QED  BY <1>2, <1>3, <1>4

\* A message less in the queue.
LEMMA MessageGone ==
  ASSUME Inv, NEW k \in 1..Len(port.queue), port'.queue = RemoveAt(port.queue, k),
         held' = held, InHands' = InHands,
         \A m \in InHands \cup held : m.pr # port.queue[k].pr,
         \A m \in AllMsgs : m.pr # port.queue[k].pr => MessageKept(m)
  PROVE  MessagesOK'
<1>1. MessagesOK /\ Typed /\ port.queue \in Seq(Sendable) /\ Spread(port.queue)
  BY MessagesTyped DEF Inv, Protocol, MessagesOK
<1>2. /\ Spread(port'.queue)
      /\ \A m \in ToSet(port'.queue) : m \in ToSet(port.queue) /\ m.pr # port.queue[k].pr
  BY <1>1, ToSetRemove
<1>3. \A m \in ToSet(port'.queue) \cup InHands \cup held : m \in AllMsgs /\ MessageKept(m)
  BY <1>2 DEF AllMsgs
<1>4. \A m \in ToSet(port'.queue) \cup InHands \cup held : Known(m)'
  BY <1>1, <1>3, KnownKept, ZenonT(60) DEF MessagesOK, AllMsgs
<1>5. \A m \in InHands \cup held : m.op # "ABORT" /\ ref'[m.pr].state # "ABWAIT" => ref'[m.pr].msg = m
  BY <1>1, <1>3 DEF MessagesOK, MessageKept
<1> QED  BY <1>1, <1>2, <1>4, <1>5 DEF MessagesOK

\* An event, and the message is still in the queue.
LEMMA IntrWithdrawOK ==
  ASSUME MsgAssumption, Inv, NEW c \in Clients, OthersStay(c), IntrWithdraw(c)
  PROVE  Protocol'
<1>1. Interrupted(c) /\ InQueue(c) /\ pc[c] = "iowait"
  BY DEF IntrWithdraw, Interrupted, Broken
<1>2. PICK r \in Refs, x \in WideRef :
        /\ r = R(c) /\ x = X(c) /\ x = ref[r] /\ Owns(c, r)
        /\ x.state = "IOWAIT" /\ x.iowait = Zero
        /\ \A m \in AllMsgs : m.pr = r => m.from = c /\ m.op = "IO"
  BY <1>1, InterruptedCall
<1>3. PICK k \in 1..Len(port.queue) : k = PlaceOf(c) /\ Sent(c, port.queue[k])
  BY <1>1 DEF InQueue, PlaceOf
<1>4. port.queue[k] \in ToSet(port.queue)
  BY DEF ToSet
<1>5. port.queue[k].pr = r
  BY <1>2, <1>3, <1>4, NoneFromOthers DEF Sent, AllMsgs
<1>6. PICK z : z = [x EXCEPT !.state = "IODONE"]
  OBVIOUS
<1>7. /\ z \in WideRef /\ z.alloc = x.alloc /\ z.port = x.port /\ z.refs = x.refs /\ z.sema = x.sema
      /\ Resting(z)
  BY <1>2, <1>6 DEF WideRef, States, Resting
<1>8. /\ Return(c) /\ slots' = slots /\ NoEvent(c) /\ ref' = [ref EXCEPT ![r] = Out(z, my[c].nseg)]
      /\ port' = [port EXCEPT !.queue = RemoveAt(@, k), !.wait = AdjSema(@, -1)]
  BY <1>2, <1>3, <1>6 DEF IntrWithdraw
<1>9. pc'[c] = "out" /\ rep'[c] = "none" /\ ~intr'[c] /\ port'.queue = RemoveAt(port.queue, k)
  BY <1>8 DEF Return, Goto, NoEvent, Inv, Typed, ThreadsTyped, KernelTyped, Threads, WidePort
<1>10. /\ ServerStays' /\ EventsOK' /\ PortOK' /\ TablesOK' /\ MutexesOK' /\ CallsOK'
       /\ InHands' = InHands /\ held' = held
       /\ \A m \in AllMsgs : m.pr # r => MessageKept(m)
  BY <1>1, <1>2, <1>7, <1>8, <1>9, ClientLeaves
<1>11. \A m \in InHands \cup held : m.pr # r
  <2> SUFFICES ASSUME NEW m \in InHands \cup held, m.pr = r
               PROVE  FALSE
    OBVIOUS
  <2>1. Aborts(port.queue[k], m)
    BY <1>4, <1>5 DEF Inv, Protocol, MessagesOK
  <2> QED  BY <1>3, <2>1 DEF Aborts, Sent
<1>12. MessagesOK'
  BY <1>5, <1>9, <1>10, <1>11, MessageGone
<1> QED  BY <1>10, <1>12 DEF Protocol

\* An event, and a server has the message.
LEMMA IntrAbortOK ==
  ASSUME MsgAssumption, Inv, NEW c \in Clients, OthersStay(c), IntrAbort(c)
  PROVE  Protocol'
<1>1. Interrupted(c) /\ ~InQueue(c) /\ pc[c] = "iowait"
  BY DEF IntrAbort, Interrupted, Broken
<1>2. PICK r \in Refs, x \in WideRef :
        /\ r = R(c) /\ x = X(c) /\ x = ref[r] /\ Owns(c, r)
        /\ x.state = "IOWAIT" /\ x.iowait = Zero /\ rep[c] = "none"
        /\ \A m \in AllMsgs : m.pr = r => m.from = c /\ m.op = "IO"
  BY <1>1, InterruptedCall
<1>3. /\ port \in WidePort /\ pc \in [Threads -> ClientPcs \cup ServerPcs] /\ ref \in [Refs -> WideRef]
      /\ my \in [Clients -> Local] /\ intr \in [Threads -> BOOLEAN] /\ c \in Threads
  BY DEF Inv, Typed, ThreadsTyped, KernelTyped, Threads
<1>4. PICK n \in Sendable : n = Message("ABORT", c, r, Null, FALSE)
  BY SentTyped
<1>5. n.pr = r /\ n.from = c /\ n.op = "ABORT"
  BY <1>4 DEF Message
<1>6. PICK z : z = [x EXCEPT !.state = "ABWAIT", !.iowait = PSema(x.iowait, c)]
  OBVIOUS
<1>7. /\ port' = Enqueue(port, n) /\ ref' = [ref EXCEPT ![r] = z] /\ slots' = slots
      /\ pc' = [pc EXCEPT ![c] = "abwait"] /\ my' = my /\ rep' = rep /\ intr' = [intr EXCEPT ![c] = FALSE]
  BY <1>2, <1>4, <1>6 DEF IntrAbort, Goto, NoEvent
<1>8. /\ z.state = "ABWAIT" /\ z.iowait = Asleep(c)
      /\ z.alloc = x.alloc /\ z.port = x.port /\ z.refs = x.refs /\ z.sema = x.sema
  BY <1>2, <1>6, SemaValues DEF WideRef
<1>9. pc'[c] = "abwait" /\ CallAt(pc'[c], z, rep'[c], FALSE, c) /\ ~intr'[c] /\ my'[c] = my[c]
  BY <1>2, <1>3, <1>7, <1>8 DEF CallAt
<1>10. /\ ServerStays' /\ EventsOK' /\ PortOK' /\ TablesOK' /\ MutexesOK' /\ CallsOK'
       /\ InHands' = InHands /\ held' = held
       /\ \A m \in AllMsgs : m.pr # r => MessageKept(m)
  <2>1. pc[c] # "kwait" /\ z.state \notin {"OPENING", "CLOSING"} /\ pc'[c] \in {"iowait", "copy", "abwait"}
    BY <1>1, <1>8, <1>9
  <2> QED  BY <1>2, <1>7, <1>8, <1>9, <2>1, ClientStays
<1>11. ASSUME NEW m \in ToSet(port.queue)
       PROVE  m.pr # r
  <2>1. PICK i \in 1..Len(port.queue) : m = port.queue[i]
    BY <1>11 DEF ToSet
  <2> QED  BY <1>1, <1>2, <1>11, <2>1 DEF InQueue, Sent, AllMsgs
<1>12. ref'[r] = z /\ \A m \in AllMsgs : m.pr = r => Known(m)
  BY <1>3, <1>7 DEF AllMsgs, MessagesOK, Inv, Protocol
<1>13. \A m \in AllMsgs : Known(m)'
  <2> SUFFICES ASSUME NEW m \in AllMsgs
               PROVE  Known(m)'
    OBVIOUS
  <2>1. CASE m.pr = r
    BY <1>2, <1>7, <1>8, <1>9, <1>12, <2>1 DEF Known, StatesOf, WaitsFor, R
  <2>2. CASE m.pr # r
    BY <1>10, <2>2, KnownKept DEF AllMsgs, MessagesOK, Inv, Protocol
  <2> QED  BY <2>1, <2>2
<1>14. Known(n)'
  <2>1. ref[r].alloc
    <3>1. Has(c)
      BY <1>2 DEF Has
    <3>2. X(c).alloc
      BY <3>1, InCall, ZenonT(60)
    <3> QED  BY <1>2, <3>2
  <2>2. ref'[n.pr].alloc /\ ref'[n.pr].state \in StatesOf(n.op)
    BY <1>2, <1>5, <1>8, <1>12, <2>1 DEF StatesOf
  <2>3. R(n.from)' = n.pr /\ pc'[n.from] \in WaitsFor(n.op)
    BY <1>2, <1>5, <1>7, <1>9 DEF WaitsFor, R
  <2> QED  BY <1>5, <2>2, <2>3 DEF Known
<1>15. \A m \in InHands \cup held : /\ n.pr = m.pr => Aborts(n, m)
                                    /\ m.op # "ABORT" /\ ref'[m.pr].state # "ABWAIT" => ref'[m.pr].msg = m
  <2> SUFFICES ASSUME NEW m \in InHands \cup held
               PROVE  /\ n.pr = m.pr => Aborts(n, m)
                      /\ m.op # "ABORT" /\ ref'[m.pr].state # "ABWAIT" => ref'[m.pr].msg = m
    OBVIOUS
  <2>1. CASE m.pr = r
    BY <1>2, <1>5, <1>8, <1>12, <2>1 DEF Aborts, AllMsgs
  <2>2. CASE m.pr # r
    BY <1>5, <1>10, <2>2 DEF AllMsgs, MessagesOK, Inv, Protocol, MessageKept
  <2> QED  BY <2>1, <2>2
<1>16. MessagesOK'
  <2>1. port'.queue = Append(port.queue, n)
    BY <1>3, <1>7 DEF Enqueue, WidePort
  <2> QED  BY <1>5, <1>10, <1>11, <1>13, <1>14, <1>15, <2>1, MessagePosted DEF Inv, Protocol
<1> QED  BY <1>10, <1>16 DEF Protocol

\* Calls that have not got to an exchange yet.
LEMMA ClientCalm ==
  ASSUME MsgAssumption, Inv, NEW c \in Clients, OthersStay(c), ~Waiting(c), ~Waiting(c)',
         \A p \in Refs :
           /\ ref'[p].alloc = ref[p].alloc /\ ref'[p].port = ref[p].port /\ ref'[p].state = ref[p].state
           /\ ref'[p].iowait = ref[p].iowait /\ ref'[p].svwait = ref[p].svwait /\ ref'[p].msg = ref[p].msg,
         port' = port, intr'[c] => pc'[c] \in {"find", "cfind", "iowait"}, rep'[c] = rep[c]
  PROVE  ServerStays' /\ EventsOK' /\ PortOK' /\ CallsOK' /\ MessagesOK'
<1>1. ServerStays' /\ EventsOK' /\ PortOK' /\ InHands' = InHands /\ held' = held
  <2>1. \A p \in Refs : ref'[p].alloc => ref'[p].port
    BY DEF Inv, Protocol, ServerStays
  <2>2. rep'[c] # "none" => Waiting(c)'
    BY DEF Inv, Protocol, EventsOK
  <2> QED  BY <2>1, <2>2, ClientQuiet
<1>2. CallsOK'
  <2>1. \A d \in Clients : Waiting(d) => R(d) \in Refs
    BY DEF Inv, Typed, LocalsSet, Waiting, InExchange
  <2>2. \A s \in Servers : pc'[s] = "dupwake" => pc[s] = "dupwake" /\ got'[s] = got[s]
    BY DEF OthersStay
  <2>3. \A d \in Clients : \/ /\ pc'[d] = pc[d] /\ my'[d].pr = my[d].pr
                              /\ rep'[d] = rep[d] /\ intr'[d] = intr[d]
                           \/ ~Waiting(d) /\ ~Waiting(d)'
    BY DEF OthersStay
  <2> QED  BY <2>1, <2>2, <2>3, CallsSame DEF Inv, Protocol
<1>3. MessagesOK'
  <2>1. ASSUME NEW m \in AllMsgs
        PROVE  MessageKept(m)
    <3>1. m.pr \in Refs /\ m.from \in Clients
      BY <2>1, MessagesTyped DEF Inv
    <3>2. m.op # "DISCONNECT" => m.from # c
      BY <2>1, NoneFromOthers
    <3> QED  BY <3>1, <3>2 DEF MessageKept, OthersStay
  <2> QED  BY <1>1, <2>1, MessagesKept DEF Inv, Protocol
<1> QED  BY <1>1, <1>2, <1>3

\* An event ends the wait for the mutex.
LEMMA FindBrokenOK ==
  ASSUME MsgAssumption, Inv, NEW c \in Clients, OthersStay(c), FindBroken(c)
  PROVE  Protocol'
<1>0. /\ pc \in [Threads -> ClientPcs \cup ServerPcs] /\ intr \in [Threads -> BOOLEAN]
      /\ my \in [Clients -> Local] /\ rep \in [Clients -> {"none", "ok", "segs", "err"}]
      /\ slots \in [Slots -> Refs \cup {Null, Reserved}] /\ LocalsSet /\ c \in Threads
      /\ TablesOK /\ MutexesOK
  BY DEF Inv, Protocol, Typed, ThreadsTyped, KernelTyped, Threads
<1>1. /\ pc[c] \in {"find", "cfind"} /\ intr[c] /\ Return(c) /\ NoEvent(c)
      /\ slots' = slots \/ (pc[c] = "cfind" /\ slots' = [slots EXCEPT ![my[c].slot] = Null])
      /\ ref' = ref /\ port' = port
  BY DEF FindBroken, Broken
<1>2. pc'[c] = "out" /\ rep'[c] = "none" /\ ~intr'[c] /\ rep[c] = "none" /\ ~Waiting(c) /\ ~Waiting(c)' /\ ~Using(c)'
  BY <1>0, <1>1 DEF Return, Goto, NoEvent, Waiting, InExchange, Inv, Protocol, EventsOK, Using
<1>3. ServerStays' /\ EventsOK' /\ PortOK' /\ CallsOK' /\ MessagesOK'
  BY <1>1, <1>2, ClientCalm
<1>4. MutexesOK'
  <2> SUFFICES ASSUME NEW p \in Refs
               PROVE  MutexOK(p)'
    BY DEF MutexesOK
  <2>1. MutexOK(p) /\ ref'[p] = ref[p]
    BY <1>0, <1>1 DEF MutexesOK
  <2>2. ~Queued(ref[p].sema, c) /\ ~Owns(c, p) /\ ~Owns(c, p)'
    BY <1>1, <1>2, <2>1 DEF MutexOK, Owns
  <2>3. \A d \in Clients : d # c => pc'[d] = pc[d] /\ my'[d].pr = my[d].pr /\ intr'[d] = intr[d]
    BY DEF OthersStay
  <2> QED  BY <2>1, <2>2, <2>3, MutexKept
<1>5. TablesOK'
  <2>1. \A d \in Clients : Using(d)' =>
          /\ Using(d) /\ my'[d].slot = my[d].slot /\ my'[d].pr = my[d].pr /\ my'[d].new = my[d].new
          /\ pc'[d] = pc[d] /\ d # c
    BY <1>2 DEF OthersStay, Using
  <2>2. ASSUME NEW k \in Slots
        PROVE  \/ slots'[k] = slots[k]
               \/ /\ slots[k] \notin Refs /\ slots'[k] \notin Refs
                  /\ \A d \in Clients : Reserving(d)' => my[d].slot # k
    <3>1. CASE pc[c] = "cfind" /\ slots' = [slots EXCEPT ![my[c].slot] = Null] /\ k = my[c].slot
      <4>1. Reserving(c) /\ slots'[k] = Null /\ slots[k] = Reserved
        BY <1>0, <3>1 DEF Reserving, TablesOK, SlotsKept
      <4>2. \A d \in Clients : Reserving(d)' => Reserving(d) /\ d # c
        BY <2>1, <1>2 DEF Reserving, Using, OthersStay
      <4>3. \A d \in Clients : Reserving(d)' => my[d].slot # k
        BY <1>0, <3>1, <4>1, <4>2 DEF TablesOK, SlotsKept
      <4> QED  BY <4>1, <4>3 DEF MsgAssumption
    <3>2. CASE slots' = slots
      BY <3>2
    <3>3. CASE slots' = [slots EXCEPT ![my[c].slot] = Null] /\ k # my[c].slot
      BY <1>0, <3>3
    <3> QED  BY <1>1, <3>1, <3>2, <3>3
  <2> QED  BY <1>0, <1>1, <2>1, <2>2, TablesFrame
<1> QED  BY <1>3, <1>4, <1>5 DEF Protocol

\* find_portref(): one more thread uses handle r, and keeps slot j if it clones.
LEMMA TablesJoin ==
  ASSUME MsgAssumption, LocalsSet, TablesOK, NEW c \in Clients, NEW r \in Refs,
         \A d \in Clients : d # c => pc'[d] = pc[d] /\ my'[d] = my[d],
         pc[c] = "out", pc'[c] \in {"find", "cfind"}, my'[c].pr = r, SlotsOf(r) # {},
         \A p \in Refs : ref'[p].alloc = ref[p].alloc /\ ref'[p].refs = ref[p].refs /\ ref'[p].state = ref[p].state,
         NEW j \in Slots, slots \in [Slots -> Refs \cup {Null, Reserved}],
         \/ pc'[c] = "find" /\ slots' = slots
         \/ slots[j] = Null /\ slots' = [slots EXCEPT ![j] = Reserved] /\ my'[c].slot = j
  PROVE  TablesOK'
<1>1. /\ ref[r].alloc /\ ref[r].state \notin {"OPENING", "CLOSING"}
      /\ Null # Reserved /\ Null \notin Refs /\ Reserved \notin Refs
  BY DEF TablesOK, HandlesKept, MsgAssumption
<1>2. \A p \in Refs : SlotsOf(p)' = SlotsOf(p)
  BY <1>1 DEF SlotsOf
<1>3. \A d \in Clients : d # c => /\ Reserving(d)' = Reserving(d) /\ Using(d)' = Using(d) /\ R(d)' = R(d)
                                  /\ Using(d) => R(d) \in Refs
                                  /\ Reserving(d) => my[d].slot \in Slots
                                  /\ pc[d] = "kwait" => my[d].new \in Refs
  BY DEF Reserving, Using, R, LocalsSet
<1>4. ~Using(c) /\ ~Reserving(c) /\ R(c)' = r /\ (Reserving(c)' => pc'[c] # "find") /\ pc'[c] \notin {"opening", "shut", "kwait"}
  BY DEF Using, Reserving, R
<1>5. SlotsKept'
  <2> SUFFICES ASSUME NEW d \in Clients, Reserving(d)'
               PROVE  /\ slots'[my'[d].slot] = Reserved
                      /\ \A e \in Clients : Reserving(e)' /\ e # d => my'[e].slot # my'[d].slot
    BY DEF SlotsKept
  <2>1. \A e \in Clients : e # c /\ Reserving(e) => slots[my[e].slot] = Reserved
    BY DEF TablesOK, SlotsKept
  <2>2. \A e, f \in Clients : e # c /\ f # c /\ e # f /\ Reserving(e) /\ Reserving(f) => my[e].slot # my[f].slot
    BY DEF TablesOK, SlotsKept
  <2>3. Reserving(c)' => slots[j] = Null /\ slots'[j] = Reserved /\ my'[c].slot = j
    BY <1>4
  <2>4. \A e \in Clients : e # c /\ Reserving(e) => slots'[my[e].slot] = Reserved
    BY <1>1, <1>3, <2>1
  <2>5. \A e \in Clients : Reserving(e)' => slots'[my'[e].slot] = Reserved
    BY <1>3, <2>3, <2>4
  <2>6. \A e \in Clients : e # c /\ Reserving(e) /\ Reserving(c)' => my[e].slot # my'[c].slot
    BY <1>1, <2>1, <2>3
  <2>7. ASSUME NEW e \in Clients, Reserving(e)', e # d
        PROVE  my'[e].slot # my'[d].slot
    <3>1. CASE e = c
      BY <1>3, <2>6, <2>7, <3>1
    <3>2. CASE d = c
      BY <1>3, <2>6, <2>7, <3>2
    <3>3. CASE e # c /\ d # c
      BY <1>3, <2>2, <2>7, <3>3
    <3> QED  BY <3>1, <3>2, <3>3
  <2> QED  BY <2>5, <2>7
<1>6. HandlesKept'
  BY <1>2 DEF HandlesKept, TablesOK
<1>7. UsersOK'
  <2> SUFFICES ASSUME NEW d \in Clients, Using(d)'
               PROVE  /\ ref'[R(d)'].alloc /\ ref'[R(d)'].state # "CLOSING"
                      /\ pc'[d] \in Sending => SlotsOf(R(d))' # {}
    BY DEF UsersOK
  <2>1. CASE d = c
    BY <1>1, <1>2, <1>4, <2>1 DEF SlotsOf
  <2>2. CASE d # c
    <3>1. Using(d) /\ R(d)' = R(d) /\ R(d) \in Refs /\ pc'[d] = pc[d]
      BY <1>3, <2>2
    <3>2. /\ ref[R(d)].alloc /\ ref[R(d)].state # "CLOSING"
          /\ pc[d] \in Sending => SlotsOf(R(d)) # {}
      BY <3>1 DEF TablesOK, UsersOK
    <3> QED  BY <1>2, <3>1, <3>2 DEF SlotsOf
  <2> QED  BY <2>1, <2>2
<1>8. AloneOK'
  <2> SUFFICES ASSUME NEW d \in Clients, pc'[d] \in {"opening", "shut"}
               PROVE  /\ SlotsOf(R(d))' = {}
                      /\ pc'[d] = "opening" => ref'[R(d)'].refs = 1
                      /\ \A e \in Clients : Using(e)' /\ e # d => R(e)' # R(d)'
    BY DEF AloneOK
  <2>1. d # c /\ pc[d] \in {"opening", "shut"} /\ Using(d) /\ R(d)' = R(d) /\ R(d) \in Refs
    BY <1>3, <1>4 DEF Using
  <2>2. /\ SlotsOf(R(d)) = {} /\ (pc[d] = "opening" => ref[R(d)].refs = 1)
        /\ \A e \in Clients : Using(e) /\ e # d => R(e) # R(d)
    BY <2>1 DEF TablesOK, AloneOK
  <2>3. R(d) # r
    BY <2>2
  <2>4. SlotsOf(R(d))' = {}
    BY <1>2, <2>1, <2>2 DEF SlotsOf
  <2>5. \A e \in Clients : Using(e)' /\ e # d => R(e)' # R(d)'
    BY <1>3, <1>4, <2>1, <2>2, <2>3
  <2> QED  BY <2>1, <2>2, <2>4, <2>5
<1>9. NewOK'
  <2> SUFFICES ASSUME NEW d \in Clients, pc'[d] = "kwait"
               PROVE  /\ ref'[my'[d].new].alloc /\ ref'[my'[d].new].state \notin {"OPENING", "CLOSING"}
                      /\ ref'[my'[d].new].refs = 1 /\ SlotsOf(my[d].new)' = {}
                      /\ \A e \in Clients : Using(e)' => R(e)' # my'[d].new
                      /\ \A e \in Clients : pc'[e] = "kwait" /\ e # d => my'[e].new # my'[d].new
    BY DEF NewOK
  <2>1. d # c /\ pc[d] = "kwait" /\ my'[d] = my[d] /\ my[d].new \in Refs
    BY <1>3, <1>4
  <2>2. PICK n \in Refs : n = my[d].new
    BY <2>1
  <2>3. /\ ref[n].alloc /\ ref[n].state \notin {"OPENING", "CLOSING"}
        /\ ref[n].refs = 1 /\ SlotsOf(n) = {}
        /\ \A e \in Clients : Using(e) => R(e) # n
        /\ \A e \in Clients : pc[e] = "kwait" /\ e # d => my[e].new # n
    BY <2>1, <2>2, ZenonT(60) DEF TablesOK, NewOK
  <2>4. n # r
    BY <2>3
  <2>5. \A e \in Clients : Using(e)' => R(e)' # n
    BY <1>3, <1>4, <2>3, <2>4
  <2>6. \A e \in Clients : pc'[e] = "kwait" /\ e # d => my'[e].new # n
    BY <1>4, <2>3
  <2>7. SlotsOf(n)' = {}
    BY <1>2, <2>3
  <2>8. SlotsOf(my[d].new)' = {}
    BY <2>1, <2>2, <2>7 DEF SlotsOf
  <2> QED  BY <2>1, <2>2, <2>3, <2>5, <2>6, <2>8
<1> QED  BY <1>5, <1>6, <1>7, <1>8, <1>9 DEF TablesOK

\* find_portref() up to the mutex, for msg_send() and clone().
LEMMA FindOK ==
  ASSUME MsgAssumption, Inv, NEW c \in Clients, OthersStay(c),
         \/ \E k \in Slots, kd \in Kinds : SendFind(c, k, kd)
         \/ \E k, j \in Slots : CloneFind(c, k, j)
  PROVE  Protocol'
<1>0. /\ pc \in [Threads -> ClientPcs \cup ServerPcs] /\ intr \in [Threads -> BOOLEAN]
      /\ my \in [Clients -> Local] /\ ref \in [Refs -> WideRef]
      /\ slots \in [Slots -> Refs \cup {Null, Reserved}] /\ LocalsSet /\ c \in Threads
      /\ TablesOK /\ MutexesOK
  BY DEF Inv, Protocol, Typed, ThreadsTyped, KernelTyped, Threads
<1>1. PICK k \in Slots, j \in Slots :
        /\ pc[c] = "out" /\ InService(k) /\ ref' = [ref EXCEPT ![slots[k]].sema = PSema(@, c)]
        /\ intr' = intr /\ rep' = rep /\ port' = port
        /\ \/ /\ slots' = slots /\ Goto(c, "find")
              /\ \E kd \in Kinds : my' = [my EXCEPT ![c] = [NoCall EXCEPT !.slot = k, !.pr = slots[k],
                                                              !.kind = kd, !.nseg = kd # "send"]]
           \/ /\ slots[j] = Null /\ slots' = [slots EXCEPT ![j] = Reserved] /\ Goto(c, "cfind")
              /\ my' = [my EXCEPT ![c] = [NoCall EXCEPT !.slot = j, !.pr = slots[k]]]
  BY ZenonT(60) DEF SendFind, CloneFind, FreeSlot
<1>2. PICK r \in Refs : r = slots[k]
  BY <1>1 DEF InService
<1>3. PICK x \in WideRef : x = ref[r]
  BY <1>0
<1>4. SlotsOf(r) # {} /\ x.alloc /\ x.state # "CLOSING"
  <2>1. SlotsOf(r) # {}
    BY <1>2 DEF SlotsOf
  <2> QED  BY <1>3, <2>1 DEF Inv, Protocol, TablesOK, HandlesKept
<1>5. /\ pc'[c] \in {"find", "cfind"} /\ my'[c].pr = r
      /\ \/ pc'[c] = "find" /\ slots' = slots
         \/ slots[j] = Null /\ slots' = [slots EXCEPT ![j] = Reserved] /\ my'[c].slot = j
  <2>1. pc'[c] \in {"find", "cfind"} /\ (pc'[c] = "find" \/ slots[j] = Null)
        /\ (pc'[c] = "find" => slots' = slots) /\ (pc'[c] # "find" => slots' = [slots EXCEPT ![j] = Reserved])
    BY <1>0, <1>1 DEF Goto
  <2>2. my'[c].pr = r /\ (pc'[c] = "find" \/ my'[c].slot = j)
    <3>1. CASE Goto(c, "find") /\ \E kd \in Kinds : my' = [my EXCEPT ![c] = [NoCall EXCEPT !.slot = k, !.pr = slots[k],
                                                                           !.kind = kd, !.nseg = kd # "send"]]
      <4>1. pc'[c] = "find"
        BY <1>0, <3>1 DEF Goto
      <4>2. PICK kd \in Kinds : my' = [my EXCEPT ![c] = [NoCall EXCEPT !.slot = k, !.pr = slots[k],
                                                                    !.kind = kd, !.nseg = kd # "send"]]
        BY <3>1
      <4>3. my'[c] = [NoCall EXCEPT !.slot = k, !.pr = slots[k], !.kind = kd, !.nseg = kd # "send"]
        BY <1>0, <4>2, Zenon
      <4>4. my'[c].pr = slots[k]
        BY <4>3 DEF NoCall
      <4> QED  BY <1>2, <4>1, <4>4
    <3>2. CASE my' = [my EXCEPT ![c] = [NoCall EXCEPT !.slot = j, !.pr = slots[k]]]
      BY <1>0, <1>2, <3>2 DEF NoCall
    <3> QED  BY <1>1, <3>1, <3>2
  <2> QED  BY <2>1, <2>2
<1>6. /\ ref'[r] = [x EXCEPT !.sema = PSema(x.sema, c)]
      /\ \A p \in Refs : p # r => ref'[p] = ref[p]
  BY <1>0, <1>1, <1>2, <1>3
<1>7. \A p \in Refs :
        /\ ref'[p].alloc = ref[p].alloc /\ ref'[p].port = ref[p].port /\ ref'[p].state = ref[p].state
        /\ ref'[p].iowait = ref[p].iowait /\ ref'[p].svwait = ref[p].svwait /\ ref'[p].msg = ref[p].msg
        /\ ref'[p].refs = ref[p].refs
  BY <1>3, <1>6 DEF WideRef
<1>8. ~Waiting(c) /\ ~Waiting(c)' /\ ~intr[c] /\ ~intr'[c] /\ rep'[c] = rep[c]
  BY <1>1, <1>5, ZenonT(60) DEF Waiting, InExchange, Inv, Protocol, EventsOK
<1>9. ServerStays' /\ EventsOK' /\ PortOK' /\ CallsOK' /\ MessagesOK'
  BY <1>1, <1>7, <1>8, ClientCalm
<1>10. MutexesOK'
  <2> SUFFICES ASSUME NEW p \in Refs
               PROVE  MutexOK(p)'
    BY DEF MutexesOK
  <2>1. MutexOK(p)
    BY <1>0 DEF MutexesOK
  <2>2. \A d \in Clients : d # c => pc'[d] = pc[d] /\ my'[d].pr = my[d].pr /\ intr'[d] = intr[d]
    BY DEF OthersStay
  <2>3. CASE p = r
    <3>1. ref'[r].sema = PSema(ref[r].sema, c)
      BY <1>3, <1>6 DEF WideRef
    <3>2. ref[r].alloc /\ ref[r].state # "CLOSING"
      BY <1>3, <1>4
    <3> QED  BY <1>0, <1>1, <1>5, <1>8, <2>1, <2>2, <2>3, <3>1, <3>2, MutexTaken
  <2>4. CASE p # r
    <3>1. ref'[p] = ref[p] /\ ~Queued(ref[p].sema, c) /\ ~Owns(c, p) /\ ~Owns(c, p)'
      BY <1>1, <1>5, <1>6, <2>1, <2>4 DEF MutexOK, Owns, R
    <3> QED  BY <2>1, <2>2, <3>1, MutexKept
  <2> QED  BY <2>3, <2>4
<1>11. TablesOK'
  <2>1. \A d \in Clients : d # c => pc'[d] = pc[d] /\ my'[d] = my[d]
    BY DEF OthersStay
  <2>2. \A p \in Refs : ref'[p].alloc = ref[p].alloc /\ ref'[p].refs = ref[p].refs /\ ref'[p].state = ref[p].state
    BY <1>7
  <2>3. pc[c] = "out" /\ SlotsOf(r) # {} /\ slots \in [Slots -> Refs \cup {Null, Reserved}] /\ LocalsSet /\ TablesOK
    BY <1>0, <1>1, <1>4
  <2>4. pc'[c] \in {"find", "cfind"} /\ my'[c].pr = r
    BY <1>5
  <2>5. \/ pc'[c] = "find" /\ slots' = slots
        \/ slots[j] = Null /\ slots' = [slots EXCEPT ![j] = Reserved] /\ my'[c].slot = j
    BY <1>5
  <2> HIDE <1>0, <1>1
  <2> QED  BY <2>1, <2>2, <2>3, <2>4, <2>5, TablesJoin
<1> QED  BY <1>9, <1>10, <1>11 DEF Protocol

\* One reference more, or less, on handle r.
LEMMA TablesCounted ==
  ASSUME MsgAssumption, LocalsSet, TablesOK, NEW c \in Clients, NEW r \in Refs, SlotsOf(r) # {},
         ref \in [Refs -> WideRef], slots \in [Slots -> Refs \cup {Null, Reserved}],
         \A d \in Clients : d # c => pc'[d] = pc[d] /\ my'[d] = my[d],
         NEW n \in Int, ref' = [ref EXCEPT ![r].refs = n],
         IsFiniteSet(SlotsOf(r)'), n = Cardinality(SlotsOf(r)'),
         \A k \in Slots : slots'[k] = slots[k] \/ (slots[k] \in {r, Null} /\ slots'[k] \in {r, Null}),
         \/ pc'[c] = pc[c] /\ my'[c] = my[c] /\ SlotsOf(r)' # {}
         \/ /\ pc[c] = "out" /\ pc'[c] = "shut" /\ my'[c].pr = r /\ SlotsOf(r)' = {}
            /\ \A d \in Clients : Using(d) => R(d) # r
  PROVE  TablesOK'
<1>1. /\ ref[r].alloc /\ ref[r].state \notin {"OPENING", "CLOSING"}
      /\ Null # Reserved /\ Null \notin Refs /\ Reserved \notin Refs
  BY DEF TablesOK, HandlesKept, MsgAssumption
<1>2. \A p \in Refs : /\ p # r => SlotsOf(p)' = SlotsOf(p) /\ ref'[p] = ref[p]
                      /\ ref'[p].alloc = ref[p].alloc /\ ref'[p].state = ref[p].state
  <2>1. ASSUME NEW p \in Refs, p # r
        PROVE  SlotsOf(p)' = SlotsOf(p)
    BY <1>1, <2>1 DEF SlotsOf
  <2> QED  BY <2>1 DEF WideRef
<1>3. ref'[r].refs = n
  BY DEF WideRef
<1>4. \A d \in Clients : d # c => /\ Reserving(d)' = Reserving(d) /\ Using(d)' = Using(d) /\ R(d)' = R(d)
                                  /\ Using(d) => R(d) \in Refs
                                  /\ Reserving(d) => my[d].slot \in Slots
                                  /\ pc[d] = "kwait" => my[d].new \in Refs
  BY DEF Reserving, Using, R, LocalsSet
<1>5. /\ (Reserving(c)' <=> Reserving(c)) /\ (pc'[c] = "shut" \/ (pc'[c] = pc[c] /\ my'[c] = my[c]))
      /\ (pc'[c] = "kwait" => my[c].new \in Refs) /\ (Reserving(c) => my[c].slot \in Slots)
  BY DEF Reserving, LocalsSet
<1>6. SlotsKept'
  <2>1. \A d \in Clients : Reserving(d)' => Reserving(d) /\ my'[d].slot = my[d].slot /\ my[d].slot \in Slots
    BY <1>4, <1>5 DEF Reserving
  <2>2. \A d \in Clients : Reserving(d) => slots[my[d].slot] = Reserved
    BY DEF TablesOK, SlotsKept
  <2>3. \A d \in Clients : Reserving(d)' => slots'[my'[d].slot] = Reserved
    BY <1>1, <2>1, <2>2
  <2>4. \A d, e \in Clients : Reserving(d)' /\ Reserving(e)' /\ e # d => my'[e].slot # my'[d].slot
    BY <2>1 DEF TablesOK, SlotsKept
  <2> QED  BY <2>3, <2>4 DEF SlotsKept
<1>7. HandlesKept'
  <2> SUFFICES ASSUME NEW p \in Refs, SlotsOf(p)' # {}
               PROVE  /\ ref'[p].alloc /\ ref'[p].state \notin {"OPENING", "CLOSING"}
                      /\ IsFiniteSet(SlotsOf(p)') /\ ref'[p].refs = Cardinality(SlotsOf(p)')
    BY DEF HandlesKept, SlotsOf
  <2>1. CASE p = r
    BY <1>1, <1>2, <1>3, <2>1
  <2>2. CASE p # r
    BY <1>2, <2>2 DEF TablesOK, HandlesKept
  <2> QED  BY <2>1, <2>2
<1>8. \A d \in Clients : Using(d)' =>
        \/ Using(d) /\ pc'[d] = pc[d] /\ R(d)' = R(d) /\ R(d) \in Refs
        \/ d = c /\ R(d)' = r /\ pc'[d] = "shut"
  BY <1>4 DEF Using, R, LocalsSet
<1>9. UsersOK'
  <2> SUFFICES ASSUME NEW d \in Clients, Using(d)'
               PROVE  /\ ref'[R(d)'].alloc /\ ref'[R(d)'].state # "CLOSING"
                      /\ pc'[d] \in Sending => SlotsOf(R(d))' # {}
    BY DEF UsersOK
  <2>1. CASE d = c /\ R(d)' = r /\ pc'[d] = "shut"
    BY <1>1, <1>2, <2>1 DEF Sending
  <2>2. CASE Using(d) /\ pc'[d] = pc[d] /\ R(d)' = R(d) /\ R(d) \in Refs
    <3>1. /\ ref[R(d)].alloc /\ ref[R(d)].state # "CLOSING"
          /\ pc[d] \in Sending => SlotsOf(R(d)) # {}
      BY <2>2 DEF TablesOK, UsersOK
    <3>2. PICK p \in Refs : p = R(d)
      BY <2>2
    <3>3. pc[d] \in Sending => SlotsOf(p)' # {}
      BY <1>2, <2>2, <3>1, <3>2
    <3>4. SlotsOf(R(d))' = SlotsOf(p)'
      BY <2>2, <3>2 DEF SlotsOf
    <3> QED  BY <1>2, <2>2, <3>1, <3>2, <3>3, <3>4
  <2> QED  BY <1>8, <2>1, <2>2
<1>10. AloneOK'
  <2> SUFFICES ASSUME NEW d \in Clients, pc'[d] \in {"opening", "shut"}
               PROVE  /\ SlotsOf(R(d))' = {}
                      /\ pc'[d] = "opening" => ref'[R(d)'].refs = 1
                      /\ \A e \in Clients : Using(e)' /\ e # d => R(e)' # R(d)'
    BY DEF AloneOK
  <2>0. Using(d)'
    BY DEF Using
  <2>1. CASE d = c /\ R(d)' = r /\ pc'[d] = "shut" /\ pc[c] = "out"
    <3>1. SlotsOf(r)' = {} /\ \A e \in Clients : Using(e) => R(e) # r
      BY <2>1
    <3>2. SlotsOf(R(d))' = {}
      BY <2>1, <3>1 DEF SlotsOf
    <3> QED  BY <1>4, <2>1, <3>1, <3>2
  <2>2. CASE Using(d) /\ pc'[d] = pc[d] /\ R(d)' = R(d) /\ R(d) \in Refs
    <3>1. /\ SlotsOf(R(d)) = {} /\ (pc[d] = "opening" => ref[R(d)].refs = 1)
          /\ \A e \in Clients : Using(e) /\ e # d => R(e) # R(d)
      BY <2>2 DEF TablesOK, AloneOK
    <3>2. PICK p \in Refs : p = R(d) /\ p # r
      BY <2>2, <3>1
    <3>3. SlotsOf(R(d))' = SlotsOf(p)'
      BY <2>2, <3>2 DEF SlotsOf
    <3>4. \A e \in Clients : Using(e)' /\ e # d => R(e)' # R(d)'
      BY <1>8, <2>2, <3>1, <3>2
    <3> QED  BY <1>2, <2>2, <3>1, <3>2, <3>3, <3>4
  <2>3. \/ d = c /\ R(d)' = r /\ pc'[d] = "shut" /\ pc[c] = "out"
        \/ Using(d) /\ pc'[d] = pc[d] /\ R(d)' = R(d) /\ R(d) \in Refs
    BY <1>4, <2>0 DEF Using, R, LocalsSet
  <2> QED  BY <2>1, <2>2, <2>3
<1>11. NewOK'
  <2> SUFFICES ASSUME NEW d \in Clients, pc'[d] = "kwait"
               PROVE  /\ ref'[my'[d].new].alloc /\ ref'[my'[d].new].state \notin {"OPENING", "CLOSING"}
                      /\ ref'[my'[d].new].refs = 1 /\ SlotsOf(my[d].new)' = {}
                      /\ \A e \in Clients : Using(e)' => R(e)' # my'[d].new
                      /\ \A e \in Clients : pc'[e] = "kwait" /\ e # d => my'[e].new # my'[d].new
    BY DEF NewOK
  <2>1. pc[d] = "kwait" /\ my'[d] = my[d] /\ my[d].new \in Refs
    BY <1>4, <1>5
  <2>2. PICK n0 \in Refs : n0 = my[d].new
    BY <2>1
  <2>3. /\ ref[n0].alloc /\ ref[n0].state \notin {"OPENING", "CLOSING"}
        /\ ref[n0].refs = 1 /\ SlotsOf(n0) = {}
        /\ \A e \in Clients : Using(e) => R(e) # n0
        /\ \A e \in Clients : pc[e] = "kwait" /\ e # d => my[e].new # n0
    BY <2>1, <2>2, ZenonT(60) DEF TablesOK, NewOK
  <2>4. n0 # r
    BY <2>3
  <2>5. \A e \in Clients : Using(e)' => R(e)' # n0
    BY <1>8, <2>3, <2>4
  <2>6. \A e \in Clients : pc'[e] = "kwait" /\ e # d => my'[e].new # n0
    BY <1>5, <2>3
  <2>7. SlotsOf(n0)' = {} /\ ref'[n0] = ref[n0]
    BY <1>2, <2>3, <2>4
  <2>8. SlotsOf(my[d].new)' = {}
    BY <2>1, <2>2, <2>7 DEF SlotsOf
  <2> QED  BY <2>1, <2>2, <2>3, <2>5, <2>6, <2>7, <2>8
<1> QED  BY <1>6, <1>7, <1>9, <1>10, <1>11 DEF TablesOK

\* fork_ports() and msg_disconnect().
LEMMA CountOK ==
  ASSUME MsgAssumption, "busy" \notin Does, Inv, NEW c \in Clients, OthersStay(c),
         \/ \E k, j \in Slots : ForkPort(c, k, j)
         \/ \E k \in Slots : MsgDisconnect(c, k)
  PROVE  Protocol'
<1>0. /\ pc \in [Threads -> ClientPcs \cup ServerPcs] /\ intr \in [Threads -> BOOLEAN]
      /\ my \in [Clients -> Local] /\ ref \in [Refs -> WideRef]
      /\ slots \in [Slots -> Refs \cup {Null, Reserved}] /\ LocalsSet /\ c \in Threads
      /\ TablesOK /\ MutexesOK
  BY DEF Inv, Protocol, Typed, ThreadsTyped, KernelTyped, Threads
<1>1. PICK r \in Refs, k \in Slots :
        /\ r = slots[k] /\ pc[c] = "out" /\ intr' = intr /\ rep' = rep /\ port' = port
        /\ \/ /\ \E j \in Slots : slots[j] = Null /\ slots' = [slots EXCEPT ![j] = r]
              /\ ref' = [ref EXCEPT ![r].refs = @ + 1] /\ pc' = pc /\ my' = my
           \/ /\ slots' = [slots EXCEPT ![k] = Null] /\ ref' = [ref EXCEPT ![r].refs = @ - 1]
              /\ (~LastRef(r) \/ ~InUse(r))
              /\ IF LastRef(r)
                 THEN my' = [my EXCEPT ![c] = [NoCall EXCEPT !.pr = r]] /\ Goto(c, "shut")
                 ELSE pc' = pc /\ my' = my
  <2>1. CASE \E k, j \in Slots : ForkPort(c, k, j)
    <3>1. PICK k \in Slots, j \in Slots : ForkPort(c, k, j)
      BY <2>1
    <3>2. slots[k] \in Refs
      BY <3>1 DEF ForkPort, InService
    <3> QED  BY <3>1, <3>2, ZenonT(60) DEF ForkPort, FreeSlot
  <2>2. CASE \E k \in Slots : MsgDisconnect(c, k)
    <3>1. PICK k \in Slots : MsgDisconnect(c, k)
      BY <2>2
    <3>2. slots[k] \in Refs
      BY <3>1 DEF MsgDisconnect, InService
    <3> QED  BY <3>1, <3>2, ZenonT(60) DEF MsgDisconnect, DeletePortref
  <2> QED  BY <2>1, <2>2
<1>2. PICK S, n : S = SlotsOf(r) /\ n = ref[r].refs
  OBVIOUS
<1>3. k \in S /\ IsFiniteSet(S) /\ n = Cardinality(S) /\ n \in Nat
  <2>1. k \in S
    BY <1>1, <1>2 DEF SlotsOf
  <2>2. IsFiniteSet(S) /\ n = Cardinality(S)
    BY <1>0, <1>2, <2>1 DEF TablesOK, HandlesKept
  <2> QED  BY <2>1, <2>2, FS_CardinalityType
<1>4. \A p \in Refs :
        /\ ref'[p].alloc = ref[p].alloc /\ ref'[p].port = ref[p].port /\ ref'[p].state = ref[p].state
        /\ ref'[p].iowait = ref[p].iowait /\ ref'[p].svwait = ref[p].svwait /\ ref'[p].msg = ref[p].msg
        /\ ref'[p].sema = ref[p].sema
  <2>1. PICK y : ref' = [ref EXCEPT ![r].refs = y]
    BY <1>1
  <2> QED  BY <1>0, <2>1 DEF WideRef
<1>5. /\ \A d \in Clients : d # c => pc'[d] = pc[d] /\ my'[d] = my[d] /\ intr'[d] = intr[d]
      /\ pc'[c] \in {"out", "shut"} /\ ~intr[c] /\ ~intr'[c] /\ rep'[c] = rep[c]
  BY <1>0, <1>1 DEF OthersStay, Goto, Inv, Protocol, EventsOK
<1>6. ~Waiting(c) /\ ~Waiting(c)' /\ \A p \in Refs : ~Owns(c, p) /\ ~Owns(c, p)'
  BY <1>1, <1>5 DEF Waiting, InExchange, Owns
<1>7. ServerStays' /\ EventsOK' /\ PortOK' /\ CallsOK' /\ MessagesOK'
  BY <1>1, <1>4, <1>5, <1>6, ClientCalm
<1>8. MutexesOK'
  <2> SUFFICES ASSUME NEW p \in Refs
               PROVE  MutexOK(p)'
    BY DEF MutexesOK
  <2>1. MutexOK(p)
    BY <1>0 DEF MutexesOK
  <2>2. ~Queued(ref[p].sema, c)
    BY <1>1, <2>1 DEF MutexOK
  <2>3. /\ ref'[p].sema = ref[p].sema
        /\ ref'[p].alloc /\ ref'[p].state # "CLOSING" => ref[p].alloc /\ ref[p].state # "CLOSING"
    BY <1>4
  <2>4. \A d \in Clients : \/ pc'[d] = pc[d] /\ my'[d].pr = my[d].pr /\ intr'[d] = intr[d]
                           \/ ~Queued(ref[p].sema, d) /\ (Owns(d, p)' <=> Owns(d, p))
    BY <1>5, <1>6, <2>2
  <2> QED  BY <2>1, <2>3, <2>4, MutexKept
<1>9. CASE /\ \E j \in Slots : slots[j] = Null /\ slots' = [slots EXCEPT ![j] = r]
           /\ ref' = [ref EXCEPT ![r].refs = @ + 1] /\ pc' = pc /\ my' = my
  <2>1. PICK j \in Slots : slots[j] = Null /\ slots' = [slots EXCEPT ![j] = r]
    BY <1>9
  <2>2. SlotsOf(r)' = S \cup {j} /\ j \notin S
    BY <1>0, <1>2, <2>1 DEF SlotsOf, MsgAssumption
  <2>3. IsFiniteSet(S \cup {j}) /\ n + 1 = Cardinality(S \cup {j}) /\ n + 1 \in Int
    BY <1>3, <2>2, FS_AddElement
  <2>4. \A i \in Slots : slots'[i] = slots[i] \/ (slots[i] \in {r, Null} /\ slots'[i] \in {r, Null})
    BY <1>0, <2>1
  <2>5. SlotsOf(r)' # {} /\ SlotsOf(r) # {} /\ pc'[c] = pc[c] /\ my'[c] = my[c]
    BY <1>2, <1>3, <1>9, <2>2
  <2>6. ref' = [ref EXCEPT ![r].refs = n + 1]
    BY <1>2, <1>9
  <2>7. IsFiniteSet(SlotsOf(r)') /\ n + 1 = Cardinality(SlotsOf(r)')
    BY <2>2, <2>3
  <2>8. TablesOK'
    BY <1>0, <1>5, <2>3, <2>4, <2>5, <2>6, <2>7, TablesCounted
  <2> QED  BY <1>7, <1>8, <2>8 DEF Protocol
<1>10. CASE /\ slots' = [slots EXCEPT ![k] = Null] /\ ref' = [ref EXCEPT ![r].refs = @ - 1]
            /\ (~LastRef(r) \/ ~InUse(r))
            /\ IF LastRef(r)
               THEN my' = [my EXCEPT ![c] = [NoCall EXCEPT !.pr = r]] /\ Goto(c, "shut")
               ELSE pc' = pc /\ my' = my
  <2>2. SlotsOf(r)' = S \ {k}
    BY <1>0, <1>1, <1>2, <1>10 DEF SlotsOf, MsgAssumption
  <2>3. IsFiniteSet(S \ {k}) /\ n - 1 = Cardinality(S \ {k}) /\ n - 1 \in Nat /\ n - 1 \in Int
    <3>1. IsFiniteSet(S \ {k}) /\ Cardinality(S \ {k}) = n - 1
      BY <1>3, FS_RemoveElement
    <3> QED  BY <1>3, <3>1, FS_CardinalityType
  <2>4. \A i \in Slots : slots'[i] = slots[i] \/ (slots[i] \in {r, Null} /\ slots'[i] \in {r, Null})
    BY <1>0, <1>1, <1>10
  <2>5. SlotsOf(r) # {}
    BY <1>2, <1>3
  <2>6. ref' = [ref EXCEPT ![r].refs = n - 1]
    BY <1>2, <1>10
  <2>7. IsFiniteSet(SlotsOf(r)') /\ n - 1 = Cardinality(SlotsOf(r)')
    BY <2>2, <2>3
  <2>8. CASE LastRef(r)
    <3>1. n - 1 = 0
      BY <1>2, <1>3, <2>3, <2>8 DEF LastRef
    <3>2. S \ {k} = {}
      BY <2>3, <3>1, FS_EmptySet
    <3>3. \A d \in Clients : Using(d) => R(d) # r
      BY <1>10, <2>8 DEF InUse, Using
    <3>4. pc'[c] = "shut" /\ my'[c].pr = r
      BY <1>0, <1>10, <2>8 DEF Goto, NoCall
    <3>5. TablesOK'
      BY <1>0, <1>1, <1>5, <2>2, <2>3, <2>4, <2>5, <2>6, <2>7, <3>2, <3>3, <3>4, TablesCounted
    <3> QED  BY <1>7, <1>8, <3>5 DEF Protocol
  <2>9. CASE ~LastRef(r)
    <3>1. n - 1 # 0
      BY <1>2, <1>3, <2>9 DEF LastRef
    <3>2. S \ {k} # {}
      BY <2>3, <3>1, FS_EmptySet
    <3>3. pc'[c] = pc[c] /\ my'[c] = my[c]
      BY <1>10, <2>9
    <3>5. TablesOK'
      BY <1>0, <1>5, <2>2, <2>3, <2>4, <2>5, <2>6, <2>7, <3>2, <3>3, TablesCounted
    <3> QED  BY <1>7, <1>8, <3>5 DEF Protocol
  <2> QED  BY <2>8, <2>9
<1> QED  BY <1>1, <1>9, <1>10

-----------------------------------------------------------------------------
(* Handles that come and go.                                               *)

\* Nobody knows memory that holds no portref.
LEMMA FreshRef ==
  ASSUME Inv, NEW n \in Refs, ~ref[n].alloc
  PROVE  /\ SlotsOf(n) = {}
         /\ \A d \in Clients : Using(d) => R(d) # n
         /\ \A d \in Clients : pc[d] = "kwait" => my[d].new # n
         /\ \A d \in Clients : Waiting(d) => R(d) # n
         /\ \A m \in AllMsgs : m.pr # n
<1>1. SlotsOf(n) = {}
  BY DEF Inv, Protocol, TablesOK, HandlesKept
<1>2. \A d \in Clients : Using(d) => R(d) # n
  BY DEF Inv, Protocol, TablesOK, UsersOK
<1>3. \A d \in Clients : pc[d] = "kwait" => my[d].new # n
  BY ZenonT(60) DEF Inv, Protocol, TablesOK, NewOK
<1>4. \A d \in Clients : Waiting(d) => Using(d)
  BY DEF Waiting, Using, InExchange
<1>5. \A m \in AllMsgs : m.pr # n
  BY DEF Inv, Protocol, MessagesOK, AllMsgs, Known
<1> QED  BY <1>1, <1>2, <1>3, <1>4, <1>5

\* A thread waits for its new handle n.
LEMMA TablesFresh ==
  ASSUME MsgAssumption, Inv, NEW c \in Clients, NEW n \in Refs, ~ref[n].alloc,
         \A d \in Clients : d # c => pc'[d] = pc[d] /\ my'[d] = my[d],
         NEW k \in Slots, my'[c].slot = k,
         \/ /\ pc[c] = "out" /\ pc'[c] = "opening" /\ my'[c].pr = n
            /\ slots[k] = Null /\ slots' = [slots EXCEPT ![k] = Reserved]
         \/ /\ pc[c] = "cfind" /\ pc'[c] = "kwait" /\ my'[c].pr = my[c].pr /\ my'[c].new = n
            /\ my[c].slot = k /\ slots' = slots /\ ref'[n].state # "OPENING",
         ref'[n].alloc, ref'[n].refs = 1, ref'[n].state # "CLOSING",
         \A p \in Refs : p # n =>
            /\ ref'[p].alloc = ref[p].alloc /\ ref'[p].refs = ref[p].refs
            /\ \/ ref'[p].state = ref[p].state
               \/ ref[p].state # "CLOSING" /\ ref'[p].state \notin {"OPENING", "CLOSING"}
  PROVE  TablesOK'
<1>0. /\ SlotsOf(n) = {}
      /\ \A d \in Clients : Using(d) => R(d) # n
      /\ \A d \in Clients : pc[d] = "kwait" => my[d].new # n
  BY FreshRef
<1>1. /\ Null # Reserved /\ Null \notin Refs /\ Reserved \notin Refs /\ LocalsSet /\ TablesOK
      /\ slots \in [Slots -> Refs \cup {Null, Reserved}]
  BY DEF MsgAssumption, Inv, Protocol, Typed, KernelTyped
<1>2. \A p \in Refs : SlotsOf(p)' = SlotsOf(p)
  BY <1>1 DEF SlotsOf
<1>3. \A d \in Clients : d # c => /\ Reserving(d)' = Reserving(d) /\ Using(d)' = Using(d) /\ R(d)' = R(d)
                                  /\ Using(d) => R(d) \in Refs
                                  /\ Reserving(d) => my[d].slot \in Slots
                                  /\ pc[d] = "kwait" => my[d].new \in Refs
  BY <1>1 DEF Reserving, Using, R, LocalsSet
<1>4. /\ Using(c)' /\ Reserving(c)' /\ pc'[c] # "shut" /\ (Reserving(c) => pc[c] = "cfind")
      /\ \/ pc'[c] = "opening" /\ R(c)' = n
         \/ pc'[c] = "kwait" /\ Using(c) /\ pc[c] \in Sending /\ R(c)' = R(c) /\ R(c) \in Refs
  BY <1>1 DEF Using, Reserving, R, Sending, LocalsSet
<1>5. SlotsKept'
  <2>1. \A e \in Clients : e # c /\ Reserving(e) => slots[my[e].slot] = Reserved /\ my[e].slot # k
    <3> SUFFICES ASSUME NEW e \in Clients, e # c, Reserving(e)
                 PROVE  slots[my[e].slot] = Reserved /\ my[e].slot # k
      OBVIOUS
    <3>1. slots[my[e].slot] = Reserved
      BY <1>1 DEF TablesOK, SlotsKept
    <3>2. CASE slots[k] = Null
      BY <1>1, <3>1, <3>2
    <3>3. CASE pc[c] = "cfind" /\ my[c].slot = k
      <4>1. Reserving(c)
        BY <3>3 DEF Reserving
      <4> QED  BY <1>1, <3>1, <3>3, <4>1 DEF TablesOK, SlotsKept
    <3> QED  BY <3>1, <3>2, <3>3
  <2>2. slots'[k] = Reserved
    <3>1. CASE slots' = [slots EXCEPT ![k] = Reserved]
      BY <1>1, <3>1
    <3>2. CASE pc[c] = "cfind" /\ my[c].slot = k /\ slots' = slots
      <4>1. Reserving(c)
        BY <3>2 DEF Reserving
      <4> QED  BY <1>1, <3>2, <4>1 DEF TablesOK, SlotsKept
    <3> QED  BY <3>1, <3>2
  <2>3. \A e \in Clients : e # c /\ Reserving(e) => slots'[my[e].slot] = Reserved
    BY <1>1, <1>3, <2>1
  <2>4. \A e \in Clients : Reserving(e)' => slots'[my'[e].slot] = Reserved
    BY <1>3, <2>2, <2>3
  <2>5. \A d, e \in Clients : d # c /\ e # c /\ d # e /\ Reserving(d) /\ Reserving(e) => my[e].slot # my[d].slot
    BY <1>1 DEF TablesOK, SlotsKept
  <2>6. ASSUME NEW d \in Clients, NEW e \in Clients, Reserving(d)', Reserving(e)', e # d
        PROVE  my'[e].slot # my'[d].slot
    <3>1. CASE e = c
      BY <1>3, <2>1, <2>6, <3>1
    <3>2. CASE d = c
      BY <1>3, <2>1, <2>6, <3>2
    <3>3. CASE e # c /\ d # c
      BY <1>3, <2>5, <2>6, <3>3
    <3> QED  BY <3>1, <3>2, <3>3
  <2> QED  BY <2>4, <2>6 DEF SlotsKept
<1>6. HandlesKept'
  <2> SUFFICES ASSUME NEW p \in Refs, SlotsOf(p)' # {}
               PROVE  /\ ref'[p].alloc /\ ref'[p].state \notin {"OPENING", "CLOSING"}
                      /\ IsFiniteSet(SlotsOf(p)') /\ ref'[p].refs = Cardinality(SlotsOf(p)')
    BY DEF HandlesKept, SlotsOf
  <2>1. SlotsOf(p)' = SlotsOf(p) /\ p # n
    BY <1>0, <1>2
  <2> QED  BY <1>1, <2>1 DEF TablesOK, HandlesKept
<1>7. UsersOK'
  <2> SUFFICES ASSUME NEW d \in Clients, Using(d)'
               PROVE  /\ ref'[R(d)'].alloc /\ ref'[R(d)'].state # "CLOSING"
                      /\ pc'[d] \in Sending => SlotsOf(R(d))' # {}
    BY DEF UsersOK
  <2>1. CASE d = c /\ pc'[c] = "opening" /\ R(c)' = n
    BY <2>1 DEF Sending
  <2>2. CASE Using(d) /\ R(d)' = R(d) /\ R(d) \in Refs /\ (pc'[d] \in Sending => pc[d] \in Sending)
    <3>1. /\ ref[R(d)].alloc /\ ref[R(d)].state # "CLOSING"
          /\ pc[d] \in Sending => SlotsOf(R(d)) # {}
      BY <1>1, <2>2 DEF TablesOK, UsersOK
    <3>2. PICK p \in Refs : p = R(d) /\ p # n
      BY <1>0, <2>2
    <3>3. SlotsOf(R(d))' = SlotsOf(p)'
      BY <2>2, <3>2 DEF SlotsOf
    <3>4. ref'[p].alloc /\ ref'[p].state # "CLOSING"
      BY <3>1, <3>2
    <3> QED  BY <1>2, <2>2, <3>1, <3>2, <3>3, <3>4
  <2>3. \/ d = c /\ pc'[c] = "opening" /\ R(c)' = n
        \/ Using(d) /\ R(d)' = R(d) /\ R(d) \in Refs /\ (pc'[d] \in Sending => pc[d] \in Sending)
    BY <1>3, <1>4
  <2> QED  BY <2>1, <2>2, <2>3
<1>8. AloneOK'
  <2> SUFFICES ASSUME NEW d \in Clients, pc'[d] \in {"opening", "shut"}
               PROVE  /\ SlotsOf(R(d))' = {}
                      /\ pc'[d] = "opening" => ref'[R(d)'].refs = 1
                      /\ \A e \in Clients : Using(e)' /\ e # d => R(e)' # R(d)'
    BY DEF AloneOK
  <2>1. CASE d = c
    <3>1. R(c)' = n /\ pc'[c] = "opening"
      BY <1>4, <2>1
    <3>2. SlotsOf(R(d))' = {}
      BY <1>0, <1>2, <2>1, <3>1 DEF SlotsOf
    <3> QED  BY <1>0, <1>3, <2>1, <3>1, <3>2
  <2>2. CASE d # c
    <3>0. pc[d] \in {"opening", "shut"} /\ Using(d) /\ R(d)' = R(d) /\ R(d) \in Refs /\ pc'[d] = pc[d]
      BY <1>3, <2>2 DEF Using
    <3>1. /\ SlotsOf(R(d)) = {} /\ (pc[d] = "opening" => ref[R(d)].refs = 1)
          /\ \A e \in Clients : Using(e) /\ e # d => R(e) # R(d)
      BY <1>1, <3>0 DEF TablesOK, AloneOK
    <3>2. PICK p \in Refs : p = R(d) /\ p # n
      BY <1>0, <3>0
    <3>3. SlotsOf(R(d))' = SlotsOf(p)'
      BY <3>0, <3>2 DEF SlotsOf
    <3>4. \A e \in Clients : Using(e)' /\ e # d => R(e)' # R(d)'
      BY <1>0, <1>3, <1>4, <3>0, <3>1, <3>2
    <3>5. ref'[p].refs = ref[p].refs
      BY <3>2
    <3> QED  BY <1>2, <3>0, <3>1, <3>2, <3>3, <3>4, <3>5
  <2> QED  BY <2>1, <2>2
<1>9. NewOK'
  <2> SUFFICES ASSUME NEW d \in Clients, pc'[d] = "kwait"
               PROVE  /\ ref'[my'[d].new].alloc /\ ref'[my'[d].new].state \notin {"OPENING", "CLOSING"}
                      /\ ref'[my'[d].new].refs = 1 /\ SlotsOf(my[d].new)' = {}
                      /\ \A e \in Clients : Using(e)' => R(e)' # my'[d].new
                      /\ \A e \in Clients : pc'[e] = "kwait" /\ e # d => my'[e].new # my'[d].new
    BY DEF NewOK
  <2>1. CASE d = c
    <3>1. my'[d].new = n /\ R(c)' = R(c) /\ Using(c) /\ ref'[n].state # "OPENING" /\ pc'[c] = "kwait"
      BY <1>4, <2>1
    <3>2. SlotsOf(my[d].new)' = {}
      BY <1>0, <1>2, <3>1 DEF SlotsOf
    <3>3. \A e \in Clients : Using(e)' => R(e)' # n
      BY <1>0, <1>3, <3>1
    <3>4. \A e \in Clients : pc'[e] = "kwait" /\ e # d => my'[e].new # n
      BY <1>0, <2>1
    <3> QED  BY <3>1, <3>2, <3>3, <3>4
  <2>2. CASE d # c
    <3>1. pc[d] = "kwait" /\ my'[d] = my[d] /\ my[d].new \in Refs
      BY <1>3, <2>2
    <3>2. PICK q \in Refs : q = my[d].new
      BY <3>1
    <3>3. /\ ref[q].alloc /\ ref[q].state \notin {"OPENING", "CLOSING"}
          /\ ref[q].refs = 1 /\ SlotsOf(q) = {}
          /\ \A e \in Clients : Using(e) => R(e) # q
          /\ \A e \in Clients : pc[e] = "kwait" /\ e # d => my[e].new # q
      BY <1>1, <3>1, <3>2, ZenonT(60) DEF TablesOK, NewOK
    <3>4. q # n
      BY <3>3
    <3>5. \A e \in Clients : Using(e)' => R(e)' # q
      BY <1>3, <1>4, <3>3, <3>4
    <3>6. \A e \in Clients : pc'[e] = "kwait" /\ e # d => my'[e].new # q
      <4>1. \A e \in Clients : pc'[e] = "kwait" /\ e # c => pc[e] = "kwait" /\ my'[e] = my[e]
        OBVIOUS
      <4>2. pc'[c] = "kwait" => my'[c].new = n
        OBVIOUS
      <4> QED  BY <3>3, <3>4, <4>1, <4>2
    <3>7. SlotsOf(my[d].new)' = {}
      BY <1>2, <3>1, <3>2, <3>3 DEF SlotsOf
    <3>8. ref'[q].alloc /\ ref'[q].state \notin {"OPENING", "CLOSING"} /\ ref'[q].refs = 1
      BY <3>3, <3>4
    <3> QED  BY <3>1, <3>2, <3>5, <3>6, <3>7, <3>8
  <2> QED  BY <2>1, <2>2
<1> QED  BY <1>5, <1>6, <1>7, <1>8, <1>9 DEF TablesOK

\* A thread puts handle n into the slot it has kept.
LEMMA TablesPlaced ==
  ASSUME MsgAssumption, Inv, NEW c \in Clients, NEW n \in Refs, Reserving(c), pc'[c] = "out",
         \A d \in Clients : d # c => pc'[d] = pc[d] /\ my'[d] = my[d],
         slots' = [slots EXCEPT ![my[c].slot] = n],
         ref[n].alloc, ref[n].state \notin {"OPENING", "CLOSING"}, ref[n].refs = 1, SlotsOf(n) = {},
         \A d \in Clients : Using(d) /\ d # c => R(d) # n,
         \A d \in Clients : pc[d] = "kwait" /\ d # c => my[d].new # n,
         \A p \in Refs :
            ref'[p].alloc = ref[p].alloc /\ ref'[p].refs = ref[p].refs /\ ref'[p].state = ref[p].state
  PROVE  TablesOK'
<1>1. /\ Null # Reserved /\ Null \notin Refs /\ Reserved \notin Refs /\ LocalsSet /\ TablesOK
      /\ slots \in [Slots -> Refs \cup {Null, Reserved}]
  BY DEF MsgAssumption, Inv, Protocol, Typed, KernelTyped
<1>2. PICK k \in Slots : k = my[c].slot
  BY <1>1 DEF LocalsSet, Reserving
<1>3. slots[k] = Reserved /\ \A d \in Clients : Reserving(d) /\ d # c => my[d].slot # k
  BY <1>1, <1>2 DEF TablesOK, SlotsKept
<1>4. SlotsOf(n)' = {k} /\ \A p \in Refs : p # n => SlotsOf(p)' = SlotsOf(p)
  <2>1. \A j \in Slots : slots'[j] = IF j = k THEN n ELSE slots[j]
    BY <1>1, <1>2
  <2>2. \A j \in Slots : slots[j] # n
    BY DEF SlotsOf
  <2>3. SlotsOf(n)' = {k}
    BY <2>1, <2>2 DEF SlotsOf
  <2>4. \A p \in Refs : p # n => SlotsOf(p)' = SlotsOf(p)
    BY <1>1, <1>3, <2>1 DEF SlotsOf
  <2> QED  BY <2>3, <2>4
<1>5. IsFiniteSet({k}) /\ Cardinality({k}) = 1
  BY FS_Singleton
<1>6. \A d \in Clients : d # c => /\ Reserving(d)' = Reserving(d) /\ Using(d)' = Using(d) /\ R(d)' = R(d)
                                  /\ Using(d) => R(d) \in Refs /\ R(d) # n
                                  /\ Reserving(d) => my[d].slot \in Slots
                                  /\ pc[d] = "kwait" => my[d].new \in Refs /\ my[d].new # n
  BY <1>1 DEF Reserving, Using, R, LocalsSet
<1>7. ~Using(c)' /\ ~Reserving(c)' /\ pc'[c] \notin {"opening", "shut", "kwait"}
  BY DEF Using, Reserving
<1>8. SlotsKept'
  <2>1. \A d \in Clients : Reserving(d)' => Reserving(d) /\ d # c /\ my'[d] = my[d] /\ my[d].slot \in Slots /\ my[d].slot # k
    BY <1>3, <1>6, <1>7
  <2>2. \A d \in Clients : Reserving(d) => slots[my[d].slot] = Reserved
    BY <1>1 DEF TablesOK, SlotsKept
  <2>3. \A d \in Clients : Reserving(d)' => slots'[my'[d].slot] = Reserved
    BY <1>1, <1>2, <2>1, <2>2
  <2>4. \A d, e \in Clients : Reserving(d)' /\ Reserving(e)' /\ e # d => my'[e].slot # my'[d].slot
    BY <1>1, <2>1 DEF TablesOK, SlotsKept
  <2> QED  BY <2>3, <2>4 DEF SlotsKept
<1>9. HandlesKept'
  <2> SUFFICES ASSUME NEW p \in Refs, SlotsOf(p)' # {}
               PROVE  /\ ref'[p].alloc /\ ref'[p].state \notin {"OPENING", "CLOSING"}
                      /\ IsFiniteSet(SlotsOf(p)') /\ ref'[p].refs = Cardinality(SlotsOf(p)')
    BY DEF HandlesKept, SlotsOf
  <2>1. CASE p = n
    BY <1>4, <1>5, <2>1
  <2>2. CASE p # n
    BY <1>1, <1>4, <2>2 DEF TablesOK, HandlesKept
  <2> QED  BY <2>1, <2>2
<1>10. UsersOK'
  <2> SUFFICES ASSUME NEW d \in Clients, Using(d)'
               PROVE  /\ ref'[R(d)'].alloc /\ ref'[R(d)'].state # "CLOSING"
                      /\ pc'[d] \in Sending => SlotsOf(R(d))' # {}
    BY DEF UsersOK
  <2>1. d # c /\ Using(d) /\ R(d)' = R(d) /\ pc'[d] = pc[d]
    BY <1>6, <1>7
  <2>2. /\ ref[R(d)].alloc /\ ref[R(d)].state # "CLOSING"
        /\ pc[d] \in Sending => SlotsOf(R(d)) # {}
    BY <1>1, <2>1 DEF TablesOK, UsersOK
  <2>3. PICK p \in Refs : p = R(d) /\ p # n
    BY <1>6, <2>1
  <2>4. SlotsOf(R(d))' = SlotsOf(p)'
    BY <2>1, <2>3 DEF SlotsOf
  <2> QED  BY <1>4, <2>1, <2>2, <2>3, <2>4
<1>11. AloneOK'
  <2> SUFFICES ASSUME NEW d \in Clients, pc'[d] \in {"opening", "shut"}
               PROVE  /\ SlotsOf(R(d))' = {}
                      /\ pc'[d] = "opening" => ref'[R(d)'].refs = 1
                      /\ \A e \in Clients : Using(e)' /\ e # d => R(e)' # R(d)'
    BY DEF AloneOK
  <2>1. d # c /\ pc[d] \in {"opening", "shut"} /\ Using(d) /\ R(d)' = R(d) /\ pc'[d] = pc[d]
    BY <1>6, <1>7 DEF Using
  <2>2. /\ SlotsOf(R(d)) = {} /\ (pc[d] = "opening" => ref[R(d)].refs = 1)
        /\ \A e \in Clients : Using(e) /\ e # d => R(e) # R(d)
    BY <1>1, <2>1 DEF TablesOK, AloneOK
  <2>3. PICK p \in Refs : p = R(d) /\ p # n
    BY <1>6, <2>1
  <2>4. SlotsOf(R(d))' = SlotsOf(p)'
    BY <2>1, <2>3 DEF SlotsOf
  <2>5. \A e \in Clients : Using(e)' /\ e # d => R(e)' # R(d)'
    BY <1>6, <1>7, <2>1, <2>2
  <2> QED  BY <1>4, <2>1, <2>2, <2>3, <2>4, <2>5
<1>12. NewOK'
  <2> SUFFICES ASSUME NEW d \in Clients, pc'[d] = "kwait"
               PROVE  /\ ref'[my'[d].new].alloc /\ ref'[my'[d].new].state \notin {"OPENING", "CLOSING"}
                      /\ ref'[my'[d].new].refs = 1 /\ SlotsOf(my[d].new)' = {}
                      /\ \A e \in Clients : Using(e)' => R(e)' # my'[d].new
                      /\ \A e \in Clients : pc'[e] = "kwait" /\ e # d => my'[e].new # my'[d].new
    BY DEF NewOK
  <2>1. d # c /\ pc[d] = "kwait" /\ my'[d] = my[d]
    BY <1>7
  <2>2. PICK q \in Refs : q = my[d].new /\ q # n
    BY <1>6, <2>1
  <2>3. /\ ref[q].alloc /\ ref[q].state \notin {"OPENING", "CLOSING"}
        /\ ref[q].refs = 1 /\ SlotsOf(q) = {}
        /\ \A e \in Clients : Using(e) => R(e) # q
        /\ \A e \in Clients : pc[e] = "kwait" /\ e # d => my[e].new # q
    BY <1>1, <2>1, <2>2, ZenonT(60) DEF TablesOK, NewOK
  <2>4. \A e \in Clients : Using(e)' => R(e)' # q
    BY <1>6, <1>7, <2>3
  <2>5. \A e \in Clients : pc'[e] = "kwait" /\ e # d => my'[e].new # q
    BY <1>7, <2>3
  <2>6. SlotsOf(my[d].new)' = {}
    BY <1>4, <2>1, <2>2, <2>3 DEF SlotsOf
  <2>7. ref'[q].alloc /\ ref'[q].state \notin {"OPENING", "CLOSING"} /\ ref'[q].refs = 1
    BY <2>3
  <2> QED  BY <2>1, <2>2, <2>4, <2>5, <2>6, <2>7
<1> QED  BY <1>8, <1>9, <1>10, <1>11, <1>12 DEF TablesOK

\* msg_connect() reserves a slot, makes a portref and sleeps, ...
LEMMA ConnectOK ==
  ASSUME MsgAssumption, Inv, NEW c \in Clients, OthersStay(c), NEW k \in Slots, NEW r \in Refs, MsgConnect(c, k, r)
  PROVE  Protocol'
<1>0. /\ port \in WidePort /\ pc \in [Threads -> ClientPcs \cup ServerPcs] /\ ref \in [Refs -> WideRef]
      /\ my \in [Clients -> Local] /\ intr \in [Threads -> BOOLEAN] /\ c \in Threads /\ TablesOK /\ MutexesOK
  BY DEF Inv, Protocol, Typed, ThreadsTyped, KernelTyped, Threads
<1>1. pc[c] = "out" /\ slots[k] = Null /\ ~ref[r].alloc
  BY DEF MsgConnect, FreeSlot
<1>2. /\ SlotsOf(r) = {}
      /\ \A d \in Clients : Using(d) => R(d) # r
      /\ \A d \in Clients : pc[d] = "kwait" => my[d].new # r
      /\ \A d \in Clients : Waiting(d) => R(d) # r
      /\ \A m \in AllMsgs : m.pr # r
  BY <1>1, FreshRef
<1>3. PICK n \in Sendable : n = Message("CONNECT", c, r, Null, FALSE)
  BY SentTyped
<1>4. n.pr = r /\ n.from = c /\ n.op = "CONNECT"
  BY <1>3 DEF Message
<1>5. PICK z : z = [NewRef("OPENING") EXCEPT !.iowait = PSema(NewSema(0), c)]
  OBVIOUS
<1>6. /\ port' = Enqueue(port, n) /\ ref' = [ref EXCEPT ![r] = z] /\ slots' = [slots EXCEPT ![k] = Reserved]
      /\ pc' = [pc EXCEPT ![c] = "opening"] /\ intr' = intr /\ rep' = rep
      /\ my' = [my EXCEPT ![c] = [NoCall EXCEPT !.slot = k, !.pr = r]]
  BY <1>3, <1>5 DEF MsgConnect, Goto, NewRef
<1>7. /\ z.alloc /\ z.port /\ z.refs = 1 /\ z.state = "OPENING" /\ z.iowait = Asleep(c) /\ z.sema = NewSema(1)
  BY <1>5, SemaValues DEF NewRef
<1>8. /\ pc'[c] = "opening" /\ my'[c].slot = k /\ my'[c].pr = r /\ ~intr[c] /\ ~intr'[c] /\ rep[c] = "none" /\ rep'[c] = "none"
      /\ ref'[r] = z /\ \A p \in Refs : p # r => ref'[p] = ref[p]
  BY <1>0, <1>1, <1>6 DEF NoCall, Inv, Protocol, EventsOK, Waiting, InExchange
<1>9. ~Waiting(c) /\ Waiting(c)' /\ ~Using(c)
  BY <1>1, <1>8 DEF Waiting, InExchange, Using
<1>10. ServerStays' /\ EventsOK' /\ PortOK' /\ InHands' = InHands /\ held' = held
  <2>1. \A p \in Refs : ref'[p].alloc => ref'[p].port
    BY <1>7, <1>8 DEF Inv, Protocol, ServerStays
  <2> QED  BY <1>8, <2>1, ClientQuiet
<1>11. \A d \in Clients : d # c => /\ pc'[d] = pc[d] /\ my'[d] = my[d] /\ my'[d].pr = my[d].pr
                                   /\ rep'[d] = rep[d] /\ intr'[d] = intr[d]
  BY DEF OthersStay
<1>12. TablesOK'
  <2>1. \A d \in Clients : d # c => pc'[d] = pc[d] /\ my'[d] = my[d]
    BY <1>11
  <2>2. ref'[r].alloc /\ ref'[r].refs = 1 /\ ref'[r].state # "CLOSING"
    BY <1>7, <1>8
  <2>3. \A p \in Refs : p # r => /\ ref'[p].alloc = ref[p].alloc /\ ref'[p].refs = ref[p].refs
                                 /\ ref'[p].state = ref[p].state
    BY <1>8
  <2> QED  BY <1>1, <1>6, <1>8, <2>1, <2>2, <2>3, TablesFresh, ZenonT(60)
<1>13. MutexesOK'
  <2> SUFFICES ASSUME NEW p \in Refs
               PROVE  MutexOK(p)'
    BY DEF MutexesOK
  <2>1. CASE p = r
    <3>1. \A d \in Clients : ~Owns(d, r)'
      <4> SUFFICES ASSUME NEW d \in Clients, Owns(d, r)'
                   PROVE  FALSE
        OBVIOUS
      <4>1. R(d)' = r /\ d # c /\ pc'[d] \notin {"out", "closing"}
        BY <1>8 DEF Owns
      <4>2. R(d) = r /\ Using(d)
        BY <1>11, <4>1 DEF R, Using
      <4> QED  BY <1>2, <4>2
    <3>2. ref'[r].alloc /\ ref'[r].sema = NewSema(1)
      BY <1>7, <1>8
    <3> QED  BY <2>1, <3>1, <3>2, MutexFresh
  <2>2. CASE p # r
    <3>1. MutexOK(p)
      BY <1>0 DEF MutexesOK
    <3>2. ref'[p] = ref[p] /\ ~Queued(ref[p].sema, c) /\ ~Owns(c, p) /\ ~Owns(c, p)'
      BY <1>1, <1>8, <2>2, <3>1 DEF MutexOK, Owns, R
    <3> QED  BY <1>11, <3>1, <3>2, MutexKept
  <2> QED  BY <2>1, <2>2
<1>14. CallsOK'
  <2>1. CallAt(pc'[c], ref'[r], rep'[c], intr'[c], c)
    BY <1>7, <1>8 DEF CallAt
  <2>2. \A p \in Refs : p # r =>
           /\ ref'[p].alloc = ref[p].alloc /\ ref'[p].state = ref[p].state
           /\ ref'[p].iowait = ref[p].iowait /\ ref'[p].svwait = ref[p].svwait
    BY <1>8
  <2>3. (\A s \in Servers : pc'[s] = pc[s]) /\ got' = got /\ ~DupOwed(c)
    BY <1>1 DEF OthersStay, DupOwed
  <2>4. \A d \in Clients : d # c => /\ pc'[d] = pc[d] /\ my'[d].pr = my[d].pr
                                    /\ rep'[d] = rep[d] /\ intr'[d] = intr[d]
    BY <1>11
  <2>5. \A d \in Clients : d # c /\ Waiting(d) => R(d) # r
    BY <1>2
  <2> QED  BY <1>8, <1>9, <2>1, <2>2, <2>3, <2>4, <2>5, CallsMove
<1>15. MessagesOK'
  <2>1. Known(n)'
    BY <1>4, <1>7, <1>8 DEF Known, StatesOf, WaitsFor, R
  <2>2. ASSUME NEW m \in AllMsgs
        PROVE  MessageKept(m) /\ m.pr # n.pr
    <3>1. m.pr \in Refs /\ m.from \in Clients /\ m.pr # r
      BY <1>2, <2>2, MessagesTyped DEF Inv
    <3>2. m.op # "DISCONNECT" => m.from # c
      BY <1>9, <2>2, NoneFromOthers
    <3> QED  BY <1>4, <1>8, <1>11, <3>1, <3>2 DEF MessageKept
  <2>3. port'.queue = Append(port.queue, n)
    BY <1>0, <1>6 DEF Enqueue, WidePort
  <2> QED  BY <1>10, <2>1, <2>2, <2>3, MessageAdded
<1> QED  BY <1>10, <1>12, <1>13, <1>14, <1>15 DEF Protocol

\* Those who wait for r or own it are those with a call on r.
LEMMA NoOwner ==
  ASSUME NEW c \in Clients, NEW r \in Refs, pc'[c] \in {"out", "opening", "closing", "shut"},
         \A d \in Clients : d # c => pc'[d] = pc[d] /\ my'[d].pr = my[d].pr,
         \A d \in Clients : Using(d) /\ d # c => R(d) # r
  PROVE  \A d \in Clients : ~Owns(d, r)'
<1> SUFFICES ASSUME NEW d \in Clients, Owns(d, r)'
             PROVE  FALSE
  OBVIOUS
<1>1. R(d)' = r /\ d # c /\ pc'[d] \notin {"out", "closing"}
  BY DEF Owns
<1>2. R(d) = r /\ Using(d)
  BY <1>1 DEF R, Using
<1> QED  BY <1>1, <1>2

\* ... and returns, with the handle or without.
LEMMA ConnectDoneOK ==
  ASSUME MsgAssumption, Inv, NEW c \in Clients, OthersStay(c), MsgConnectDone(c)
  PROVE  Protocol'
<1>0. /\ pc \in [Threads -> ClientPcs \cup ServerPcs] /\ ref \in [Refs -> WideRef]
      /\ my \in [Clients -> Local] /\ intr \in [Threads -> BOOLEAN] /\ c \in Threads
      /\ rep \in [Clients -> {"none", "ok", "segs", "err"}]
      /\ slots \in [Slots -> Refs \cup {Null, Reserved}] /\ TablesOK /\ MutexesOK /\ LocalsSet
  BY DEF Inv, Protocol, Typed, ThreadsTyped, KernelTyped, Threads
<1>1. pc[c] = "opening" /\ Has(c) /\ Waiting(c) /\ ~Queued(X(c).iowait, c) /\ Using(c) /\ Reserving(c)
      /\ Return(c) /\ intr' = intr /\ port' = port
  BY DEF MsgConnectDone, Awake, Has, Waiting, Using, Reserving
<1>2. PICK r \in Refs, x \in WideRef :
        /\ r = R(c) /\ x = X(c) /\ x = ref[r] /\ x.alloc /\ x.port
        /\ CallAt(pc[c], x, rep[c], intr[c], c)
  BY <1>1, InCall
<1>3. x.state \in {"IODONE", "ABDONE"} /\ x.iowait = Zero
  BY <1>1, <1>2, SemaValues DEF CallAt
<1>4. PICK k \in Slots : k = my[c].slot
  BY <1>0, <1>1 DEF LocalsSet
<1>5. /\ SlotsOf(r) = {} /\ x.refs = 1 /\ \A d \in Clients : Using(d) /\ d # c => R(d) # r
      /\ \A d \in Clients : pc[d] = "kwait" => my[d].new # r
  <2>1. /\ SlotsOf(R(c)) = {} /\ ref[R(c)].refs = 1 /\ \A d \in Clients : Using(d) /\ d # c => R(d) # R(c)
    BY <1>0, <1>1 DEF TablesOK, AloneOK
  <2>2. \A d \in Clients : pc[d] = "kwait" => my[d].new # R(c)
    BY <1>0, <1>1, ZenonT(60) DEF TablesOK, NewOK
  <2> QED  BY <1>2, <2>1, <2>2
<1>6. /\ pc'[c] = "out" /\ rep'[c] = "none" /\ ~intr'[c] /\ ~Waiting(c)' /\ ~Using(c)' /\ ~Reserving(c)'
  BY <1>0, <1>1 DEF Return, Goto, Waiting, InExchange, Using, Reserving, Inv, Protocol, EventsOK
<1>7. \A d \in Clients : d # c => /\ pc'[d] = pc[d] /\ my'[d] = my[d] /\ my'[d].pr = my[d].pr
                                  /\ rep'[d] = rep[d] /\ intr'[d] = intr[d]
  BY DEF OthersStay
<1>8. \/ slots' = [slots EXCEPT ![k] = r] /\ ref' = ref /\ x.state = "IODONE"
      \/ slots' = [slots EXCEPT ![k] = Null] /\ ref' = [ref EXCEPT ![r] = FreeRef]
  BY <1>2, <1>4 DEF MsgConnectDone
<1>9. /\ \A p \in Refs : p # r => ref'[p] = ref[p]
      /\ ref'[r] = x \/ ref'[r] = FreeRef
  BY <1>0, <1>2, <1>8
<1>10. ServerStays' /\ EventsOK' /\ PortOK' /\ InHands' = InHands /\ held' = held
  <2>1. \A p \in Refs : ref'[p].alloc => ref'[p].port
    BY <1>2, <1>9 DEF Inv, Protocol, ServerStays, FreeRef
  <2> QED  BY <1>6, <2>1, ClientQuiet
<1>11. CallsOK'
  <2>1. Resting(ref'[r]) \/ ~ref'[r].alloc
    BY <1>3, <1>9 DEF Resting, FreeRef
  <2>2. \A p \in Refs : p # r =>
           /\ ref'[p].alloc = ref[p].alloc /\ ref'[p].state = ref[p].state
           /\ ref'[p].iowait = ref[p].iowait /\ ref'[p].svwait = ref[p].svwait
    BY <1>9
  <2>3. (\A s \in Servers : pc'[s] = pc[s]) /\ got' = got /\ ~DupOwed(c)
    BY <1>1 DEF OthersStay, DupOwed
  <2>4. \A d \in Clients : d # c => /\ pc'[d] = pc[d] /\ my'[d].pr = my[d].pr
                                    /\ rep'[d] = rep[d] /\ intr'[d] = intr[d]
    BY <1>7
  <2>5. \A d \in Clients : d # c /\ Waiting(d) => R(d) # r
    BY <1>5 DEF Waiting, Using, InExchange
  <2> QED  BY <1>2, <1>6, <2>1, <2>2, <2>3, <2>4, <2>5, CallsMove
<1>12. MessagesOK'
  <2>1. ASSUME NEW m \in AllMsgs
        PROVE  MessageKept(m)
    <3>1. m.pr \in Refs /\ m.from \in Clients /\ m.pr # r
      BY <1>2, <1>3, <2>1, MessagesTyped, NoneOnResting DEF Inv
    <3>2. m.op # "DISCONNECT" => m.from # c
      BY <1>2, <2>1, <3>1, NoneFromOthers
    <3> QED  BY <1>7, <1>9, <3>1, <3>2 DEF MessageKept
  <2>2. port'.queue = port.queue
    BY <1>1
  <2> QED  BY <1>10, <2>1, <2>2, MessagesKept DEF Inv, Protocol
<1>13. MutexesOK'
  <2> SUFFICES ASSUME NEW p \in Refs
               PROVE  MutexOK(p)'
    BY DEF MutexesOK
  <2>1. MutexOK(p)
    BY <1>0 DEF MutexesOK
  <2>2. ~Queued(ref[p].sema, c) /\ ~Owns(c, p) /\ ~Owns(c, p)'
    BY <1>1, <1>6, <2>1 DEF MutexOK, Owns
  <2>3. CASE ref'[p] = ref[p]
    BY <1>7, <2>1, <2>2, <2>3, MutexKept
  <2>4. CASE p = r /\ ref'[r] = FreeRef
    <3>1. \A d \in Clients : ~Owns(d, r)'
      BY <1>5, <1>6, <1>7, NoOwner
    <3>2. ~ref'[r].alloc /\ ref'[r].sema = NewSema(0)
      BY <2>4 DEF FreeRef
    <3> QED  BY <2>4, <3>1, <3>2, MutexFresh
  <2> QED  BY <1>2, <1>9, <2>3, <2>4
<1>14. TablesOK'
  <2>1. CASE slots' = [slots EXCEPT ![k] = r] /\ ref' = ref /\ x.state = "IODONE"
    <3>1. ref[r].alloc /\ ref[r].state \notin {"OPENING", "CLOSING"} /\ ref[r].refs = 1
      BY <1>2, <1>5, <2>1
    <3>2. slots' = [slots EXCEPT ![my[c].slot] = r]
      BY <1>4, <2>1
    <3>3. \A p \in Refs :
            ref'[p].alloc = ref[p].alloc /\ ref'[p].refs = ref[p].refs /\ ref'[p].state = ref[p].state
      BY <2>1
    <3>4. \A d \in Clients : d # c => pc'[d] = pc[d] /\ my'[d] = my[d]
      BY <1>7
    <3> QED  BY <1>1, <1>5, <1>6, <3>1, <3>2, <3>3, <3>4, TablesPlaced
  <2>2. CASE slots' = [slots EXCEPT ![k] = Null] /\ ref' = [ref EXCEPT ![r] = FreeRef]
    <3>1. \A d \in Clients : Using(d)' =>
            /\ Using(d) /\ my'[d].slot = my[d].slot /\ my'[d].pr = my[d].pr /\ my'[d].new = my[d].new
            /\ pc'[d] = pc[d] /\ d # c
      BY <1>6, <1>7 DEF Using
    <3>2. ASSUME NEW j \in Slots
          PROVE  \/ slots'[j] = slots[j]
                 \/ /\ slots[j] \notin Refs /\ slots'[j] \notin Refs
                    /\ \A d \in Clients : Reserving(d)' => my[d].slot # j
      <4>1. CASE j = k
        <5>1. slots'[j] = Null /\ slots[j] = Reserved
          BY <1>0, <1>1, <1>4, <2>2, <4>1 DEF TablesOK, SlotsKept
        <5>2. \A d \in Clients : Reserving(d)' => Reserving(d) /\ d # c
          BY <1>6, <1>7 DEF Reserving
        <5>3. \A d \in Clients : Reserving(d)' => my[d].slot # j
          BY <1>0, <1>1, <1>4, <4>1, <5>2 DEF TablesOK, SlotsKept
        <5> QED  BY <5>1, <5>3 DEF MsgAssumption
      <4>2. CASE j # k
        BY <1>0, <2>2, <4>2
      <4> QED  BY <4>1, <4>2
    <3>3. \A p \in Refs :
            \/ /\ ref'[p].alloc = ref[p].alloc /\ ref'[p].refs = ref[p].refs /\ ref'[p].state = ref[p].state
            \/ /\ SlotsOf(p) = {}
               /\ \A d \in Clients : Using(d)' => my[d].pr # p /\ (pc[d] = "kwait" => my[d].new # p)
      BY <1>5, <1>9, <3>1 DEF R
    <3> QED  BY <1>0, <3>1, <3>2, <3>3, TablesFrame
  <2> QED  BY <1>8, <2>1, <2>2
<1> QED  BY <1>10, <1>11, <1>12, <1>13, <1>14 DEF Protocol

\* The last message on a handle, ...
LEMMA ShutOK ==
  ASSUME MsgAssumption, Inv, NEW c \in Clients, OthersStay(c), ShutClient(c)
  PROVE  Protocol'
<1>0. /\ port \in WidePort /\ pc \in [Threads -> ClientPcs \cup ServerPcs] /\ ref \in [Refs -> WideRef]
      /\ my \in [Clients -> Local] /\ intr \in [Threads -> BOOLEAN] /\ c \in Threads
      /\ TablesOK /\ MutexesOK /\ LocalsSet
  BY DEF Inv, Protocol, Typed, ThreadsTyped, KernelTyped, Threads
<1>1. pc[c] = "shut" /\ Using(c) /\ ~Waiting(c) /\ R(c) \in Refs
  BY <1>0 DEF ShutClient, Using, Waiting, InExchange, LocalsSet
<1>2. PICK r \in Refs, x \in WideRef : r = R(c) /\ x = X(c) /\ x = ref[r]
  BY <1>0, <1>1 DEF R, X
<1>3. /\ x.alloc /\ x.state # "CLOSING" /\ SlotsOf(r) = {}
      /\ \A d \in Clients : Using(d) /\ d # c => R(d) # r
      /\ \A d \in Clients : pc[d] = "kwait" => my[d].new # r
  <2>1. ref[R(c)].alloc /\ ref[R(c)].state # "CLOSING"
    BY <1>0, <1>1 DEF TablesOK, UsersOK
  <2>2. SlotsOf(R(c)) = {} /\ \A d \in Clients : Using(d) /\ d # c => R(d) # R(c)
    BY <1>0, <1>1 DEF TablesOK, AloneOK
  <2>3. \A d \in Clients : pc[d] = "kwait" => my[d].new # R(c)
    BY <1>0, <1>1, ZenonT(60) DEF TablesOK, NewOK
  <2> QED  BY <1>2, <2>1, <2>2, <2>3
<1>4. x.port
  BY <1>2, <1>3 DEF Inv, Protocol, ServerStays
<1>5. \A d \in Clients : Waiting(d) => R(d) # r
  BY <1>1, <1>3 DEF Waiting, Using, InExchange
<1>6. Resting(x)
  BY <1>2, <1>3, <1>5 DEF Inv, Protocol, CallsOK
<1>7. \A m \in AllMsgs : m.pr # r
  BY <1>2, <1>6, NoneOnResting DEF Resting
<1>8. x.sema = One
  <2>1. Mutex(x.sema, Owners(r))
    BY <1>0, <1>2, <1>3 DEF MutexesOK, MutexOK
  <2>2. Owners(r) = {}
    <3>1. \A d \in Clients : ~Owns(d, r)
      BY <1>1, <1>3 DEF Owns, Using
    <3> QED  BY <3>1 DEF Owners
  <2>3. x.sema.cnt = 1 /\ CountIsQueue(x.sema) /\ x.sema \in SemaType(Clients)
    BY <2>1, <2>2 DEF Mutex, WideRef
  <2> QED  BY <2>3 DEF CountIsQueue, SemaType, One
<1>9. PICK n \in Sendable : n = Message("DISCONNECT", c, r, Null, FALSE)
  BY SentTyped
<1>10. n.pr = r /\ n.from = c /\ n.op = "DISCONNECT"
  BY <1>9 DEF Message
<1>11. PICK z : z = [x EXCEPT !.state = "CLOSING", !.sema = PSema(x.sema, c)]
  OBVIOUS
<1>12. z.state = "CLOSING" /\ z.alloc /\ z.port /\ z.sema = Zero
  BY <1>3, <1>4, <1>8, <1>11, SemaValues DEF WideRef
<1>13. /\ port' = Enqueue(port, n) /\ ref' = [ref EXCEPT ![r] = z] /\ slots' = slots
       /\ pc' = [pc EXCEPT ![c] = "closing"] /\ my' = my /\ rep' = rep /\ intr' = intr
  BY <1>2, <1>4, <1>9, <1>11 DEF ShutClient, Goto
<1>14. /\ pc'[c] = "closing" /\ ~intr'[c] /\ rep'[c] = "none" /\ ~Waiting(c)' /\ ~Using(c)'
       /\ ref'[r] = z /\ \A p \in Refs : p # r => ref'[p] = ref[p]
  BY <1>0, <1>1, <1>13 DEF Waiting, InExchange, Using, Inv, Protocol, EventsOK
<1>15. \A d \in Clients : d # c => /\ pc'[d] = pc[d] /\ my'[d] = my[d] /\ my'[d].pr = my[d].pr
                                   /\ rep'[d] = rep[d] /\ intr'[d] = intr[d]
  BY DEF OthersStay
<1>16. ServerStays' /\ EventsOK' /\ PortOK' /\ InHands' = InHands /\ held' = held
  <2>1. \A p \in Refs : ref'[p].alloc => ref'[p].port
    BY <1>12, <1>14 DEF Inv, Protocol, ServerStays
  <2> QED  BY <1>14, <2>1, ClientQuiet
<1>17. TablesOK'
  <2>1. \A d \in Clients : Using(d)' =>
          /\ Using(d) /\ my'[d].slot = my[d].slot /\ my'[d].pr = my[d].pr /\ my'[d].new = my[d].new
          /\ pc'[d] = pc[d] /\ d # c
    BY <1>14, <1>15 DEF Using
  <2>2. \A p \in Refs :
          \/ /\ ref'[p].alloc = ref[p].alloc /\ ref'[p].refs = ref[p].refs /\ ref'[p].state = ref[p].state
          \/ /\ SlotsOf(p) = {}
             /\ \A d \in Clients : Using(d)' => my[d].pr # p /\ (pc[d] = "kwait" => my[d].new # p)
    BY <1>3, <1>14, <2>1 DEF R
  <2> QED  BY <1>0, <1>13, <2>1, <2>2, TablesFrame
<1>18. MutexesOK'
  <2> SUFFICES ASSUME NEW p \in Refs
               PROVE  MutexOK(p)'
    BY DEF MutexesOK
  <2>1. MutexOK(p)
    BY <1>0 DEF MutexesOK
  <2>2. CASE p = r
    <3>1. \A d \in Clients : ~Queued(ref'[r].sema, d)
      BY <1>12, <1>14 DEF Queued, Contains, Zero
    <3> QED  BY <1>12, <1>14, <2>2, <3>1 DEF MutexOK
  <2>3. CASE p # r
    <3>1. ref'[p] = ref[p] /\ ~Queued(ref[p].sema, c) /\ ~Owns(c, p) /\ ~Owns(c, p)'
      BY <1>1, <1>14, <2>1, <2>3 DEF MutexOK, Owns
    <3> QED  BY <1>15, <2>1, <3>1, MutexKept
  <2> QED  BY <2>2, <2>3
<1>19. CallsOK'
  <2>2. \A p \in Refs : p # r =>
           /\ ref'[p].alloc = ref[p].alloc /\ ref'[p].state = ref[p].state
           /\ ref'[p].iowait = ref[p].iowait /\ ref'[p].svwait = ref[p].svwait
    BY <1>14
  <2>3. (\A s \in Servers : pc'[s] = pc[s]) /\ got' = got /\ ~DupOwed(c) /\ ref'[r].state = "CLOSING"
    BY <1>1, <1>12, <1>14 DEF OthersStay, DupOwed
  <2>4. \A d \in Clients : d # c => /\ pc'[d] = pc[d] /\ my'[d].pr = my[d].pr
                                    /\ rep'[d] = rep[d] /\ intr'[d] = intr[d]
    BY <1>15
  <2>5. \A d \in Clients : d # c /\ Waiting(d) => R(d) # r
    BY <1>5
  <2> QED  BY <1>1, <1>14, <2>2, <2>3, <2>4, <2>5, CallsMove
<1>20. MessagesOK'
  <2>1. Known(n)'
    BY <1>10, <1>12, <1>14 DEF Known, StatesOf
  <2>2. ASSUME NEW m \in AllMsgs
        PROVE  MessageKept(m) /\ m.pr # n.pr
    <3>1. m.pr \in Refs /\ m.from \in Clients /\ m.pr # r
      BY <1>7, <2>2, MessagesTyped DEF Inv
    <3>2. m.op # "DISCONNECT" => m.from # c
      BY <1>1, <2>2, NoneFromOthers
    <3> QED  BY <1>10, <1>14, <1>15, <3>1, <3>2 DEF MessageKept
  <2>3. port'.queue = Append(port.queue, n)
    BY <1>0, <1>13 DEF Enqueue, WidePort
  <2> QED  BY <1>16, <2>1, <2>2, <2>3, MessageAdded
<1> QED  BY <1>16, <1>17, <1>18, <1>19, <1>20 DEF Protocol

\* ... and the way out of shut_client().
LEMMA ShutDoneOK ==
  ASSUME MsgAssumption, Inv, NEW c \in Clients, OthersStay(c), ShutDone(c)
  PROVE  Protocol'
<1>0. /\ pc \in [Threads -> ClientPcs \cup ServerPcs] /\ rep \in [Clients -> {"none", "ok", "segs", "err"}]
      /\ c \in Threads /\ TablesOK /\ MutexesOK /\ LocalsSet
  BY DEF Inv, Protocol, Typed, ThreadsTyped, KernelTyped, Threads
<1>1. pc[c] = "closing" /\ ~intr[c] /\ Return(c) /\ intr' = intr /\ ref' = ref /\ port' = port /\ slots' = slots
      /\ rep[c] = "none" /\ ~Waiting(c)
  BY DEF ShutDone, Awake, Inv, Protocol, EventsOK, Waiting, InExchange
<1>2. pc'[c] = "out" /\ rep'[c] = rep[c] /\ ~intr'[c] /\ ~Waiting(c)' /\ ~Using(c)'
  BY <1>0, <1>1 DEF Return, Goto, Waiting, InExchange, Using
<1>3. ServerStays' /\ EventsOK' /\ PortOK' /\ CallsOK' /\ MessagesOK'
  BY <1>1, <1>2, ClientCalm
<1>4. \A d \in Clients : d # c => pc'[d] = pc[d] /\ my'[d] = my[d] /\ my'[d].pr = my[d].pr /\ intr'[d] = intr[d]
  BY DEF OthersStay
<1>5. MutexesOK'
  <2> SUFFICES ASSUME NEW p \in Refs
               PROVE  MutexOK(p)'
    BY DEF MutexesOK
  <2>1. MutexOK(p) /\ ref'[p] = ref[p]
    BY <1>0, <1>1 DEF MutexesOK
  <2>2. ~Queued(ref[p].sema, c) /\ ~Owns(c, p) /\ ~Owns(c, p)'
    BY <1>1, <1>2, <2>1 DEF MutexOK, Owns
  <2> QED  BY <1>4, <2>1, <2>2, MutexKept
<1>6. TablesOK'
  <2>1. \A d \in Clients : Using(d)' =>
          /\ Using(d) /\ my'[d].slot = my[d].slot /\ my'[d].pr = my[d].pr /\ my'[d].new = my[d].new
          /\ pc'[d] = pc[d]
    BY <1>2, <1>4 DEF Using
  <2> QED  BY <1>0, <1>1, <2>1, TablesFrame
<1> QED  BY <1>3, <1>5, <1>6 DEF Protocol

\* dup_port() makes a portref, and kernmsg_send() sleeps, ...
LEMMA ClonePostOK ==
  ASSUME MsgAssumption, Inv, NEW c \in Clients, OthersStay(c), NEW n \in Refs, ClonePost(c, n)
  PROVE  Protocol'
<1>0. /\ port \in WidePort /\ pc \in [Threads -> ClientPcs \cup ServerPcs] /\ ref \in [Refs -> WideRef]
      /\ my \in [Clients -> Local] /\ intr \in [Threads -> BOOLEAN] /\ c \in Threads
      /\ TablesOK /\ MutexesOK /\ LocalsSet
  BY DEF Inv, Protocol, Typed, ThreadsTyped, KernelTyped, Threads
<1>1. /\ pc[c] = "cfind" /\ Has(c) /\ ~Waiting(c) /\ Using(c) /\ ~ref[n].alloc
  BY DEF ClonePost, Awake, Has, Owns, X, R, Waiting, InExchange, Using
<1>2. PICK r \in Refs, x \in WideRef :
        /\ r = R(c) /\ x = X(c) /\ x = ref[r] /\ x.alloc /\ x.port /\ x.state # "CLOSING"
        /\ Owns(c, r) /\ Resting(x) /\ rep[c] = "none"
  BY <1>1, InCall
<1>3. /\ SlotsOf(n) = {}
      /\ \A d \in Clients : Using(d) => R(d) # n
      /\ \A d \in Clients : pc[d] = "kwait" => my[d].new # n
      /\ \A d \in Clients : Waiting(d) => R(d) # n
      /\ \A m \in AllMsgs : m.pr # n
  BY <1>1, FreshRef
<1>4. n # r
  BY <1>1, <1>2, <1>3
<1>5. PICK m0 \in Sendable : m0 = DupMessage(c, n)
  BY <1>2, SentTyped DEF DupMessage
<1>6. m0.pr = r /\ m0.from = c /\ m0.op = "DUP" /\ m0.new = n
  BY <1>2, <1>5 DEF DupMessage, Message
<1>7. PICK z, y : z = [x EXCEPT !.state = "IOWAIT", !.iowait = PSema(x.iowait, c)] /\ y = DupRef
  OBVIOUS
<1>8. /\ z.state = "IOWAIT" /\ z.iowait = Asleep(c)
      /\ z.alloc = x.alloc /\ z.port = x.port /\ z.refs = x.refs /\ z.sema = x.sema
      /\ y.alloc /\ y.port /\ y.refs = 1 /\ y.sema = NewSema(1) /\ y.state = "IODONE" /\ y.iowait = Zero
  BY <1>2, <1>7, SemaValues DEF WideRef, Resting, DupRef, NewRef
<1>9. /\ port' = Enqueue(port, m0) /\ ref' = [ref EXCEPT ![n] = y, ![r] = z]
      /\ my' = [my EXCEPT ![c].new = n] /\ pc' = [pc EXCEPT ![c] = "kwait"]
      /\ rep' = rep /\ slots' = slots /\ intr' = intr /\ ~intr[c]
  <2>1. X(c).port
    BY <1>2
  <2>2. /\ port' = Enqueue(port, m0) /\ my' = [my EXCEPT ![c].new = n] /\ pc' = [pc EXCEPT ![c] = "kwait"]
        /\ rep' = rep /\ slots' = slots /\ intr' = intr /\ ~intr[c]
        /\ ref' = [ref EXCEPT ![n] = DupRef, ![r].state = "IOWAIT", ![r].iowait = PSema(@, c)]
    BY <1>2, <1>5, <2>1, ZenonT(60) DEF ClonePost, Goto, Awake
  <2>3. ref' = [ref EXCEPT ![n] = y, ![r] = z]
    BY <1>0, <1>2, <1>4, <1>7, <2>2
  <2> QED  BY <2>2, <2>3
<1>10. /\ pc'[c] = "kwait" /\ my'[c].new = n /\ my'[c].pr = my[c].pr /\ my'[c].slot = my[c].slot /\ ~intr'[c] /\ rep'[c] = "none"
       /\ ref'[r] = z /\ ref'[n] = y /\ \A p \in Refs : p # r /\ p # n => ref'[p] = ref[p]
  BY <1>0, <1>2, <1>4, <1>9 DEF Local
<1>11. Waiting(c)' /\ Owns(c, r)'
  BY <1>2, <1>10 DEF Waiting, InExchange, Owns, R
<1>12. ServerStays' /\ EventsOK' /\ PortOK' /\ InHands' = InHands /\ held' = held
  <2>1. \A p \in Refs : ref'[p].alloc => ref'[p].port
    BY <1>2, <1>8, <1>10 DEF Inv, Protocol, ServerStays
  <2> QED  BY <1>10, <2>1, ClientQuiet
<1>13. \A d \in Clients : d # c => /\ pc'[d] = pc[d] /\ my'[d] = my[d] /\ my'[d].pr = my[d].pr
                                   /\ rep'[d] = rep[d] /\ intr'[d] = intr[d]
  BY DEF OthersStay
<1>14. TablesOK'
  <2>1. my[c].slot \in Slots
    BY <1>0, <1>1 DEF LocalsSet
  <2>2. ref'[n].alloc /\ ref'[n].refs = 1 /\ ref'[n].state = "IODONE"
    BY <1>8, <1>10
  <2>3. \A p \in Refs : p # n =>
            /\ ref'[p].alloc = ref[p].alloc /\ ref'[p].refs = ref[p].refs
            /\ \/ ref'[p].state = ref[p].state
               \/ ref[p].state # "CLOSING" /\ ref'[p].state \notin {"OPENING", "CLOSING"}
    <3>1. /\ ref'[r].alloc = ref[r].alloc /\ ref'[r].refs = ref[r].refs
          /\ ref[r].state # "CLOSING" /\ ref'[r].state = "IOWAIT"
      BY <1>2, <1>8, <1>10, Zenon
    <3>2. \A p \in Refs : p # r /\ p # n => ref'[p] = ref[p]
      BY <1>10
    <3> QED  BY <3>1, <3>2
  <2>4. \A d \in Clients : d # c => pc'[d] = pc[d] /\ my'[d] = my[d]
    BY <1>13
  <2>5. PICK k \in Slots : k = my[c].slot
    BY <2>1
  <2>6. /\ pc[c] = "cfind" /\ pc'[c] = "kwait" /\ my'[c].pr = my[c].pr /\ my'[c].new = n
        /\ my[c].slot = k /\ my'[c].slot = k /\ slots' = slots /\ ref'[n].state # "OPENING"
        /\ ref'[n].state # "CLOSING" /\ ~ref[n].alloc
    BY <1>1, <1>9, <1>10, <2>2, <2>5
  <2> HIDE <1>2, <1>8, <1>10
  <2> QED  BY <2>2, <2>3, <2>4, <2>6, TablesFresh
<1>15. MutexesOK'
  <2> SUFFICES ASSUME NEW p \in Refs
               PROVE  MutexOK(p)'
    BY DEF MutexesOK
  <2>0. MutexOK(p)
    BY <1>0 DEF MutexesOK
  <2>1. CASE p = n
    <3>1. \A d \in Clients : ~Owns(d, n)'
      <4> SUFFICES ASSUME NEW d \in Clients, Owns(d, n)'
                   PROVE  FALSE
        OBVIOUS
      <4>1. R(d)' = n /\ pc'[d] \notin {"out", "closing"}
        BY DEF Owns
      <4>2. d # c
        BY <1>2, <1>4, <1>10, <4>1 DEF R
      <4>3. R(d) = n /\ Using(d)
        BY <1>13, <4>1, <4>2 DEF R, Using
      <4> QED  BY <1>3, <4>3
    <3>2. ref'[n].alloc /\ ref'[n].sema = NewSema(1)
      BY <1>8, <1>10
    <3> QED  BY <2>1, <3>1, <3>2, MutexFresh
  <2>2. CASE p = r
    <3>1. ref'[r].sema = ref[r].sema /\ ref[r].alloc /\ ref[r].state # "CLOSING"
      BY <1>2, <1>8, <1>10
    <3>2. ~Queued(ref[r].sema, c)
      BY <1>1, <1>2 DEF Owns
    <3> QED  BY <1>2, <1>11, <1>13, <2>0, <2>2, <3>1, <3>2, MutexKept
  <2>3. CASE p # r /\ p # n
    <3>1. ref'[p] = ref[p] /\ ~Queued(ref[p].sema, c) /\ ~Owns(c, p) /\ ~Owns(c, p)'
      BY <1>2, <1>10, <2>0, <2>3 DEF MutexOK, Owns, R
    <3> QED  BY <1>13, <2>0, <3>1, MutexKept
  <2> QED  BY <2>1, <2>2, <2>3
<1>16. CallsOK'
  <2>1. CallAt(pc'[c], ref'[r], rep'[c], intr'[c], c)
    BY <1>8, <1>10 DEF CallAt
  <2>2. \A p \in Refs : p # r =>
           \/ /\ ref'[p].alloc = ref[p].alloc /\ ref'[p].state = ref[p].state
              /\ ref'[p].iowait = ref[p].iowait /\ ref'[p].svwait = ref[p].svwait
           \/ /\ Resting(ref'[p]) \/ ~ref'[p].alloc
              /\ \A d \in Clients : Waiting(d) => R(d) # p
    BY <1>3, <1>8, <1>10 DEF Resting
  <2>3. (\A s \in Servers : pc'[s] = pc[s]) /\ got' = got /\ ~DupOwed(c)
    BY <1>1 DEF OthersStay, DupOwed
  <2>4. \A d \in Clients : d # c => /\ pc'[d] = pc[d] /\ my'[d].pr = my[d].pr
                                    /\ rep'[d] = rep[d] /\ intr'[d] = intr[d]
    BY <1>13
  <2>5. \A d \in Clients : Waiting(d) /\ d # c => R(d) # r
    BY <1>1, <1>2, WaitersHave, OneCall
  <2>6. my'[c].pr = r
    BY <1>2, <1>10 DEF R
  <2> QED  BY <1>1, <1>11, <2>1, <2>2, <2>3, <2>4, <2>5, <2>6, CallsMove
<1>17. MessagesOK'
  <2>1. Known(m0)'
    <3>1. R(m0.from)' = m0.pr /\ my'[m0.from].new = m0.new /\ pc'[m0.from] = "kwait"
      BY <1>2, <1>6, <1>10 DEF R
    <3> QED  BY <1>2, <1>6, <1>8, <1>10, <3>1 DEF Known, StatesOf, WaitsFor
  <2>2. ASSUME NEW m \in AllMsgs
        PROVE  MessageKept(m) /\ m.pr # m0.pr
    <3>1. m.pr \in Refs /\ m.from \in Clients /\ m.pr # r /\ m.pr # n
      BY <1>2, <1>3, <2>2, MessagesTyped, NoneOnResting DEF Inv, Resting
    <3>2. m.op # "DISCONNECT" => m.from # c
      BY <1>1, <2>2, NoneFromOthers
    <3> QED  BY <1>6, <1>10, <1>13, <3>1, <3>2 DEF MessageKept
  <2>3. port'.queue = Append(port.queue, m0)
    BY <1>0, <1>9 DEF Enqueue, WidePort
  <2> QED  BY <1>12, <2>1, <2>2, <2>3, MessageAdded
<1> QED  BY <1>12, <1>14, <1>15, <1>16, <1>17 DEF Protocol

\* ... and clone() returns, with the new handle or without.
LEMMA CloneDoneOK ==
  ASSUME MsgAssumption, Inv, NEW c \in Clients, OthersStay(c), CloneDone(c)
  PROVE  Protocol'
<1>0. /\ pc \in [Threads -> ClientPcs \cup ServerPcs] /\ ref \in [Refs -> WideRef]
      /\ my \in [Clients -> Local] /\ intr \in [Threads -> BOOLEAN] /\ c \in Threads
      /\ rep \in [Clients -> {"none", "ok", "segs", "err"}]
      /\ slots \in [Slots -> Refs \cup {Null, Reserved}] /\ TablesOK /\ MutexesOK /\ LocalsSet
  BY DEF Inv, Protocol, Typed, ThreadsTyped, KernelTyped, Threads
<1>1. /\ pc[c] = "kwait" /\ Has(c) /\ Waiting(c) /\ Using(c) /\ Reserving(c) /\ ~Queued(X(c).iowait, c)
      /\ Return(c) /\ intr' = intr /\ port' = port
  BY DEF CloneDone, Awake, Has, Owns, Waiting, InExchange, Using, Reserving
<1>2. PICK r \in Refs, x \in WideRef :
        /\ r = R(c) /\ x = X(c) /\ x = ref[r] /\ x.alloc /\ x.port /\ x.state # "CLOSING"
        /\ Owns(c, r) /\ CallAt(pc[c], x, rep[c], intr[c], c)
  BY <1>1, InCall
<1>3. x.state = "IODONE" /\ x.iowait = Zero
  BY <1>1, <1>2, SemaValues DEF CallAt
<1>4. PICK k \in Slots, n \in Refs : k = my[c].slot /\ n = my[c].new
  BY <1>0, <1>1 DEF LocalsSet
<1>5. /\ ref[n].alloc /\ ref[n].port /\ ref[n].state \notin {"OPENING", "CLOSING"} /\ ref[n].refs = 1 /\ SlotsOf(n) = {}
      /\ \A d \in Clients : Using(d) => R(d) # n
      /\ \A d \in Clients : pc[d] = "kwait" /\ d # c => my[d].new # n
  <2>1. /\ ref[n].alloc /\ ref[n].state \notin {"OPENING", "CLOSING"} /\ ref[n].refs = 1 /\ SlotsOf(n) = {}
        /\ \A d \in Clients : Using(d) => R(d) # n
        /\ \A d \in Clients : pc[d] = "kwait" /\ d # c => my[d].new # n
    BY <1>0, <1>1, <1>4, ZenonT(60) DEF TablesOK, NewOK
  <2> QED  BY <2>1 DEF Inv, Protocol, ServerStays
<1>6. n # r
  BY <1>1, <1>2, <1>5
<1>7. PICK y : y = Out(x, TRUE)
  OBVIOUS
<1>8. /\ y.alloc = x.alloc /\ y.port = x.port /\ y.refs = x.refs /\ y.state = x.state /\ y.iowait = x.iowait
      /\ y.sema = VSema(x.sema)
  BY <1>7 DEF Out, WideRef
<1>9. /\ pc'[c] = "out" /\ rep'[c] = "none" /\ ~intr'[c] /\ ~Waiting(c)' /\ ~Using(c)' /\ ~Reserving(c)'
  BY <1>0, <1>1 DEF Return, Goto, Waiting, InExchange, Using, Reserving, Inv, Protocol, EventsOK
<1>10. \A d \in Clients : d # c => /\ pc'[d] = pc[d] /\ my'[d] = my[d] /\ my'[d].pr = my[d].pr
                                   /\ rep'[d] = rep[d] /\ intr'[d] = intr[d]
  BY DEF OthersStay
<1>11. /\ ref'[r] = y /\ \A p \in Refs : p # r /\ p # n => ref'[p] = ref[p]
       /\ \/ slots' = [slots EXCEPT ![k] = n] /\ ref'[n] = ref[n]
          \/ slots' = [slots EXCEPT ![k] = Null] /\ ref'[n] = FreeRef
  <2>1. CASE rep[c] # "err"
    <3>1. slots' = [slots EXCEPT ![k] = n] /\ ref' = [ref EXCEPT ![r] = Out(@, TRUE), ![n] = @]
      BY <1>2, <1>4, <2>1 DEF CloneDone
    <3> QED  BY <1>0, <1>2, <1>6, <1>7, <3>1
  <2>2. CASE rep[c] = "err"
    <3>1. slots' = [slots EXCEPT ![k] = Null] /\ ref' = [ref EXCEPT ![r] = Out(@, TRUE), ![n] = FreeRef]
      BY <1>2, <1>4, <2>2 DEF CloneDone
    <3> QED  BY <1>0, <1>2, <1>6, <1>7, <3>1
  <2> QED  BY <2>1, <2>2
<1>12. ServerStays' /\ EventsOK' /\ PortOK' /\ InHands' = InHands /\ held' = held
  <2>1. \A p \in Refs : ref'[p].alloc => ref'[p].port
    <3>1. ref'[r].port
      BY <1>2, <1>8, <1>11
    <3>2. ref'[n].alloc => ref'[n].port
      BY <1>5, <1>11 DEF FreeRef
    <3>3. \A p \in Refs : ref[p].alloc => ref[p].port
      BY DEF Inv, Protocol, ServerStays
    <3>4. \A p \in Refs : p # r /\ p # n => ref'[p] = ref[p]
      BY <1>11
    <3> QED  BY <3>1, <3>2, <3>3, <3>4
  <2> QED  BY <1>9, <2>1, ClientQuiet
<1>13. CallsOK'
  <2>1. Resting(ref'[r])
    BY <1>3, <1>8, <1>11 DEF Resting
  <2>2. \A d \in Clients : Waiting(d) => R(d) # n
    BY <1>5 DEF Waiting, Using, InExchange
  <2>3. \A p \in Refs : p # r =>
           \/ /\ ref'[p].alloc = ref[p].alloc /\ ref'[p].state = ref[p].state
              /\ ref'[p].iowait = ref[p].iowait /\ ref'[p].svwait = ref[p].svwait
           \/ /\ Resting(ref'[p]) \/ ~ref'[p].alloc
              /\ \A d \in Clients : Waiting(d) => R(d) # p
    <3>1. ref'[n] = ref[n] \/ ~ref'[n].alloc
      BY <1>11 DEF FreeRef
    <3>2. \A p \in Refs : p # r /\ p # n => ref'[p] = ref[p]
      BY <1>11
    <3> QED  BY <2>2, <3>1, <3>2
  <2>4. (\A s \in Servers : pc'[s] = pc[s]) /\ got' = got
    BY DEF OthersStay
  <2>5. ~DupOwed(c)
    BY <1>1, SemaValues DEF DupOwed
  <2>6. \A d \in Clients : d # c => /\ pc'[d] = pc[d] /\ my'[d].pr = my[d].pr
                                    /\ rep'[d] = rep[d] /\ intr'[d] = intr[d]
    BY <1>10
  <2>7. \A d \in Clients : d # c /\ Waiting(d) => R(d) # r
    BY <1>1, <1>2, WaitersHave, OneCall
  <2> QED  BY <1>2, <1>9, <2>1, <2>3, <2>4, <2>5, <2>6, <2>7, CallsMove
<1>14. MessagesOK'
  <2>1. ASSUME NEW m \in AllMsgs
        PROVE  MessageKept(m)
    <3>1. m.pr \in Refs /\ m.from \in Clients /\ m.pr # r
      BY <1>2, <1>3, <2>1, MessagesTyped, NoneOnResting DEF Inv
    <3>2. m.op # "DISCONNECT" => m.from # c
      BY <1>2, <2>1, <3>1, NoneFromOthers
    <3>3. m.pr # n \/ ref'[n] = ref[n]
      <4>1. CASE m.op = "DISCONNECT"
        <5>1. ref[m.pr].state = "CLOSING"
          BY <2>1, <4>1 DEF Inv, Protocol, MessagesOK, AllMsgs, Known, StatesOf
        <5> QED  BY <1>5, <5>1
      <4>2. CASE m.op # "DISCONNECT"
        <5>1. Waiting(m.from) /\ R(m.from) = m.pr
          BY <2>1, <4>2, NoneFromOthers
        <5>2. Using(m.from)
          BY <5>1 DEF Waiting, Using, InExchange
        <5> QED  BY <1>5, <3>1, <5>1, <5>2
      <4> QED  BY <4>1, <4>2
    <3> QED  BY <1>10, <1>11, <3>1, <3>2, <3>3 DEF MessageKept
  <2>2. port'.queue = port.queue
    BY <1>1
  <2> QED  BY <1>12, <2>1, <2>2, MessagesKept DEF Inv, Protocol
<1>15. MutexesOK'
  <2> SUFFICES ASSUME NEW p \in Refs
               PROVE  MutexOK(p)'
    BY DEF MutexesOK
  <2>1. MutexOK(p)
    BY <1>0 DEF MutexesOK
  <2>2. CASE p = r
    <3>1. ref'[r].sema = VSema(ref[r].sema) /\ ref[r].alloc /\ ref[r].state # "CLOSING"
      BY <1>2, <1>8, <1>11
    <3> QED  BY <1>0, <1>2, <1>9, <1>10, <2>1, <2>2, <3>1, MutexGiven
  <2>3. CASE p # r
    <3>1. ~Queued(ref[p].sema, c) /\ ~Owns(c, p) /\ ~Owns(c, p)'
      BY <1>1, <1>2, <1>9, <2>1, <2>3 DEF MutexOK, Owns
    <3>2. CASE ref'[p] = ref[p]
      BY <1>10, <2>1, <3>1, <3>2, MutexKept
    <3>3. CASE p = n /\ ref'[n] = FreeRef
      <4>1. \A d \in Clients : ~Owns(d, n)'
        BY <1>5, <1>9, <1>10, NoOwner
      <4>2. ~ref'[n].alloc /\ ref'[n].sema = NewSema(0)
        BY <3>3 DEF FreeRef
      <4> QED  BY <3>3, <4>1, <4>2, MutexFresh
    <3> QED  BY <1>11, <2>3, <3>2, <3>3
  <2> QED  BY <2>2, <2>3
<1>16. CASE slots' = [slots EXCEPT ![k] = n] /\ ref'[n] = ref[n]
  <2>1. slots' = [slots EXCEPT ![my[c].slot] = n]
    BY <1>4, <1>16
  <2>2. \A p \in Refs :
          ref'[p].alloc = ref[p].alloc /\ ref'[p].refs = ref[p].refs /\ ref'[p].state = ref[p].state
    BY <1>2, <1>8, <1>11, <1>16, Zenon
  <2>3. \A d \in Clients : d # c => pc'[d] = pc[d] /\ my'[d] = my[d]
    BY <1>10
  <2>4. TablesOK'
    BY <1>1, <1>5, <1>9, <2>1, <2>2, <2>3, TablesPlaced
  <2> QED  BY <1>12, <1>13, <1>14, <1>15, <2>4 DEF Protocol
<1>17. CASE slots' = [slots EXCEPT ![k] = Null] /\ ref'[n] = FreeRef
  <2>1. \A d \in Clients : Using(d)' =>
          /\ Using(d) /\ my'[d].slot = my[d].slot /\ my'[d].pr = my[d].pr /\ my'[d].new = my[d].new
          /\ pc'[d] = pc[d] /\ d # c
    BY <1>9, <1>10 DEF Using
  <2>2. ASSUME NEW j \in Slots
        PROVE  \/ slots'[j] = slots[j]
               \/ /\ slots[j] \notin Refs /\ slots'[j] \notin Refs
                  /\ \A d \in Clients : Reserving(d)' => my[d].slot # j
    <3>1. CASE j = k
      <4>1. slots'[j] = Null /\ slots[j] = Reserved
        BY <1>0, <1>1, <1>4, <1>17, <3>1 DEF TablesOK, SlotsKept
      <4>2. \A d \in Clients : Reserving(d)' => Reserving(d) /\ d # c
        BY <1>9, <1>10 DEF Reserving
      <4>3. \A d \in Clients : Reserving(d)' => my[d].slot # j
        BY <1>0, <1>1, <1>4, <3>1, <4>2 DEF TablesOK, SlotsKept
      <4> QED  BY <4>1, <4>3 DEF MsgAssumption
    <3>2. CASE j # k
      BY <1>0, <1>17, <3>2
    <3> QED  BY <3>1, <3>2
  <2>3. \A p \in Refs :
          \/ /\ ref'[p].alloc = ref[p].alloc /\ ref'[p].refs = ref[p].refs /\ ref'[p].state = ref[p].state
          \/ /\ SlotsOf(p) = {}
             /\ \A d \in Clients : Using(d)' => my[d].pr # p /\ (pc[d] = "kwait" => my[d].new # p)
    <3>1. ref'[r].alloc = ref[r].alloc /\ ref'[r].refs = ref[r].refs /\ ref'[r].state = ref[r].state
      BY <1>2, <1>8, <1>11, Zenon
    <3>2. /\ SlotsOf(n) = {}
          /\ \A d \in Clients : Using(d)' => my[d].pr # n /\ (pc[d] = "kwait" => my[d].new # n)
      BY <1>5, <2>1 DEF R
    <3>3. \A p \in Refs : p # r /\ p # n => ref'[p] = ref[p]
      BY <1>11
    <3> QED  BY <3>1, <3>2, <3>3
  <2>4. TablesOK'
    BY <1>0, <2>1, <2>2, <2>3, TablesFrame
  <2> QED  BY <1>12, <1>13, <1>14, <1>15, <2>4 DEF Protocol
<1> QED  BY <1>11, <1>16, <1>17

-----------------------------------------------------------------------------
(* The steps of the servers.                                               *)

\* What a server's step leaves alone.
ClientsStay(s) ==
  /\ \A c \in Clients : /\ pc'[c] = pc[c] /\ intr'[c] = intr[c]
                        /\ my'[c].pr = my[c].pr /\ my'[c].new = my[c].new /\ my'[c].slot = my[c].slot
  /\ \A u \in Servers : u # s => pc'[u] = pc[u] /\ intr'[u] = intr[u] /\ got'[u] = got[u]
  /\ pc'[s] \notin ShuttingPcs
  /\ slots' = slots /\ doomed' = doomed /\ port'.named = port.named

\* No server touches a client's thread, or another server, and while the port
\* keeps its name none takes it down.
LEMMA ServerAlone ==
  ASSUME MsgAssumption, Inv, port'.named, NEW s \in Servers,
         RecvFind(s) \/ ServerRuns(s) \/ ClosePort(s) \/ \E m \in held : ServerAnswers(s, m)
  PROVE  /\ ClientsStay(s)
         /\ \/ RecvFind(s) \/ RecvWait(s) \/ RecvBroken(s) \/ RecvTake(s) \/ RecvNothing(s) \/ RecvReturn(s)
            \/ ReplyRuns(s) \/ DupWake(s) \/ DupHash(s) \/ ClosePort(s)
            \/ \E m \in held : ServerAnswers(s, m)
<1>1. /\ pc \in [Threads -> ClientPcs \cup ServerPcs] /\ intr \in [Threads -> BOOLEAN]
      /\ my \in [Clients -> Local] /\ got \in [Servers -> Sendable \cup Refs \cup {Null}]
      /\ port \in WidePort /\ Clients \subseteq Threads /\ Servers \subseteq Threads /\ s \in Threads
      /\ \A c \in Clients : s # c
  <2>1. Clients \subseteq Threads /\ Servers \subseteq Threads /\ \A c \in Clients : s # c
    BY DEF Threads, MsgAssumption
  <2> QED  BY <2>1 DEF Inv, Typed, ThreadsTyped, ServerTyped, KernelTyped
<1>2. pc[s] \notin ShuttingPcs
  BY DEF Inv, Protocol, ServerStays
<1>y. ~CloseName(s)
  BY <1>1 DEF CloseName, WidePort
<1>3. \/ RecvFind(s) \/ RecvWait(s) \/ RecvBroken(s) \/ RecvTake(s) \/ RecvNothing(s) \/ RecvReturn(s)
      \/ ReplyRuns(s) \/ DupWake(s) \/ DupHash(s) \/ ClosePort(s)
      \/ \E m \in held : ServerAnswers(s, m)
  BY <1>2, <1>y, ZenonT(60) DEF ServerRuns, Grab, Bounce, BounceEnd, CloseClient, CloseHash, FreePort, ShuttingPcs
<1>4. slots' = slots /\ doomed' = doomed
  BY <1>3, ZenonT(60) DEF RecvFind, RecvWait, RecvBroken, RecvTake, RecvNothing, RecvReturn, ReplyRuns, DupWake, DupHash, ClosePort,
         ServerAnswers, MsgAccept, MsgErr, ReplyDone, ReplyDup, ReplyAbort, ReplyRefused, clientVars, serverVars
<1>5. intr' = intr \/ NoEvent(s)
  BY <1>3, ZenonT(60) DEF RecvFind, RecvWait, RecvBroken, RecvTake, RecvNothing, RecvReturn, ReplyRuns, DupWake, DupHash, ClosePort,
         ServerAnswers, MsgAccept, MsgErr, ReplyDone, ReplyDup, ReplyAbort, ReplyRefused
<1>6. (\E l \in ServerPcs \ ShuttingPcs : Goto(s, l)) \/ pc' = pc
  BY <1>3, ZenonT(60) DEF RecvFind, RecvWait, RecvBroken, RecvTake, RecvNothing, RecvReturn, ReplyRuns, DupWake, DupHash, ClosePort,
         ServerAnswers, MsgAccept, MsgErr, ReplyDone, ReplyDup, ReplyAbort, ReplyRefused, ServerPcs, ShuttingPcs
<1>7. got' = got \/ \E g : got' = [got EXCEPT ![s] = g]
  BY <1>3, ZenonT(60) DEF RecvFind, RecvWait, RecvBroken, RecvTake, RecvNothing, RecvReturn, ReplyRuns, DupWake, DupHash, ClosePort,
         ServerAnswers, MsgAccept, MsgErr, ReplyDone, ReplyDup, ReplyAbort, ReplyRefused, serverVars
<1>8. my' = my \/ \E c, b : my' = [my EXCEPT ![c].nseg = b]
  <2>1. CASE RecvReturn(s)
    BY <2>1 DEF RecvReturn
  <2>2. CASE ~RecvReturn(s)
    BY <1>3, <2>2, ZenonT(60) DEF RecvFind, RecvWait, RecvBroken, RecvTake, RecvNothing, ReplyRuns, DupWake, DupHash, ClosePort,
         ServerAnswers, MsgAccept, MsgErr, ReplyDone, ReplyDup, ReplyAbort, ReplyRefused, clientVars
  <2> QED  BY <2>1, <2>2
<1>9. port'.named = port.named
  <2>1. CASE RecvTake(s)
    BY <1>1, <2>1 DEF RecvTake, RefPort, DerefPort, WidePort
  <2>2. CASE ~RecvTake(s) /\ port' # port
    <3>1. \/ port' = [port EXCEPT !.inproc = FALSE, !.sema = PSema(@, s)]
          \/ port' = [port EXCEPT !.sema = PSema(@, s)] \/ port' = [port EXCEPT !.wait = PSema(@, s)]
          \/ port' = [port EXCEPT !.sema = VSema(@)] \/ \E r : port' \in {RefPort(port, r), DerefPort(port, r)}
      BY <1>3, <2>2, ZenonT(60) DEF RecvFind, RecvWait, RecvBroken, RecvNothing, RecvReturn, ReplyRuns, DupWake, DupHash, ClosePort,
           ServerAnswers, MsgAccept, MsgErr, ReplyDone, ReplyDup, ReplyAbort, ReplyRefused
    <3> QED  BY <1>1, <3>1 DEF RefPort, DerefPort, WidePort
  <2> QED  BY <2>1, <2>2
<1>10. \A c \in Clients : /\ pc'[c] = pc[c] /\ intr'[c] = intr[c]
                          /\ my'[c].pr = my[c].pr /\ my'[c].new = my[c].new /\ my'[c].slot = my[c].slot
  <2>1. \A c \in Clients : pc'[c] = pc[c] /\ intr'[c] = intr[c]
    BY <1>1, <1>5, <1>6 DEF Goto, NoEvent
  <2>2. ASSUME NEW c \in Clients
        PROVE  my'[c].pr = my[c].pr /\ my'[c].new = my[c].new /\ my'[c].slot = my[c].slot
    <3>1. CASE my' = my
      BY <3>1
    <3>2. CASE \E d, b : my' = [my EXCEPT ![d].nseg = b]
      <4>1. PICK d, b : my' = [my EXCEPT ![d].nseg = b]
        BY <3>2
      <4> QED  BY <1>1, <4>1 DEF Local
    <3> QED  BY <1>8, <3>1, <3>2
  <2> QED  BY <2>1, <2>2
<1>11. \A u \in Servers : u # s => pc'[u] = pc[u] /\ intr'[u] = intr[u] /\ got'[u] = got[u]
  BY <1>1, <1>5, <1>6, <1>7 DEF Goto, NoEvent
<1>12. pc'[s] \notin ShuttingPcs
  BY <1>1, <1>2, <1>6 DEF Goto
<1> QED  BY <1>3, <1>4, <1>9, <1>10, <1>11, <1>12 DEF ClientsStay

\* Slots, handles and mutexes while servers work.
LEMMA ServerFrame ==
  ASSUME MsgAssumption, Inv, NEW s, ClientsStay(s),
         \A p \in Refs :
           \/ /\ ref'[p].alloc = ref[p].alloc /\ ref'[p].port = ref[p].port
              /\ ref'[p].refs = ref[p].refs /\ ref'[p].sema = ref[p].sema
              /\ \/ ref'[p].state = ref[p].state
                 \/ ref[p].state # "CLOSING" /\ ref'[p].state \notin {"OPENING", "CLOSING"}
           \/ ref[p].alloc /\ ref[p].state = "CLOSING" /\ ref'[p] = FreeRef
  PROVE  ServerStays' /\ TablesOK' /\ MutexesOK'
<1>0. LocalsSet /\ TablesOK /\ MutexesOK /\ ServerStays
  BY DEF Inv, Protocol, Typed
<1>1. ServerStays'
  <2>1. \A p \in Refs : ref'[p].alloc => ref'[p].port
    BY <1>0 DEF ServerStays, FreeRef
  <2> QED  BY <1>0, <2>1 DEF ServerStays, ClientsStay
<1>2. \A p \in Refs : ref[p].alloc /\ ref[p].state = "CLOSING" =>
        /\ SlotsOf(p) = {}
        /\ \A d \in Clients : Using(d) => my[d].pr # p /\ (pc[d] = "kwait" => my[d].new # p)
  <2>1. \A p \in Refs : ref[p].state = "CLOSING" => SlotsOf(p) = {}
    BY <1>0 DEF TablesOK, HandlesKept
  <2>2. \A d \in Clients : Using(d) => ref[R(d)].state # "CLOSING"
    BY <1>0 DEF TablesOK, UsersOK
  <2>3. \A d \in Clients : pc[d] = "kwait" => ref[my[d].new].state # "CLOSING"
    BY <1>0, ZenonT(60) DEF TablesOK, NewOK
  <2> QED  BY <2>1, <2>2, <2>3 DEF R
<1>3. \A d \in Clients : Using(d)' <=> Using(d)
  BY DEF ClientsStay, Using
<1>4. TablesOK'
  <2>1. \A d \in Clients : Using(d)' =>
          /\ Using(d) /\ my'[d].slot = my[d].slot /\ my'[d].pr = my[d].pr /\ my'[d].new = my[d].new
          /\ pc'[d] = pc[d]
    BY <1>3 DEF ClientsStay
  <2>2. slots' = slots
    BY DEF ClientsStay
  <2>3. \A p \in Refs :
           \/ /\ ref'[p].alloc = ref[p].alloc /\ ref'[p].refs = ref[p].refs
              /\ \/ ref'[p].state = ref[p].state
                 \/ ref[p].state # "CLOSING" /\ ref'[p].state \notin {"OPENING", "CLOSING"}
           \/ /\ SlotsOf(p) = {}
              /\ \A d \in Clients : Using(d)' => my[d].pr # p /\ (pc[d] = "kwait" => my[d].new # p)
    BY <1>2, <1>3
  <2> QED  BY <1>0, <2>1, <2>2, <2>3, TablesFrame
<1>5. MutexesOK'
  <2> SUFFICES ASSUME NEW p \in Refs
               PROVE  MutexOK(p)'
    BY DEF MutexesOK
  <2>1. MutexOK(p)
    BY <1>0 DEF MutexesOK
  <2>2. \A d \in Clients : pc'[d] = pc[d] /\ my'[d].pr = my[d].pr /\ intr'[d] = intr[d]
    BY DEF ClientsStay
  <2>3. CASE /\ ref'[p].alloc = ref[p].alloc /\ ref'[p].sema = ref[p].sema
             /\ \/ ref'[p].state = ref[p].state
                \/ ref[p].state # "CLOSING" /\ ref'[p].state \notin {"OPENING", "CLOSING"}
    BY <2>1, <2>2, <2>3, MutexKept
  <2>4. CASE ref[p].alloc /\ ref[p].state = "CLOSING" /\ ref'[p] = FreeRef
    <3>1. \A d \in Clients : ~Owns(d, p)'
      <4> SUFFICES ASSUME NEW d \in Clients, Owns(d, p)'
                   PROVE  FALSE
        OBVIOUS
      <4>1. my[d].pr = p /\ Using(d)
        BY <2>2 DEF Owns, R, Using
      <4> QED  BY <1>2, <2>4, <4>1
    <3>2. ~ref'[p].alloc /\ ref'[p].sema = NewSema(0)
      BY <2>4 DEF FreeRef
    <3> QED  BY <3>1, <3>2, MutexFresh
  <2> QED  BY <2>3, <2>4
<1> QED  BY <1>1, <1>4, <1>5

\* Events and answers while servers work.
LEMMA EventsFrame ==
  ASSUME Inv, NEW s \in Servers, ClientsStay(s), \A c \in Clients : rep'[c] # "none" => Waiting(c),
         intr'[s] => pc'[s] \in {"find", "rwait"},
         pc'[s] \in {"dupwake", "duphash"} => got'[s].op = "DUP"
  PROVE  EventsOK'
<1>1. \A c \in Clients : Waiting(c)' <=> Waiting(c)
  BY DEF ClientsStay, Waiting, InExchange
<1>2. \A u \in Servers : u = s \/ (pc'[u] = pc[u] /\ intr'[u] = intr[u] /\ got'[u] = got[u])
  BY DEF ClientsStay
<1>3. \A c \in Clients : pc'[c] = pc[c] /\ intr'[c] = intr[c]
  BY DEF ClientsStay
<1> QED  BY <1>1, <1>2, <1>3 DEF EventsOK, Inv, Protocol

\* Steps that neither receive nor stop receiving.
LEMMA PortFrame ==
  ASSUME Inv, NEW s \in Servers, ClientsStay(s), port'.sema = port.sema,
         pc[s] \notin {"find", "rwait", "rcvd", "dport"}, pc'[s] \notin {"find", "rwait", "rcvd", "dport"}
  PROVE  PortOK' /\ InHands' = InHands
<1>1. \A u \in Servers : u # s => pc'[u] = pc[u] /\ intr'[u] = intr[u] /\ got'[u] = got[u]
  BY DEF ClientsStay
<1>2. PortOK'
  <2>1. \A u \in Servers : Receives(u)' <=> Receives(u)
    BY <1>1 DEF Receives
  <2>2. \A u \in Servers : Queued(port.sema, u) => pc'[u] = pc[u] /\ intr'[u] = intr[u]
    BY <1>1 DEF Inv, Protocol, PortOK
  <2> QED  BY <2>1, <2>2, PortKept DEF Inv, Protocol
<1>3. InHands' = InHands
  BY <1>1 DEF InHands
<1> QED  BY <1>2, <1>3

\* Only one server has the port.
LEMMA OneReceiver ==
  ASSUME Inv, NEW s \in Servers, pc[s] \in {"rwait", "rcvd"}, NEW u \in Servers, pc[u] \in {"rwait", "rcvd"}
  PROVE  u = s
<1>1. s \in Receivers /\ u \in Receivers
  BY DEF Receivers, Receives
<1>2. Mutex(port.sema, Receivers)
  BY DEF Inv, Protocol, PortOK
<1> QED  BY <1>1, <1>2, OneOwner

\* Calls while a server does nothing that clients wait for.
LEMMA CallsRest ==
  ASSUME Inv, NEW s \in Servers, ClientsStay(s), rep' = rep,
         \A p \in Refs :
           \/ /\ ref'[p].alloc = ref[p].alloc /\ ref'[p].state = ref[p].state
              /\ ref'[p].iowait = ref[p].iowait /\ ref'[p].svwait = ref[p].svwait,
         pc'[s] # "dupwake"
  PROVE  CallsOK'
<1>1. \A d \in Clients : pc'[d] = pc[d] /\ my'[d].pr = my[d].pr /\ rep'[d] = rep[d] /\ intr'[d] = intr[d]
  BY DEF ClientsStay
<1>2. \A d \in Clients : Waiting(d) => R(d) \in Refs
  BY DEF Inv, Typed, LocalsSet, Waiting, InExchange
<1>3. \A u \in Servers : pc'[u] = "dupwake" => pc[u] = "dupwake" /\ got'[u] = got[u]
  BY DEF ClientsStay
<1> QED  BY <1>1, <1>2, <1>3, CallsSame DEF Inv, Protocol

\* Steps that touch no call and no message.
LEMMA QuietOK ==
  ASSUME MsgAssumption, Inv, NEW s \in Servers, ClientsStay(s), rep' = rep, ref' = ref, held' = held,
         port'.queue = port.queue, pc'[s] # "dupwake", InHands' = InHands, PortOK',
         intr'[s] => pc'[s] \in {"find", "rwait"}, pc'[s] = "duphash" => got'[s].op = "DUP"
  PROVE  Protocol'
<1>1. ServerStays' /\ TablesOK' /\ MutexesOK'
  BY ServerFrame
<1>2. EventsOK'
  <2>1. \A c \in Clients : rep'[c] # "none" => Waiting(c)
    BY DEF Inv, Protocol, EventsOK
  <2> QED  BY <2>1, EventsFrame
<1>3. CallsOK'
  BY CallsRest
<1>4. MessagesOK'
  <2>1. \A m \in AllMsgs : MessageKept(m)
    <3> SUFFICES ASSUME NEW m \in AllMsgs
                 PROVE  MessageKept(m)
      OBVIOUS
    <3>1. m.from \in Clients
      BY MessagesTyped DEF Inv
    <3> QED  BY <3>1 DEF MessageKept, ClientsStay
  <2> QED  BY <2>1, MessagesKept DEF Inv, Protocol
<1> QED  BY <1>1, <1>2, <1>3, <1>4 DEF Protocol

\* msg_receive() on its way to a message, and delete_port().
LEMMA ReceiveOK ==
  ASSUME MsgAssumption, Inv, NEW s \in Servers, ClientsStay(s),
         RecvFind(s) \/ RecvWait(s) \/ RecvBroken(s) \/ RecvNothing(s) \/ ClosePort(s)
  PROVE  Protocol'
<1>0. /\ pc \in [Threads -> ClientPcs \cup ServerPcs] /\ intr \in [Threads -> BOOLEAN]
      /\ port \in WidePort /\ s \in Threads
  BY DEF Inv, Typed, ThreadsTyped, KernelTyped, Threads
<1>1. PortOK'
  BY ReceiveKeepsPort
<1>2. rep' = rep /\ ref' = ref /\ held' = held /\ got' = got
  BY DEF RecvFind, RecvWait, RecvBroken, RecvNothing, ClosePort, serverVars
<1>3. port'.queue = port.queue
  BY <1>0 DEF RecvFind, RecvWait, RecvBroken, RecvNothing, ClosePort, WidePort
<1>z. pc[s] = "out" => ~intr[s]
  BY DEF Inv, Protocol, EventsOK
<1>4. \/ pc[s] = "out" /\ pc'[s] \in {"find", "dport"} /\ intr' = intr
      \/ pc[s] = "find" /\ pc'[s] = "rwait" /\ intr' = intr
      \/ pc[s] \in {"find", "rwait"} /\ pc'[s] = "out" /\ ~intr'[s]
      \/ pc[s] = "rwait" /\ pc'[s] = "rwait" /\ intr' = intr
  BY <1>0 DEF RecvFind, RecvWait, RecvBroken, RecvNothing, ClosePort, Goto, NoEvent, Awake, Broken
<1>5. InHands' = InHands
  BY <1>2, <1>4 DEF InHands, ClientsStay
<1>6. intr'[s] => pc'[s] \in {"find", "rwait"}
  BY <1>4, <1>z
<1> QED  BY <1>1, <1>2, <1>3, <1>4, <1>5, <1>6, QuietOK

\* ReplyRuns and DupHash.
LEMMA RestOK ==
  ASSUME MsgAssumption, Inv, NEW s \in Servers, ClientsStay(s), ReplyRuns(s) \/ DupHash(s)
  PROVE  Protocol'
<1>0. /\ pc \in [Threads -> ClientPcs \cup ServerPcs] /\ s \in Threads
  BY DEF Inv, Typed, ThreadsTyped, Threads
<1>1. /\ rep' = rep /\ ref' = ref /\ held' = held /\ port' = port /\ intr' = intr
      /\ pc[s] \in {"svwait", "duphash"} /\ pc'[s] = "out" /\ ~intr[s]
  BY <1>0 DEF ReplyRuns, DupHash, serverVars, Goto, Inv, Protocol, EventsOK
<1>2. PortOK' /\ InHands' = InHands
  BY <1>1, PortFrame
<1> QED  BY <1>1, <1>2, QuietOK

\* A queue with one message a handle, without its first.
LEMMA TailSpread ==
  ASSUME NEW q \in Seq(Sendable), q # << >>, Spread(q)
  PROVE  /\ Head(q) \in ToSet(q) /\ Tail(q) \in Seq(Sendable) /\ Spread(Tail(q))
         /\ \A m \in ToSet(Tail(q)) : m \in ToSet(q) /\ m.pr # Head(q).pr
<1>1. PICK p, n : p = Tail(q) /\ n = Len(q)
  OBVIOUS
<1>2. /\ n \in Nat /\ n > 0 /\ p \in Seq(Sendable) /\ Len(p) = n - 1 /\ Head(q) = q[1] /\ 1 \in 1..n
      /\ \A i \in 1..(n - 1) : p[i] = q[i + 1] /\ i + 1 \in 1..n /\ i + 1 # 1
  BY <1>1
<1>3. DOMAIN p = 1..(n - 1) /\ DOMAIN q = 1..n
  BY <1>1, <1>2
<1>4. \A i, j \in 1..n : i # j => q[i].pr # q[j].pr
  BY <1>1 DEF Spread
<1>5. \A m \in ToSet(p) : \E i \in 1..(n - 1) : m = q[i + 1]
  BY <1>2, <1>3 DEF ToSet
<1>6. \A m \in ToSet(p) : m \in ToSet(q) /\ m.pr # q[1].pr
  <2> SUFFICES ASSUME NEW m \in ToSet(p)
               PROVE  m \in ToSet(q) /\ m.pr # q[1].pr
    OBVIOUS
  <2>1. PICK i \in 1..(n - 1) : m = q[i + 1]
    BY <1>5
  <2> QED  BY <1>2, <1>3, <1>4, <2>1 DEF ToSet
<1>7. Spread(p)
  <2> SUFFICES ASSUME NEW i \in 1..(n - 1), NEW j \in 1..(n - 1), i # j
               PROVE  p[i].pr # p[j].pr
    BY <1>2 DEF Spread
  <2>1. i + 1 \in 1..n /\ j + 1 \in 1..n /\ i + 1 # j + 1
    BY <1>2
  <2> QED  BY <1>2, <1>4, <2>1, ZenonT(60)
<1>8. Head(q) \in ToSet(q)
  BY <1>2, <1>3 DEF ToSet
<1> QED  BY <1>1, <1>2, <1>6, <1>7, <1>8

\* msg_receive() takes the first message, ...
LEMMA TakeMsgOK ==
  ASSUME MsgAssumption, Inv, NEW s \in Servers, ClientsStay(s), RecvTake(s)
  PROVE  Protocol'
<1>0. /\ pc \in [Threads -> ClientPcs \cup ServerPcs] /\ ref \in [Refs -> WideRef]
      /\ got \in [Servers -> Sendable \cup Refs \cup {Null}]
      /\ port \in WidePort /\ s \in Threads /\ port.queue \in Seq(Sendable) /\ MessagesOK
      /\ ToSet(port.queue) \subseteq Sendable
  BY MessagesTyped DEF Inv, Protocol, Typed, ThreadsTyped, ServerTyped, KernelTyped, Threads
<1>1. pc[s] = "rwait" /\ ~intr[s] /\ port.queue # << >> /\ rep' = rep /\ held' = held /\ intr' = intr
  BY DEF RecvTake, Awake
<1>2. PICK q, t : q = port.queue /\ t = Tail(q)
  OBVIOUS
<1>3. /\ Head(q) \in ToSet(q) /\ t \in Seq(Sendable) /\ Spread(t)
      /\ \A m \in ToSet(t) : m \in ToSet(q) /\ m.pr # Head(q).pr
  BY <1>0, <1>1, <1>2, TailSpread DEF MessagesOK
<1>4. PICK m \in Sendable : m = Head(q)
  BY <1>0, <1>2, <1>3
<1>5. m.pr \in Refs /\ m.from \in Clients /\ m \in ToSet(port.queue)
  BY <1>2, <1>3, <1>4 DEF Sendable, Messages
<1>6. /\ ref' = [ref EXCEPT ![m.pr].msg = m] /\ got' = [got EXCEPT ![s] = m] /\ pc' = [pc EXCEPT ![s] = "rcvd"]
      /\ LET p == [port EXCEPT !.queue = t]
         IN  port' = p \/ port' = RefPort(p, m.pr) \/ port' = DerefPort(p, m.pr)
  <2>1. /\ ref' = [ref EXCEPT ![m.pr].msg = m] /\ got' = [got EXCEPT ![s] = m] /\ pc' = [pc EXCEPT ![s] = "rcvd"]
    BY <1>2, <1>4 DEF RecvTake, Goto
  <2>2. PICK p : p = [port EXCEPT !.queue = t]
    OBVIOUS
  <2>3. port' = (CASE m.op = "CONNECT"    -> RefPort(p, m.pr)
                   [] m.op = "DISCONNECT" -> DerefPort(p, m.pr)
                   [] OTHER               -> p)
    BY <1>2, <1>4, <2>2 DEF RecvTake
  <2>4. port' = p \/ port' = RefPort(p, m.pr) \/ port' = DerefPort(p, m.pr)
    BY <2>3
  <2> QED  BY <2>1, <2>2, <2>4
<1>7. port'.queue = t
  BY <1>0, <1>6 DEF RefPort, DerefPort, WidePort
<1>8. /\ pc'[s] = "rcvd" /\ got'[s] = m
      /\ ref'[m.pr] = [ref[m.pr] EXCEPT !.msg = m] /\ \A p \in Refs : p # m.pr => ref'[p] = ref[p]
  BY <1>0, <1>5, <1>6
<1>9. PICK x \in WideRef : x = ref[m.pr]
  BY <1>0, <1>5
<1>10. /\ ref'[m.pr].msg = m
       /\ \A p \in Refs : /\ ref'[p].alloc = ref[p].alloc /\ ref'[p].port = ref[p].port
                          /\ ref'[p].refs = ref[p].refs /\ ref'[p].sema = ref[p].sema
                          /\ ref'[p].state = ref[p].state
                          /\ ref'[p].iowait = ref[p].iowait /\ ref'[p].svwait = ref[p].svwait
  BY <1>8, <1>9 DEF WideRef
<1>11. PortOK'
  BY ReceiveKeepsPort
<1>12. ServerStays' /\ TablesOK' /\ MutexesOK'
  BY <1>10, ServerFrame
<1>13. EventsOK'
  <2>1. \A c \in Clients : rep'[c] # "none" => Waiting(c)
    BY <1>1 DEF Inv, Protocol, EventsOK
  <2>2. ~intr'[s]
    BY <1>1
  <2> QED  BY <1>8, <2>1, <2>2, EventsFrame
<1>14. CallsOK'
  BY <1>1, <1>8, <1>10, CallsRest
<1>15. InHands = {} /\ InHands' = {m}
  <2>1. \A u \in Servers : pc[u] # "rcvd" /\ (pc'[u] = "rcvd" <=> u = s)
    BY <1>1, <1>8, OneReceiver DEF ClientsStay
  <2> QED  BY <1>8, <2>1 DEF InHands
<1>16. MessagesOK'
  <2>1. \A n \in AllMsgs : Known(n)'
    <3> SUFFICES ASSUME NEW n \in AllMsgs
                 PROVE  Known(n)'
      OBVIOUS
    <3>1. n.from \in Clients /\ n.pr \in Refs
      BY MessagesTyped DEF Inv
    <3>2. Known(n)
      BY <1>0 DEF MessagesOK, AllMsgs
    <3> QED  BY <1>10, <3>1, <3>2 DEF Known, ClientsStay, R
  <2>2. Spread(port'.queue)
    BY <1>3, <1>7
  <2>3. ToSet(port'.queue) \subseteq ToSet(port.queue) /\ \A n \in ToSet(port'.queue) : n.pr # m.pr
    BY <1>2, <1>3, <1>4, <1>7
  <2>4. \A n \in ToSet(port'.queue) \cup InHands' \cup held' : Known(n)'
    BY <1>1, <1>5, <1>15, <2>1, <2>3 DEF AllMsgs
  <2>5. \A n \in ToSet(port'.queue), h \in InHands' \cup held' : n.pr = h.pr => Aborts(n, h)
    BY <1>0, <1>1, <1>15, <2>3 DEF MessagesOK
  <2>6. \A h \in held : m.pr = h.pr => Aborts(m, h)
    BY <1>0, <1>5 DEF MessagesOK
  <2>7. ASSUME NEW n \in InHands' \cup held', n.op # "ABORT", ref'[n.pr].state # "ABWAIT"
        PROVE  ref'[n.pr].msg = n
    <3>1. CASE n = m
      BY <1>10, <3>1
    <3>2. CASE n \in held /\ n.pr = m.pr
      <4>1. m.op = "ABORT" /\ Known(m)
        BY <1>0, <1>5, <2>6, <3>2 DEF Aborts, MessagesOK
      <4>2. ref[m.pr].state = "ABWAIT"
        BY <4>1 DEF Known, StatesOf
      <4> QED  BY <1>5, <1>10, <2>7, <3>2, <4>2
    <3>3. CASE n \in held /\ n.pr # m.pr
      <4>1. n.pr \in Refs
        BY <3>3, MessagesTyped DEF Inv, AllMsgs
      <4> QED  BY <1>0, <1>8, <2>7, <3>3, <4>1 DEF MessagesOK
    <3> QED  BY <1>1, <1>15, <2>7, <3>1, <3>2, <3>3
  <2>8. \A n \in InHands', h \in held' : n.pr = h.pr => Aborts(n, h)
    BY <1>1, <1>15, <2>6
  <2> QED  BY <1>0, <1>1, <2>2, <2>4, <2>5, <2>7, <2>8 DEF MessagesOK
<1> QED  BY <1>11, <1>12, <1>13, <1>14, <1>16 DEF Protocol

\* Messages leave the kernel's or the server's hands, or go from the one to
\* the other.
LEMMA MessagesLess ==
  ASSUME Inv, port'.queue = port.queue,
         InHands' \cup held' \subseteq InHands \cup held, InHands' \subseteq InHands,
         \A m \in ToSet(port.queue) \cup InHands' \cup held' : MessageKept(m),
         \A h \in held' : h.op # "DISCONNECT",
         \A g, h \in held' \ held : g = h,
         InHands' = {} \/ held' \subseteq held
  PROVE  MessagesOK'
<1>0. MessagesOK
  BY DEF Inv, Protocol
<1>1. \A m \in ToSet(port.queue) \cup InHands' \cup held' : Known(m)'
  BY <1>0, KnownKept DEF MessagesOK
<1>2. \A m \in InHands' \cup held' :
        m.op # "ABORT" /\ ref'[m.pr].state # "ABWAIT" => ref'[m.pr].msg = m
  BY <1>0 DEF MessagesOK, MessageKept
<1>3. \A m \in ToSet(port.queue), n \in InHands' \cup held' : m.pr = n.pr => Aborts(m, n)
  BY <1>0 DEF MessagesOK
<1>4. \A m \in InHands', h \in held' : m.pr = h.pr => Aborts(m, h)
  BY <1>0 DEF MessagesOK
<1>5. \A g, h \in held' : g.pr = h.pr /\ g # h => Aborts(g, h) \/ Aborts(h, g)
  <2> SUFFICES ASSUME NEW g \in held', NEW h \in held', g.pr = h.pr, g # h
               PROVE  Aborts(g, h) \/ Aborts(h, g)
    OBVIOUS
  <2>1. CASE g \in held /\ h \in held
    BY <1>0, <2>1 DEF MessagesOK
  <2>2. CASE g \in InHands /\ h \in held
    BY <1>0, <2>2 DEF MessagesOK
  <2>3. CASE g \in held /\ h \in InHands
    BY <1>0, <2>3 DEF MessagesOK
  <2> QED  BY <2>1, <2>2, <2>3
<1> QED  BY <1>0, <1>1, <1>2, <1>3, <1>4, <1>5 DEF MessagesOK

\* ... and hands it to the server, or forgets the client.
LEMMA RecvReturnOK ==
  ASSUME MsgAssumption, Inv, NEW s \in Servers, ClientsStay(s), RecvReturn(s)
  PROVE  Protocol'
<1>0. /\ pc \in [Threads -> ClientPcs \cup ServerPcs] /\ ref \in [Refs -> WideRef]
      /\ port \in WidePort /\ s \in Threads /\ MessagesOK /\ CallsOK
  BY DEF Inv, Protocol, Typed, ThreadsTyped, KernelTyped, Threads
<1>1. pc[s] = "rcvd" /\ pc'[s] = "out" /\ rep' = rep /\ intr' = intr
  BY <1>0 DEF RecvReturn, Goto
<1>2. PICK m : m = got[s]
  OBVIOUS
<1>3. InHands = {m} /\ InHands' = {}
  <2>1. \A u \in Servers : pc[u] = "rcvd" => u = s
    BY <1>1, OneReceiver
  <2>2. \A u \in Servers : pc'[u] # "rcvd"
    BY <1>1, <2>1 DEF ClientsStay
  <2> QED  BY <1>1, <1>2, <2>1, <2>2 DEF InHands
<1>4. /\ m \in AllMsgs /\ m \in Sendable /\ m.pr \in Refs /\ m.from \in Clients /\ m.op \in Ops /\ Known(m)
  BY <1>0, <1>3, MessagesTyped DEF Inv, AllMsgs, MessagesOK
<1>5. \/ m.op # "DISCONNECT" /\ held' = held \cup {m} /\ ref' = ref
      \/ m.op = "DISCONNECT" /\ held' = {h \in held : h.pr # m.pr} /\ ref' = [ref EXCEPT ![m.pr] = FreeRef]
  BY <1>2, <1>4, ZenonT(60) DEF RecvReturn
<1>6. port'.queue = port.queue /\ PortOK'
  BY <1>0, ReceiveKeepsPort DEF RecvReturn, WidePort
<1>7. m.op = "DISCONNECT" => ref[m.pr].alloc /\ ref[m.pr].state = "CLOSING"
  BY <1>4 DEF Known, StatesOf
<1>8. \A p \in Refs : ref'[p] = ref[p] \/ (p = m.pr /\ m.op = "DISCONNECT" /\ ref'[p] = FreeRef)
  BY <1>0, <1>5
<1>9. ServerStays' /\ TablesOK' /\ MutexesOK'
  <2>1. \A p \in Refs :
           \/ /\ ref'[p].alloc = ref[p].alloc /\ ref'[p].port = ref[p].port
              /\ ref'[p].refs = ref[p].refs /\ ref'[p].sema = ref[p].sema
              /\ \/ ref'[p].state = ref[p].state
                 \/ ref[p].state # "CLOSING" /\ ref'[p].state \notin {"OPENING", "CLOSING"}
           \/ ref[p].alloc /\ ref[p].state = "CLOSING" /\ ref'[p] = FreeRef
    BY <1>7, <1>8
  <2> QED  BY <2>1, ServerFrame
<1>10. EventsOK'
  <2>1. \A c \in Clients : rep'[c] # "none" => Waiting(c)
    BY <1>1 DEF Inv, Protocol, EventsOK
  <2>2. ~intr'[s]
    BY <1>1 DEF Inv, Protocol, EventsOK
  <2> QED  BY <1>1, <2>1, <2>2, EventsFrame
<1>11. CallsOK'
  <2>1. CASE m.op # "DISCONNECT"
    <3>1. ref' = ref
      BY <1>5, <2>1
    <3> QED  BY <1>1, <3>1, CallsRest
  <2>2. CASE m.op = "DISCONNECT"
    <3>1. \A d \in Clients : Waiting(d) => R(d) \in Refs /\ R(d) # m.pr
      <4> SUFFICES ASSUME NEW d \in Clients, Waiting(d)
                   PROVE  R(d) \in Refs /\ R(d) # m.pr
        OBVIOUS
      <4>1. Using(d)
        BY DEF Waiting, InExchange, Using
      <4>2. ref[R(d)].state # "CLOSING" /\ R(d) \in Refs
        BY <4>1 DEF Inv, Protocol, TablesOK, UsersOK, Typed, LocalsSet, Using
      <4> QED  BY <1>7, <2>2, <4>2
    <3>2. \A d \in Clients : /\ Waiting(d)' <=> Waiting(d)
                             /\ R(d)' = R(d) /\ pc'[d] = pc[d] /\ rep'[d] = rep[d] /\ intr'[d] = intr[d]
      BY <1>1 DEF ClientsStay, Waiting, InExchange, R
    <3>3. \A d \in Clients : Waiting(d) => X(d)' = X(d)
      BY <1>8, <3>1, <3>2 DEF X, R
    <3>4. \A d \in Clients : Waiting(d)' => CallAt(pc[d], X(d), rep[d], intr[d], d)'
      <4> SUFFICES ASSUME NEW d \in Clients, Waiting(d)'
                   PROVE  CallAt(pc[d], X(d), rep[d], intr[d], d)'
        OBVIOUS
      <4>1. PICK l, x, a, e : l = pc[d] /\ x = X(d) /\ a = rep[d] /\ e = intr[d]
        OBVIOUS
      <4>2. CallAt(l, x, a, e, d)
        BY <1>0, <3>2, <4>1 DEF CallsOK
      <4>3. pc'[d] = l /\ X(d)' = x /\ rep'[d] = a /\ intr'[d] = e
        BY <3>2, <3>3, <4>1
      <4> QED  BY <4>2, <4>3 DEF CallAt
    <3>5. \A p \in Refs : ref'[p].alloc /\ ref'[p].state # "CLOSING" =>
            Resting(ref'[p]) \/ \E c \in Clients : Waiting(c)' /\ R(c)' = p
      <4> SUFFICES ASSUME NEW p \in Refs, ref'[p].alloc, ref'[p].state # "CLOSING"
                   PROVE  Resting(ref'[p]) \/ \E c \in Clients : Waiting(c)' /\ R(c)' = p
        OBVIOUS
      <4>1. ref'[p] = ref[p]
        BY <1>8 DEF FreeRef
      <4> QED  BY <1>0, <3>2, <4>1 DEF CallsOK
    <3>6. \A d \in Clients : DupOwed(d) => DupOwed(d)'
      BY <3>2, <3>3 DEF DupOwed, Waiting, InExchange
    <3>7. \A u \in Servers : pc'[u] = "dupwake" => pc[u] = "dupwake" /\ u # s /\ got'[u] = got[u]
      BY <1>1 DEF ClientsStay
    <3>8. \A u \in Servers : pc'[u] = "dupwake" =>
            /\ \E d \in Clients : R(d)' = got'[u].pr /\ DupOwed(d)'
            /\ \A v \in Servers : pc'[v] = "dupwake" /\ v # u => got'[v].pr # got'[u].pr
      <4>1. \A u \in Servers : pc[u] = "dupwake" =>
              /\ \E d \in Clients : R(d) = got[u].pr /\ DupOwed(d)
              /\ \A v \in Servers : pc[v] = "dupwake" /\ v # u => got[v].pr # got[u].pr
        BY <1>0 DEF CallsOK
      <4> QED  BY <3>2, <3>6, <3>7, <4>1
    <3> QED  BY <3>4, <3>5, <3>8 DEF CallsOK
  <2> QED  BY <2>1, <2>2
<1>12. MessagesOK'
  <2>1. InHands' \cup held' \subseteq InHands \cup held
    BY <1>3, <1>5
  <2>2. \A n \in ToSet(port.queue) : m.pr = n.pr => m.op # "DISCONNECT"
    BY <1>0, <1>3 DEF MessagesOK, Aborts
  <2>3. \A n \in ToSet(port.queue) \cup InHands' \cup held' : MessageKept(n)
    <3> SUFFICES ASSUME NEW n \in ToSet(port.queue) \cup InHands' \cup held'
                 PROVE  MessageKept(n)
      OBVIOUS
    <3>1. n \in AllMsgs
      BY <2>1 DEF AllMsgs
    <3>2. n.pr \in Refs /\ n.from \in Clients
      BY <3>1, MessagesTyped DEF Inv
    <3>3. n.pr # m.pr \/ m.op # "DISCONNECT"
      BY <1>3, <1>5, <2>2
    <3>4. ref'[n.pr] = ref[n.pr]
      BY <1>8, <3>2, <3>3
    <3> QED  BY <3>2, <3>4 DEF MessageKept, ClientsStay
  <2>4. \A h \in held' : h.op # "DISCONNECT"
    BY <1>0, <1>5 DEF MessagesOK
  <2>5. \A g, h \in held' \ held : g = h
    BY <1>5
  <2> QED  BY <1>3, <1>6, <2>1, <2>3, <2>4, <2>5, MessagesLess
<1> QED  BY <1>6, <1>9, <1>10, <1>11, <1>12 DEF Protocol

\* c, which alone calls on handle r, is answered.
LEMMA CallAnswered ==
  ASSUME MsgAssumption, Inv, NEW s \in Servers, ClientsStay(s), NEW r \in Refs, NEW c \in Clients,
         Waiting(c), R(c) = r,
         \A d \in Clients : d # c => rep'[d] = rep[d],
         \A p \in Refs : p # r =>
           /\ ref'[p].alloc = ref[p].alloc /\ ref'[p].state = ref[p].state
           /\ ref'[p].iowait = ref[p].iowait /\ ref'[p].svwait = ref[p].svwait,
         CallAt(pc[c], ref'[r], rep'[c], intr[c], c),
         \A u \in Servers : pc'[u] = "dupwake" =>
           \/ pc[u] = "dupwake" /\ got'[u] = got[u] /\ got[u].pr # r
           \/ u = s /\ got'[u].pr = r /\ pc[c] = "kwait" /\ ref'[r].state = "IODONE" /\ ref'[r].iowait = Asleep(c)
  PROVE  CallsOK'
<1>0. CallsOK /\ \A d \in Clients : Waiting(d) => R(d) \in Refs
  BY DEF Inv, Protocol, Typed, LocalsSet, Waiting, InExchange
<1>1. \A d \in Clients : d # c /\ Waiting(d) => R(d) # r
  BY WaitersHave, OneCall
<1>2. \A d \in Clients : /\ Waiting(d)' <=> Waiting(d)
                         /\ R(d)' = R(d) /\ pc'[d] = pc[d] /\ intr'[d] = intr[d]
  BY DEF ClientsStay, Waiting, InExchange, R
<1>3. ASSUME NEW d \in Clients, Waiting(d)'
      PROVE  CallAt(pc[d], X(d), rep[d], intr[d], d)'
  <2>1. CASE d = c
    <3>1. X(d)' = ref'[r]
      BY <1>2, <2>1 DEF X, R
    <3> QED  BY <1>2, <2>1, <3>1 DEF CallAt
  <2>2. CASE d # c
    <3>1. PICK p, x, y : p = R(d) /\ x = ref[p] /\ y = ref'[p] /\ p = R(d)'
      BY <1>2
    <3>2. Waiting(d) /\ p \in Refs /\ p # r
      BY <1>0, <1>1, <1>2, <1>3, <2>2, <3>1
    <3>3. y.state = x.state /\ y.iowait = x.iowait /\ y.svwait = x.svwait
      BY <3>1, <3>2
    <3>4. CallAt(pc[d], x, rep[d], intr[d], d)
      BY <1>0, <3>1, <3>2 DEF CallsOK, X, R
    <3>5. CallAt(pc[d], y, rep[d], intr[d], d)
      BY <3>3, <3>4 DEF CallAt
    <3>6. X(d)' = y
      BY <3>1 DEF X, R
    <3> QED  BY <1>2, <2>2, <3>5, <3>6
  <2> QED  BY <2>1, <2>2
<1>4. ASSUME NEW p \in Refs, ref'[p].alloc, ref'[p].state # "CLOSING"
      PROVE  Resting(ref'[p]) \/ \E d \in Clients : Waiting(d)' /\ R(d)' = p
  <2>1. CASE p = r
    BY <1>2, <2>1
  <2>2. CASE p # r
    <3>1. Resting(ref'[p]) <=> Resting(ref[p])
      BY <2>2 DEF Resting
    <3>2. Resting(ref[p]) \/ \E d \in Clients : Waiting(d) /\ R(d) = p
      BY <1>0, <1>4, <2>2 DEF CallsOK
    <3> QED  BY <1>2, <3>1, <3>2
  <2> QED  BY <2>1, <2>2
<1>5. \A d \in Clients : DupOwed(d) /\ R(d) # r => DupOwed(d)'
  <2> SUFFICES ASSUME NEW d \in Clients, DupOwed(d), R(d) # r
               PROVE  DupOwed(d)'
    OBVIOUS
  <2>1. Waiting(d) /\ pc'[d] = "kwait"
    BY <1>2 DEF DupOwed, Waiting, InExchange
  <2>2. PICK p \in Refs : /\ p = R(d) /\ p = R(d)' /\ ref'[p].state = ref[p].state /\ ref'[p].iowait = ref[p].iowait
    BY <1>0, <1>2, <2>1
  <2> QED  BY <2>1, <2>2 DEF DupOwed, X, R
<1>6. pc[c] = "kwait" /\ ref'[r].state = "IODONE" /\ ref'[r].iowait = Asleep(c) => DupOwed(c)' /\ R(c)' = r
  <2>1. X(c)' = ref'[r] /\ R(c)' = r /\ pc'[c] = pc[c]
    BY <1>2 DEF X, R
  <2> QED  BY <2>1 DEF DupOwed
<1>7. ASSUME NEW u \in Servers, pc'[u] = "dupwake"
      PROVE  /\ \E d \in Clients : R(d)' = got'[u].pr /\ DupOwed(d)'
             /\ \A v \in Servers : pc'[v] = "dupwake" /\ v # u => got'[v].pr # got'[u].pr
  <2>1. \A v \in Servers : pc[v] = "dupwake" =>
          /\ \E d \in Clients : R(d) = got[v].pr /\ DupOwed(d)
          /\ \A w \in Servers : pc[w] = "dupwake" /\ w # v => got[w].pr # got[v].pr
    BY <1>0 DEF CallsOK
  <2>2. CASE pc[u] = "dupwake" /\ got'[u] = got[u] /\ got[u].pr # r
    BY <1>2, <1>5, <2>1, <2>2
  <2>3. CASE u = s /\ got'[u].pr = r /\ pc[c] = "kwait" /\ ref'[r].state = "IODONE" /\ ref'[r].iowait = Asleep(c)
    BY <1>6, <2>3
  <2> QED  BY <1>7, <2>2, <2>3
<1> QED  BY <1>3, <1>4, <1>7 DEF CallsOK

\* What an answer changes besides the call.
LEMMA AnswerOK ==
  ASSUME MsgAssumption, Inv, NEW s \in Servers, ClientsStay(s), NEW m \in held, pc[s] = "out", Answered(m),
         port'.queue = port.queue, port'.sema = port.sema, intr'[s] = intr[s],
         pc'[s] \in {"out", "svwait", "dupwake"}, pc'[s] = "dupwake" => got'[s].op = "DUP",
         \A c \in Clients : rep'[c] # "none" => rep[c] # "none" \/ c = m.from,
         \A p \in Refs : p # m.pr => ref'[p] = ref[p],
         /\ ref'[m.pr].alloc = ref[m.pr].alloc /\ ref'[m.pr].port = ref[m.pr].port
         /\ ref'[m.pr].refs = ref[m.pr].refs /\ ref'[m.pr].sema = ref[m.pr].sema,
         \/ ref'[m.pr] = ref[m.pr]
         \/ /\ ref'[m.pr].state \in {"IODONE", "ABDONE"}
            /\ ref[m.pr].state \in {"OPENING", "IOWAIT"} \/ m.op = "ABORT",
         CallsOK'
  PROVE  Protocol'
<1>0. MessagesOK /\ m \in AllMsgs /\ m.pr \in Refs /\ m.from \in Clients
  BY MessagesTyped DEF Inv, Protocol, AllMsgs
<1>1. Known(m) /\ m.op # "DISCONNECT" /\ Waiting(m.from)
  BY <1>0, NoneFromOthers DEF MessagesOK
<1>2. \A n \in AllMsgs : n.op = "ABORT" => ref[n.pr].state = "ABWAIT"
  BY <1>0 DEF MessagesOK, AllMsgs, Known, StatesOf
<1>3. ServerStays' /\ TablesOK' /\ MutexesOK'
  <2>1. ref[m.pr].state = "CLOSING" => ref'[m.pr] = ref[m.pr]
    <3>1. m.op = "ABORT" => ref[m.pr].state = "ABWAIT"
      BY <1>0, <1>2
    <3> QED  BY <3>1
  <2>2. \A p \in Refs :
           \/ /\ ref'[p].alloc = ref[p].alloc /\ ref'[p].port = ref[p].port
              /\ ref'[p].refs = ref[p].refs /\ ref'[p].sema = ref[p].sema
              /\ \/ ref'[p].state = ref[p].state
                 \/ ref[p].state # "CLOSING" /\ ref'[p].state \notin {"OPENING", "CLOSING"}
           \/ ref[p].alloc /\ ref[p].state = "CLOSING" /\ ref'[p] = FreeRef
    BY <2>1
  <2> QED  BY <2>2, ServerFrame
<1>4. EventsOK'
  <2>1. \A c \in Clients : rep'[c] # "none" => Waiting(c)
    BY <1>1 DEF Inv, Protocol, EventsOK
  <2>2. ~intr'[s]
    BY DEF Inv, Protocol, EventsOK
  <2> QED  BY <2>1, <2>2, EventsFrame
<1>5. PortOK' /\ InHands' = InHands
  BY PortFrame
<1>6. held' \subseteq held /\ m \notin held' /\ (m.op = "ABORT" => \A n \in held' : n.pr # m.pr)
  BY DEF Answered
<1>7. \A n \in ToSet(port.queue) \cup InHands \cup held' : MessageKept(n)
  <2> SUFFICES ASSUME NEW n \in ToSet(port.queue) \cup InHands \cup held'
               PROVE  MessageKept(n)
    OBVIOUS
  <2>1. n \in AllMsgs
    BY <1>6 DEF AllMsgs
  <2>2. n.pr \in Refs /\ n.from \in Clients
    BY <2>1, MessagesTyped DEF Inv
  <2>3. n.pr # m.pr \/ ref'[m.pr] = ref[m.pr]
    <3> SUFFICES ASSUME n.pr = m.pr, ref'[m.pr] # ref[m.pr]
                 PROVE  FALSE
      OBVIOUS
    <3>1. CASE n \in ToSet(port.queue) \cup InHands
      <4>1. Aborts(n, m)
        BY <1>0, <3>1 DEF MessagesOK
      <4> QED  BY <1>2, <2>1, <4>1 DEF Aborts
    <3>2. CASE n \in held'
      <4>1. n # m /\ n \in held /\ m.op # "ABORT"
        BY <1>6, <3>2
      <4>2. Aborts(n, m) \/ Aborts(m, n)
        BY <1>0, <4>1 DEF MessagesOK
      <4> QED  BY <1>2, <2>1, <4>1, <4>2 DEF Aborts
    <3> QED  BY <3>1, <3>2
  <2>4. ref'[n.pr] = ref[n.pr]
    BY <2>2, <2>3
  <2> QED  BY <2>2, <2>4 DEF MessageKept, ClientsStay
<1>8. MessagesOK'
  <2>1. InHands' \cup held' \subseteq InHands \cup held
    BY <1>5, <1>6
  <2>2. \A n \in ToSet(port.queue) \cup InHands' \cup held' : MessageKept(n)
    BY <1>5, <1>7
  <2>3. \A h \in held' : h.op # "DISCONNECT"
    BY <1>0, <1>6 DEF MessagesOK
  <2>4. \A g, h \in held' \ held : g = h
    BY <1>6
  <2> QED  BY <1>5, <1>6, <2>1, <2>2, <2>3, <2>4, MessagesLess
<1> QED  BY <1>3, <1>4, <1>5, <1>8 DEF Protocol

\* The server gives up what it holds, and nobody is told.
LEMMA UnansweredOK ==
  ASSUME MsgAssumption, Inv, NEW s \in Servers, ClientsStay(s), NEW m \in held, pc[s] = "out", Answered(m),
         port'.queue = port.queue, port'.sema = port.sema, intr'[s] = intr[s],
         pc'[s] = "out", rep' = rep, ref' = ref
  PROVE  Protocol'
<1>1. CallsOK'
  BY CallsRest
<1>2. \A c \in Clients : rep'[c] # "none" => rep[c] # "none" \/ c = m.from
  OBVIOUS
<1> QED  BY <1>1, <1>2, AnswerOK

\* What m tells of the call it is from.
LEMMA HeldFrom ==
  ASSUME MsgAssumption, Inv, NEW m \in held
  PROVE  /\ m \in Sendable /\ m.pr \in Refs /\ m.from \in Clients /\ m.op \in Ops
         /\ Waiting(m.from) /\ R(m.from) = m.pr /\ pc[m.from] \in WaitsFor(m.op)
         /\ ref[m.pr].state \in StatesOf(m.op)
         /\ m.op # "ABORT" /\ ref[m.pr].state # "ABWAIT" => ref[m.pr].msg = m
         /\ CallAt(pc[m.from], ref[m.pr], rep[m.from], intr[m.from], m.from)
         /\ \A u \in Servers : pc[u] = "dupwake" /\ got[u].pr = m.pr => ref[m.pr].state = "IODONE"
<1>0. MessagesOK /\ CallsOK /\ m \in AllMsgs /\ m \in Sendable /\ m.pr \in Refs /\ m.from \in Clients /\ m.op \in Ops
  BY MessagesTyped DEF Inv, Protocol, AllMsgs
<1>1. Known(m) /\ m.op # "DISCONNECT" /\ Waiting(m.from) /\ R(m.from) = m.pr /\ pc[m.from] \in WaitsFor(m.op)
  BY <1>0, NoneFromOthers DEF MessagesOK
<1>2. CallAt(pc[m.from], ref[m.pr], rep[m.from], intr[m.from], m.from)
  <2>1. X(m.from) = ref[m.pr]
    BY <1>1 DEF X, R
  <2> QED  BY <1>0, <1>1, <2>1 DEF CallsOK
<1>3. \A u \in Servers : pc[u] = "dupwake" /\ got[u].pr = m.pr => ref[m.pr].state = "IODONE"
  BY <1>0 DEF CallsOK, DupOwed, X, R
<1> QED  BY <1>0, <1>1, <1>2, <1>3 DEF Known, MessagesOK

\* msg_accept().
LEMMA AcceptOK ==
  ASSUME MsgAssumption, Inv, NEW s \in Servers, ClientsStay(s), NEW m \in held, MsgAccept(s, m)
  PROVE  Protocol'
<1>0. ref \in [Refs -> WideRef]
  BY DEF Inv, Typed, KernelTyped
<1>1. /\ pc[s] = "out" /\ Answered(m) /\ pc' = pc /\ intr' = intr /\ rep' = rep /\ port' = port /\ got' = got
      /\ m.op = "CONNECT"
  BY DEF MsgAccept, Holds
<1>2. CASE ref' = ref
  BY <1>1, <1>2, UnansweredOK
<1>3. CASE ref' # ref
  <2>1. PICK r, c, x : r = m.pr /\ c = m.from /\ x = ref[r]
    OBVIOUS
  <2>2. /\ r \in Refs /\ c \in Clients /\ Waiting(c) /\ R(c) = r /\ pc[c] = "opening" /\ x.state = "OPENING"
        /\ CallAt(pc[c], x, rep[c], intr[c], c)
        /\ \A u \in Servers : pc[u] = "dupwake" => got[u].pr # r
    BY <1>1, <2>1, HeldFrom DEF WaitsFor, StatesOf
  <2>3. x.iowait = Asleep(c) /\ rep[c] = "none"
    BY <2>2 DEF CallAt
  <2>4. PICK z : z = [x EXCEPT !.state = "IODONE", !.iowait = Zero]
    OBVIOUS
  <2>5. ref' = [ref EXCEPT ![r] = z]
    <3>1. ref' = [ref EXCEPT ![r].state = "IODONE", ![r].iowait = VSema(@)]
      BY <1>3, <2>1 DEF MsgAccept
    <3>2. VSema(x.iowait) = Zero
      BY <2>3, SemaValues
    <3> QED  BY <1>0, <2>1, <2>2, <2>4, <3>1, <3>2 DEF WideRef
  <2>6. /\ z.alloc = x.alloc /\ z.port = x.port /\ z.refs = x.refs /\ z.sema = x.sema
        /\ z.state = "IODONE" /\ z.iowait = Zero
    BY <1>0, <2>1, <2>2, <2>4 DEF WideRef
  <2>7. ref'[r] = z /\ \A p \in Refs : p # r => ref'[p] = ref[p]
    BY <1>0, <2>2, <2>5
  <2>8. CallAt(pc[c], ref'[r], rep'[c], intr[c], c)
    BY <1>1, <2>2, <2>3, <2>6, <2>7 DEF CallAt
  <2>9. CallsOK'
    BY <1>1, <2>2, <2>7, <2>8, CallAnswered
  <2>10. \A d \in Clients : rep'[d] # "none" => rep[d] # "none" \/ d = m.from
    BY <1>1
  <2>11. pc'[s] = "out" /\ intr'[s] = intr[s] /\ port'.queue = port.queue /\ port'.sema = port.sema
    BY <1>1
  <2>12. /\ ref'[m.pr].alloc = ref[m.pr].alloc /\ ref'[m.pr].port = ref[m.pr].port
         /\ ref'[m.pr].refs = ref[m.pr].refs /\ ref'[m.pr].sema = ref[m.pr].sema
         /\ ref'[m.pr].state = "IODONE" /\ ref[m.pr].state = "OPENING"
         /\ \A p \in Refs : p # m.pr => ref'[p] = ref[p]
    BY <2>1, <2>2, <2>6, <2>7
  <2> QED  BY <1>1, <2>9, <2>10, <2>11, <2>12, AnswerOK
<1> QED  BY <1>2, <1>3

\* msg_err().
LEMMA ErrOK ==
  ASSUME MsgAssumption, Inv, NEW s \in Servers, ClientsStay(s), NEW m \in held, MsgErr(s, m)
  PROVE  Protocol'
<1>0. ref \in [Refs -> WideRef] /\ port \in WidePort /\ rep \in [Clients -> {"none", "ok", "segs", "err"}]
  BY DEF Inv, Typed, KernelTyped, ThreadsTyped
<1>1. /\ pc[s] = "out" /\ Answered(m) /\ pc' = pc /\ intr' = intr /\ got' = got
      /\ m.op \in {"CONNECT", "IO", "DUP"}
  BY DEF MsgErr, Holds
<1>2. PICK r, c, x : r = m.pr /\ c = m.from /\ x = ref[r]
  OBVIOUS
<1>3. PICK fail \in BOOLEAN :
        /\ fail => x.state \in {"IOWAIT", "OPENING"}
        /\ port' = port \/ port' = DerefPort(port, r)
        /\ ref' = IF fail
                  THEN [ref EXCEPT ![r].state = IF @ = "OPENING" THEN "ABDONE" ELSE "IODONE",
                                   ![r].iowait = VSema(@)]
                  ELSE ref
        /\ rep' = IF fail THEN ErrTold(x.msg.from) ELSE rep
  BY <1>2 DEF MsgErr
<1>4. port'.queue = port.queue /\ port'.sema = port.sema
  BY <1>0, <1>3 DEF DerefPort, WidePort
<1>5. CASE ~fail
  BY <1>1, <1>3, <1>4, <1>5, UnansweredOK
<1>6. CASE fail
  <2>2. /\ r \in Refs /\ c \in Clients /\ Waiting(c) /\ R(c) = r
        /\ pc[c] \in WaitsFor(m.op) /\ x.state \in StatesOf(m.op) /\ x.msg = m
        /\ CallAt(pc[c], x, rep[c], intr[c], c)
        /\ \A u \in Servers : pc[u] = "dupwake" => got[u].pr # r
    BY <1>1, <1>2, <1>3, <1>6, HeldFrom
  <2>3. \/ pc[c] = "opening" /\ x.state = "OPENING"
        \/ pc[c] \in {"iowait", "abwait"} /\ x.state = "IOWAIT"
        \/ pc[c] = "kwait" /\ x.state = "IOWAIT"
    BY <1>1, <1>3, <1>6, <2>2 DEF WaitsFor, StatesOf
  <2>4. /\ pc[c] # "abwait"
        /\ pc[c] \in {"opening", "kwait"} => x.iowait = Asleep(c)
        /\ pc[c] = "iowait" => x.iowait = IF intr[c] THEN Zero ELSE Asleep(c)
    BY <2>2, <2>3 DEF CallAt
  <2>5. PICK st : st = IF x.state = "OPENING" THEN "ABDONE" ELSE "IODONE"
    OBVIOUS
  <2>6. PICK w : w = VSema(x.iowait)
    OBVIOUS
  <2>7. w = IF pc[c] = "iowait" /\ intr[c] THEN One ELSE Zero
    BY <2>3, <2>4, <2>6, SemaValues
  <2>8. PICK z : z = [x EXCEPT !.state = st, !.iowait = w]
    OBVIOUS
  <2>9. ref' = [ref EXCEPT ![r] = z]
    <3>1. ref' = [ref EXCEPT ![r].state = IF @ = "OPENING" THEN "ABDONE" ELSE "IODONE", ![r].iowait = VSema(@)]
      BY <1>3, <1>6
    <3> QED  BY <1>0, <1>2, <2>2, <2>5, <2>6, <2>8, <3>1 DEF WideRef
  <2>10. /\ z.alloc = x.alloc /\ z.port = x.port /\ z.refs = x.refs /\ z.sema = x.sema
         /\ z.state = st /\ z.iowait = w
    BY <1>0, <1>2, <2>2, <2>8 DEF WideRef
  <2>11. ref'[r] = z /\ \A p \in Refs : p # r => ref'[p] = ref[p]
    BY <1>0, <2>2, <2>9
  <2>12. rep'[c] = "err" /\ \A d \in Clients : d # c => rep'[d] = rep[d]
    BY <1>0, <1>2, <1>3, <1>6, <2>2 DEF ErrTold
  <2>13. CallAt(pc[c], z, "err", intr[c], c)
    BY <2>3, <2>4, <2>5, <2>7, <2>10 DEF CallAt
  <2>14. CallsOK'
    <3>1. CallAt(pc[c], ref'[r], rep'[c], intr[c], c)
      BY <2>11, <2>12, <2>13
    <3>2. \A u \in Servers : pc'[u] = "dupwake" => pc[u] = "dupwake" /\ got'[u] = got[u] /\ got[u].pr # r
      BY <1>1, <2>2
    <3>3. \A p \in Refs : p # r =>
           /\ ref'[p].alloc = ref[p].alloc /\ ref'[p].state = ref[p].state
           /\ ref'[p].iowait = ref[p].iowait /\ ref'[p].svwait = ref[p].svwait
      BY <2>11
    <3> QED  BY <2>2, <2>12, <3>1, <3>2, <3>3, CallAnswered
  <2>15. /\ ref'[m.pr].alloc = ref[m.pr].alloc /\ ref'[m.pr].port = ref[m.pr].port
         /\ ref'[m.pr].refs = ref[m.pr].refs /\ ref'[m.pr].sema = ref[m.pr].sema
         /\ ref'[m.pr].state \in {"IODONE", "ABDONE"} /\ ref[m.pr].state \in {"OPENING", "IOWAIT"}
         /\ \A p \in Refs : p # m.pr => ref'[p] = ref[p]
    BY <1>2, <2>3, <2>5, <2>10, <2>11
  <2>16. \A d \in Clients : rep'[d] # "none" => rep[d] # "none" \/ d = m.from
    BY <1>2, <2>12
  <2>17. pc'[s] = "out" /\ intr'[s] = intr[s]
    BY <1>1
  <2> QED  BY <1>1, <1>4, <2>14, <2>15, <2>16, <2>17, AnswerOK
<1> QED  BY <1>5, <1>6

\* msg_reply() to a client that has asked for an abort, and to one that does
\* not wait.
LEMMA AbortAnswerOK ==
  ASSUME MsgAssumption, Inv, NEW s \in Servers, ClientsStay(s), NEW m \in held,
         ReplyAbort(s, m) \/ ReplyRefused(s, m)
  PROVE  Protocol'
<1>0. ref \in [Refs -> WideRef]
  BY DEF Inv, Typed, KernelTyped
<1>1. /\ pc[s] = "out" /\ Answered(m) /\ pc' = pc /\ intr' = intr /\ rep' = rep /\ port' = port /\ got' = got
  BY DEF ReplyAbort, ReplyRefused, Holds
<1>2. CASE ref' = ref
  BY <1>1, <1>2, UnansweredOK
<1>3. CASE ref' # ref
  <2>1. PICK r, c, x : r = m.pr /\ c = m.from /\ x = ref[r]
    OBVIOUS
  <2>2. /\ m.op = "ABORT" /\ ref[r].state = "ABWAIT"
        /\ ref' = [ref EXCEPT ![r].state = "ABDONE", ![r].iowait = VSema(@)]
    BY <1>3, <2>1 DEF ReplyAbort, ReplyRefused
  <2>3. /\ r \in Refs /\ c \in Clients /\ Waiting(c) /\ R(c) = r /\ pc[c] = "abwait"
        /\ CallAt(pc[c], x, rep[c], intr[c], c)
        /\ \A u \in Servers : pc[u] = "dupwake" => got[u].pr # r
    BY <2>1, <2>2, HeldFrom DEF WaitsFor
  <2>4. x.iowait = Asleep(c) /\ rep[c] = "none"
    BY <2>1, <2>2, <2>3 DEF CallAt
  <2>5. PICK z : z = [x EXCEPT !.state = "ABDONE", !.iowait = Zero]
    OBVIOUS
  <2>6. ref' = [ref EXCEPT ![r] = z]
    <3>1. VSema(x.iowait) = Zero
      BY <2>4, SemaValues
    <3> QED  BY <1>0, <2>1, <2>2, <2>3, <2>5, <3>1 DEF WideRef
  <2>7. /\ z.alloc = x.alloc /\ z.port = x.port /\ z.refs = x.refs /\ z.sema = x.sema
        /\ z.state = "ABDONE" /\ z.iowait = Zero
    BY <1>0, <2>1, <2>3, <2>5 DEF WideRef
  <2>8. ref'[r] = z /\ \A p \in Refs : p # r => ref'[p] = ref[p]
    BY <1>0, <2>3, <2>6
  <2>9. CallAt(pc[c], ref'[r], rep'[c], intr[c], c)
    BY <1>1, <2>3, <2>4, <2>7, <2>8 DEF CallAt
  <2>10. CallsOK'
    BY <1>1, <2>3, <2>8, <2>9, CallAnswered
  <2>11. \A d \in Clients : rep'[d] # "none" => rep[d] # "none" \/ d = m.from
    BY <1>1
  <2>12. pc'[s] = "out" /\ intr'[s] = intr[s] /\ port'.queue = port.queue /\ port'.sema = port.sema
    BY <1>1
  <2>13. /\ ref'[m.pr].alloc = ref[m.pr].alloc /\ ref'[m.pr].port = ref[m.pr].port
         /\ ref'[m.pr].refs = ref[m.pr].refs /\ ref'[m.pr].sema = ref[m.pr].sema
         /\ ref'[m.pr].state = "ABDONE" /\ \A p \in Refs : p # m.pr => ref'[p] = ref[p]
    BY <2>1, <2>7, <2>8
  <2> QED  BY <1>1, <2>2, <2>10, <2>11, <2>12, <2>13, AnswerOK
<1> QED  BY <1>2, <1>3

\* Whoever waits at p_svwait is in its queue.
LEMMA HandoverQueues ==
  ASSUME NEW w \in SemaType(Servers), NEW s \in Servers
  PROVE  Handover(w, s).q # << >>
<1>1. PICK v : v = SetSema(w, 0)
  OBVIOUS
<1>2. v.cnt = 0 /\ v.q \in Seq(Servers)
  BY <1>1 DEF SetSema, SemaType
<1>3. PSema(v, s).q = Append(v.q, s)
  BY <1>2 DEF PSema
<1>4. Append(v.q, s) # << >>
  BY <1>2
<1> QED  BY <1>1, <1>3, <1>4 DEF Handover

\* msg_reply() to a client that waits, if it is not a granted DUP.
LEMMA ReplyOK ==
  ASSUME MsgAssumption, Inv, NEW s \in Servers, ClientsStay(s), NEW m \in held, NEW a \in Answers,
         ReplyDone(s, m, a)
  PROVE  Protocol'
<1>0. /\ pc \in [Threads -> ClientPcs \cup ServerPcs] /\ s \in Threads
      /\ ref \in [Refs -> WideRef] /\ rep \in [Clients -> {"none", "ok", "segs", "err"}]
  BY DEF Inv, Typed, KernelTyped, ThreadsTyped, Threads
<1>1. /\ pc[s] = "out" /\ Answered(m) /\ intr' = intr /\ port' = port /\ got' = got
      /\ m.op \in {"IO", "DUP", "ABORT"} /\ ref[m.pr].state = "IOWAIT"
  BY DEF ReplyDone, Holds, Wanted
<1>2. PICK r, c, x : r = m.pr /\ c = m.from /\ x = ref[r]
  OBVIOUS
<1>3. /\ r \in Refs /\ c \in Clients /\ Waiting(c) /\ R(c) = r
      /\ pc[c] \in WaitsFor(m.op) /\ x.state = "IOWAIT" /\ m.op \in {"IO", "DUP"} /\ x.msg = m
      /\ CallAt(pc[c], x, rep[c], intr[c], c)
      /\ \A u \in Servers : pc[u] = "dupwake" => got[u].pr # r
  <2>1. x.state \in StatesOf(m.op)
    BY <1>2, HeldFrom
  <2>2. m.op \in {"IO", "DUP"}
    BY <1>1, <1>2, <2>1 DEF StatesOf
  <2> QED  BY <1>1, <1>2, <2>2, HeldFrom
<1>4. /\ a = "err" \/ m.op # "DUP"
      /\ rep' = [rep EXCEPT ![c] = a]
      /\ ref' = [ref EXCEPT ![r].msg = Null, ![r].state = "IODONE", ![r].iowait = VSema(@),
                            ![r].svwait = IF a = "segs" THEN Handover(@, s) ELSE @]
      /\ IF a = "segs" THEN Goto(s, "svwait") ELSE UNCHANGED pc
  BY <1>2, <1>3 DEF ReplyDone
<1>5. a \in {"ok", "segs", "err"}
  BY DEF Answers
<1>6. \/ pc[c] = "iowait" /\ x.iowait = IF intr[c] THEN Zero ELSE Asleep(c)
      \/ pc[c] = "kwait" /\ a = "err" /\ x.iowait = Asleep(c)
  BY <1>3, <1>4 DEF WaitsFor, CallAt
<1>7. PICK w : w = VSema(x.iowait)
  OBVIOUS
<1>8. w = IF pc[c] = "iowait" /\ intr[c] THEN One ELSE Zero
  BY <1>6, <1>7, SemaValues
<1>9. PICK v : v = IF a = "segs" THEN Handover(x.svwait, s) ELSE x.svwait
  OBVIOUS
<1>10. a = "segs" => v.q # << >>
  BY <1>0, <1>2, <1>3, <1>9, HandoverQueues DEF WideRef
<1>11. PICK z : z = [x EXCEPT !.msg = Null, !.state = "IODONE", !.iowait = w, !.svwait = v]
  OBVIOUS
<1>12. ref' = [ref EXCEPT ![r] = z]
  BY <1>0, <1>2, <1>3, <1>4, <1>7, <1>9, <1>11 DEF WideRef
<1>13. /\ z.alloc = x.alloc /\ z.port = x.port /\ z.refs = x.refs /\ z.sema = x.sema
       /\ z.state = "IODONE" /\ z.iowait = w /\ z.svwait = v
  BY <1>0, <1>2, <1>3, <1>11 DEF WideRef
<1>14. ref'[r] = z /\ \A p \in Refs : p # r => ref'[p] = ref[p]
  BY <1>0, <1>3, <1>12
<1>15. rep'[c] = a /\ \A d \in Clients : d # c => rep'[d] = rep[d]
  BY <1>0, <1>3, <1>4
<1>16. CallAt(pc[c], z, a, intr[c], c)
  BY <1>5, <1>6, <1>8, <1>10, <1>13 DEF CallAt
<1>17. pc'[s] \in {"out", "svwait"} /\ \A u \in Servers : u # s => pc'[u] = pc[u]
  BY <1>0, <1>1, <1>4 DEF Goto, ClientsStay
<1>18. CallsOK'
  <2>1. CallAt(pc[c], ref'[r], rep'[c], intr[c], c)
    BY <1>14, <1>15, <1>16
  <2>2. \A u \in Servers : pc'[u] = "dupwake" => pc[u] = "dupwake" /\ got'[u] = got[u] /\ got[u].pr # r
    BY <1>1, <1>3, <1>17
  <2>3. \A p \in Refs : p # r =>
         /\ ref'[p].alloc = ref[p].alloc /\ ref'[p].state = ref[p].state
         /\ ref'[p].iowait = ref[p].iowait /\ ref'[p].svwait = ref[p].svwait
    BY <1>14
  <2> QED  BY <1>3, <1>15, <2>1, <2>2, <2>3, CallAnswered
<1>19. /\ ref'[m.pr].alloc = ref[m.pr].alloc /\ ref'[m.pr].port = ref[m.pr].port
       /\ ref'[m.pr].refs = ref[m.pr].refs /\ ref'[m.pr].sema = ref[m.pr].sema
       /\ ref'[m.pr].state \in {"IODONE", "ABDONE"} /\ ref[m.pr].state \in {"OPENING", "IOWAIT"}
       /\ \A p \in Refs : p # m.pr => ref'[p] = ref[p]
  BY <1>2, <1>3, <1>13, <1>14
<1>20. \A d \in Clients : rep'[d] # "none" => rep[d] # "none" \/ d = m.from
  BY <1>2, <1>15
<1>21. /\ port'.queue = port.queue /\ port'.sema = port.sema /\ intr'[s] = intr[s]
       /\ pc'[s] \in {"out", "svwait", "dupwake"} /\ (pc'[s] = "dupwake" => got'[s].op = "DUP")
  BY <1>1, <1>17
<1> QED  BY <1>1, <1>18, <1>19, <1>20, <1>21, AnswerOK

\* The same, to a DUP that is granted.
LEMMA GrantOK ==
  ASSUME MsgAssumption, Inv, NEW s \in Servers, ClientsStay(s), NEW m \in held, NEW a \in Answers,
         ReplyDup(s, m, a)
  PROVE  Protocol'
<1>0. /\ pc \in [Threads -> ClientPcs \cup ServerPcs] /\ s \in Threads /\ port \in WidePort
      /\ ref \in [Refs -> WideRef] /\ rep \in [Clients -> {"none", "ok", "segs", "err"}]
      /\ got \in [Servers -> Sendable \cup Refs \cup {Null}]
  BY DEF Inv, Typed, KernelTyped, ThreadsTyped, ServerTyped, Threads
<1>1. /\ pc[s] = "out" /\ Answered(m) /\ intr' = intr
      /\ m.op \in {"IO", "DUP", "ABORT"} /\ ref[m.pr].state = "IOWAIT"
  BY DEF ReplyDup, Holds, Wanted
<1>2. PICK r, c, x : r = m.pr /\ c = m.from /\ x = ref[r]
  OBVIOUS
<1>3. /\ r \in Refs /\ c \in Clients /\ Waiting(c) /\ R(c) = r
      /\ pc[c] \in WaitsFor(m.op) /\ x.state = "IOWAIT" /\ x.msg = m
      /\ CallAt(pc[c], x, rep[c], intr[c], c)
      /\ \A u \in Servers : pc[u] = "dupwake" => got[u].pr # r
  <2>1. x.state \in StatesOf(m.op)
    BY <1>2, HeldFrom
  <2>2. m.op \in {"IO", "DUP"}
    BY <1>1, <1>2, <2>1 DEF StatesOf
  <2> QED  BY <1>1, <1>2, <2>2, HeldFrom
<1>4. /\ m.op = "DUP" /\ port' = RefPort(port, m.new) /\ got' = [got EXCEPT ![s] = m]
      /\ rep' = [rep EXCEPT ![c] = "ok"] /\ ref' = [ref EXCEPT ![r].state = "IODONE"]
      /\ pc' = [pc EXCEPT ![s] = "dupwake"]
  BY <1>2, <1>3 DEF ReplyDup, Goto
<1>5. pc[c] = "kwait" /\ x.iowait = Asleep(c)
  BY <1>3, <1>4 DEF WaitsFor, CallAt
<1>6. PICK z : z = [x EXCEPT !.state = "IODONE"]
  OBVIOUS
<1>7. ref' = [ref EXCEPT ![r] = z]
  BY <1>0, <1>2, <1>3, <1>4, <1>6 DEF WideRef
<1>8. /\ z.alloc = x.alloc /\ z.port = x.port /\ z.refs = x.refs /\ z.sema = x.sema
      /\ z.state = "IODONE" /\ z.iowait = Asleep(c)
  BY <1>0, <1>2, <1>3, <1>5, <1>6 DEF WideRef
<1>9. ref'[r] = z /\ \A p \in Refs : p # r => ref'[p] = ref[p]
  BY <1>0, <1>3, <1>7
<1>10. rep'[c] = "ok" /\ \A d \in Clients : d # c => rep'[d] = rep[d]
  BY <1>0, <1>3, <1>4
<1>11. CallAt(pc[c], z, "ok", intr[c], c)
  BY <1>5, <1>8 DEF CallAt
<1>12. pc'[s] = "dupwake" /\ got'[s] = m /\ \A u \in Servers : u # s => pc'[u] = pc[u] /\ got'[u] = got[u]
  BY <1>0, <1>4 DEF ClientsStay
<1>13. CallsOK'
  <2>1. CallAt(pc[c], ref'[r], rep'[c], intr[c], c)
    BY <1>9, <1>10, <1>11
  <2>2. \A u \in Servers : pc'[u] = "dupwake" =>
           \/ pc[u] = "dupwake" /\ got'[u] = got[u] /\ got[u].pr # r
           \/ u = s /\ got'[u].pr = r /\ pc[c] = "kwait" /\ ref'[r].state = "IODONE" /\ ref'[r].iowait = Asleep(c)
    BY <1>2, <1>3, <1>5, <1>8, <1>9, <1>12
  <2>3. \A p \in Refs : p # r =>
         /\ ref'[p].alloc = ref[p].alloc /\ ref'[p].state = ref[p].state
         /\ ref'[p].iowait = ref[p].iowait /\ ref'[p].svwait = ref[p].svwait
    BY <1>9
  <2> QED  BY <1>3, <1>10, <2>1, <2>2, <2>3, CallAnswered
<1>14. /\ ref'[m.pr].alloc = ref[m.pr].alloc /\ ref'[m.pr].port = ref[m.pr].port
       /\ ref'[m.pr].refs = ref[m.pr].refs /\ ref'[m.pr].sema = ref[m.pr].sema
       /\ ref'[m.pr].state \in {"IODONE", "ABDONE"} /\ ref[m.pr].state \in {"OPENING", "IOWAIT"}
       /\ \A p \in Refs : p # m.pr => ref'[p] = ref[p]
  BY <1>2, <1>3, <1>8, <1>9
<1>15. \A d \in Clients : rep'[d] # "none" => rep[d] # "none" \/ d = m.from
  BY <1>2, <1>10
<1>16. /\ port'.queue = port.queue /\ port'.sema = port.sema /\ intr'[s] = intr[s]
       /\ pc'[s] \in {"out", "svwait", "dupwake"} /\ (pc'[s] = "dupwake" => got'[s].op = "DUP")
  BY <1>0, <1>1, <1>4, <1>12 DEF RefPort, WidePort
<1> QED  BY <1>1, <1>13, <1>14, <1>15, <1>16, AnswerOK

\* Its client is woken.
LEMMA DupWakeOK ==
  ASSUME MsgAssumption, Inv, NEW s \in Servers, ClientsStay(s), DupWake(s)
  PROVE  Protocol'
<1>0. /\ pc \in [Threads -> ClientPcs \cup ServerPcs] /\ s \in Threads /\ ref \in [Refs -> WideRef]
      /\ CallsOK /\ MessagesOK
  BY DEF Inv, Protocol, Typed, KernelTyped, ThreadsTyped, Threads
<1>1. /\ pc[s] = "dupwake" /\ pc'[s] = "duphash" /\ intr' = intr /\ rep' = rep /\ port' = port /\ got' = got
      /\ held' = held
  BY <1>0 DEF DupWake, Goto, serverVars
<1>2. PICK c \in Clients : R(c) = got[s].pr /\ DupOwed(c)
  BY <1>0, <1>1 DEF CallsOK
<1>3. PICK r, x : r = R(c) /\ x = ref[r]
  OBVIOUS
<1>4. /\ r = got[s].pr /\ pc[c] = "kwait" /\ x.state = "IODONE" /\ x.iowait = Asleep(c) /\ Waiting(c)
  BY <1>2, <1>3 DEF DupOwed, X, R, Waiting, InExchange
<1>5. r \in Refs /\ CallAt(pc[c], x, rep[c], intr[c], c)
  BY <1>0, <1>3, <1>4 DEF CallsOK, X, R, Inv, Typed, LocalsSet
<1>6. rep[c] \in {"ok", "err"}
  BY <1>4, <1>5 DEF CallAt
<1>7. PICK z : z = [x EXCEPT !.iowait = Zero]
  OBVIOUS
<1>8. ref' = [ref EXCEPT ![r] = z]
  <2>1. VSema(x.iowait) = Zero
    BY <1>4, SemaValues
  <2>2. ref' = [ref EXCEPT ![r].iowait = VSema(@)]
    BY <1>4 DEF DupWake
  <2> QED  BY <1>0, <1>3, <1>5, <1>7, <2>1, <2>2 DEF WideRef
<1>9. /\ z.alloc = x.alloc /\ z.port = x.port /\ z.refs = x.refs /\ z.sema = x.sema
      /\ z.state = x.state /\ z.iowait = Zero /\ z.msg = x.msg
  BY <1>0, <1>3, <1>5, <1>7 DEF WideRef
<1>10. ref'[r] = z /\ \A p \in Refs : p # r => ref'[p] = ref[p]
  BY <1>0, <1>5, <1>8
<1>11. \A p \in Refs : /\ ref'[p].alloc = ref[p].alloc /\ ref'[p].port = ref[p].port
                       /\ ref'[p].refs = ref[p].refs /\ ref'[p].sema = ref[p].sema
                       /\ ref'[p].state = ref[p].state /\ ref'[p].msg = ref[p].msg
  BY <1>3, <1>9, <1>10
<1>12. ServerStays' /\ TablesOK' /\ MutexesOK'
  BY <1>11, ServerFrame
<1>13. EventsOK'
  <2>1. \A d \in Clients : rep'[d] # "none" => Waiting(d)
    BY <1>1 DEF Inv, Protocol, EventsOK
  <2>2. ~intr'[s] /\ got'[s].op = "DUP"
    BY <1>1 DEF Inv, Protocol, EventsOK
  <2> QED  BY <2>1, <2>2, EventsFrame
<1>14. PortOK' /\ InHands' = InHands
  BY <1>1, PortFrame
<1>15. CallsOK'
  <2>1. CallAt(pc[c], ref'[r], rep'[c], intr[c], c)
    BY <1>1, <1>4, <1>6, <1>9, <1>10 DEF CallAt
  <2>2. \A u \in Servers : pc'[u] = "dupwake" => pc[u] = "dupwake" /\ got'[u] = got[u] /\ got[u].pr # r
    <3>1. \A u \in Servers : pc[u] = "dupwake" /\ u # s => got[u].pr # got[s].pr
      BY <1>0, <1>1 DEF CallsOK
    <3>2. \A u \in Servers : pc'[u] = "dupwake" => pc[u] = "dupwake" /\ u # s
      BY <1>1 DEF ClientsStay
    <3> QED  BY <1>1, <1>4, <3>1, <3>2
  <2>3. \A p \in Refs : p # r =>
         /\ ref'[p].alloc = ref[p].alloc /\ ref'[p].state = ref[p].state
         /\ ref'[p].iowait = ref[p].iowait /\ ref'[p].svwait = ref[p].svwait
    BY <1>10
  <2>4. \A d \in Clients : d # c => rep'[d] = rep[d]
    BY <1>1
  <2>5. Waiting(c) /\ R(c) = r
    BY <1>3, <1>4
  <2>6. \A u \in Servers : pc'[u] = "dupwake" =>
          \/ pc[u] = "dupwake" /\ got'[u] = got[u] /\ got[u].pr # r
          \/ u = s /\ got'[u].pr = r /\ pc[c] = "kwait" /\ ref'[r].state = "IODONE" /\ ref'[r].iowait = Asleep(c)
    BY <2>2
  <2> HIDE <1>1, <1>3, <1>4, <2>2
  <2> QED  BY <1>5, <2>1, <2>3, <2>4, <2>5, <2>6, CallAnswered
<1>16. MessagesOK'
  <2>1. \A n \in AllMsgs : MessageKept(n)
    <3> SUFFICES ASSUME NEW n \in AllMsgs
                 PROVE  MessageKept(n)
      OBVIOUS
    <3>1. n.from \in Clients /\ n.pr \in Refs
      BY MessagesTyped DEF Inv
    <3> QED  BY <1>11, <3>1 DEF MessageKept, ClientsStay
  <2> QED  BY <1>0, <1>1, <1>14, <2>1, MessagesKept
<1> QED  BY <1>12, <1>13, <1>14, <1>15, <1>16 DEF Protocol

\* signal_thread() on a client, ...
LEMMA SignalClientOK ==
  ASSUME MsgAssumption, Inv, NEW t \in Clients, Signal(t)
  PROVE  Protocol'
<1>0. /\ ref \in [Refs -> WideRef] /\ intr \in [Threads -> BOOLEAN] /\ t \in Threads
      /\ TablesOK /\ MutexesOK /\ CallsOK /\ LocalsSet /\ ServerStays /\ EventsOK
  BY DEF Inv, Protocol, Typed, KernelTyped, ThreadsTyped, Threads
<1>1. \A s \in Servers : s # t
  BY DEF MsgAssumption
<1>2. /\ pc' = pc /\ my' = my /\ slots' = slots /\ rep' = rep /\ got' = got /\ hash' = hash /\ held' = held
      /\ doomed' = doomed /\ intr' = [intr EXCEPT ![t] = TRUE]
  BY DEF Signal, clientVars, serverVars
<1>3. PICK r, x : r = R(t) /\ x = ref[r]
  OBVIOUS
<1>4. /\ port' = port
      /\ \/ /\ pc[t] \in {"find", "cfind"} /\ Queued(x.sema, t)
            /\ ref' = [ref EXCEPT ![r].sema = Cunsleep(@, t)]
         \/ /\ pc[t] = "iowait" /\ Queued(x.iowait, t)
            /\ ref' = [ref EXCEPT ![r].iowait = Cunsleep(@, t)]
  <2>1. t \notin Servers
    BY <1>1
  <2> QED  BY <1>3, <2>1 DEF Signal, X, R
<1>5. r \in Refs
  BY <1>0, <1>3, <1>4 DEF LocalsSet
<1>6. PICK z : z = IF pc[t] = "iowait" THEN [x EXCEPT !.iowait = Cunsleep(x.iowait, t)]
                                       ELSE [x EXCEPT !.sema = Cunsleep(x.sema, t)]
  OBVIOUS
<1>7. /\ z.alloc = x.alloc /\ z.port = x.port /\ z.refs = x.refs /\ z.state = x.state /\ z.msg = x.msg
      /\ z.svwait = x.svwait
      /\ pc[t] \in {"find", "cfind"} => z.sema = Cunsleep(x.sema, t) /\ Queued(x.sema, t) /\ z.iowait = x.iowait
      /\ pc[t] = "iowait" => z.iowait = Cunsleep(x.iowait, t) /\ Queued(x.iowait, t) /\ z.sema = x.sema
      /\ pc[t] \in {"find", "cfind", "iowait"}
  <2>1. x \in WideRef
    BY <1>0, <1>3, <1>5
  <2> QED  BY <1>4, <1>6, <2>1 DEF WideRef
<1>8. ref' = [ref EXCEPT ![r] = z]
  <2>1. CASE pc[t] = "iowait"
    BY <1>3, <1>4, <1>6, <2>1
  <2>2. CASE pc[t] # "iowait"
    BY <1>3, <1>4, <1>6, <2>2
  <2> QED  BY <2>1, <2>2
<1>9. ref'[r] = z /\ \A p \in Refs : p # r => ref'[p] = ref[p]
  BY <1>0, <1>5, <1>8
<1>10. /\ intr'[t] /\ \A d \in Clients : d # t => intr'[d] = intr[d]
       /\ \A s \in Servers : intr'[s] = intr[s]
  <2>1. Servers \subseteq Threads /\ Clients \subseteq Threads
    BY DEF Threads
  <2> QED  BY <1>0, <1>1, <1>2, <2>1
<1>11. \A p \in Refs : /\ ref'[p].alloc = ref[p].alloc /\ ref'[p].port = ref[p].port /\ ref'[p].refs = ref[p].refs
                       /\ ref'[p].state = ref[p].state /\ ref'[p].msg = ref[p].msg
                       /\ ref'[p].svwait = ref[p].svwait
  BY <1>3, <1>7, <1>9
<1>12. ServerStays' /\ EventsOK' /\ PortOK' /\ InHands' = InHands
  <2>1. OthersStay(t)
    BY <1>2, <1>4, <1>10 DEF OthersStay
  <2>2. \A p \in Refs : ref'[p].alloc => ref'[p].port
    BY <1>0, <1>11 DEF ServerStays
  <2>3. Waiting(t)' <=> Waiting(t)
    BY <1>2 DEF Waiting, InExchange
  <2>4. intr'[t] => pc'[t] \in {"find", "cfind", "iowait"}
    BY <1>2, <1>7
  <2>5. rep'[t] # "none" => Waiting(t)'
    BY <1>0, <1>2, <2>3 DEF EventsOK
  <2> QED  BY <2>1, <2>2, <2>4, <2>5, ClientQuiet
<1>13. TablesOK'
  <2>1. \A d \in Clients : Using(d)' =>
          /\ Using(d) /\ my'[d].slot = my[d].slot /\ my'[d].pr = my[d].pr /\ my'[d].new = my[d].new
          /\ pc'[d] = pc[d]
    BY <1>2 DEF Using
  <2>2. \A k \in Slots : slots'[k] = slots[k]
    BY <1>2
  <2> QED  BY <1>0, <1>11, <2>1, <2>2, TablesFrame
<1>14. MutexesOK'
  <2> SUFFICES ASSUME NEW p \in Refs
               PROVE  MutexOK(p)'
    BY DEF MutexesOK
  <2>1. MutexOK(p)
    BY <1>0 DEF MutexesOK
  <2>2. CASE p # r
    <3>1. ~Queued(ref[p].sema, t)
      BY <1>3, <2>1, <2>2 DEF MutexOK
    <3>2. Owns(t, p)' <=> Owns(t, p)
      BY <1>2, <1>3, <2>2 DEF Owns, R
    <3>3. \A d \in Clients :
            \/ pc'[d] = pc[d] /\ my'[d].pr = my[d].pr /\ intr'[d] = intr[d]
            \/ ~Queued(ref[p].sema, d) /\ (Owns(d, p)' <=> Owns(d, p))
      BY <1>2, <1>10, <3>1, <3>2
    <3>4. ref'[p].sema = ref[p].sema /\ ref'[p].alloc = ref[p].alloc /\ ref'[p].state = ref[p].state
      BY <1>9, <2>2
    <3> QED  BY <2>1, <3>3, <3>4, MutexKept
  <2>3. CASE p = r /\ pc[t] = "iowait"
    <3>1. ~Queued(ref[p].sema, t)
      BY <2>1, <2>3 DEF MutexOK
    <3>2. Owns(t, p)' <=> Owns(t, p)
      BY <1>2, <2>3 DEF Owns, R
    <3>3. \A d \in Clients :
            \/ pc'[d] = pc[d] /\ my'[d].pr = my[d].pr /\ intr'[d] = intr[d]
            \/ ~Queued(ref[p].sema, d) /\ (Owns(d, p)' <=> Owns(d, p))
      BY <1>2, <1>10, <3>1, <3>2
    <3>4. ref'[p].sema = ref[p].sema /\ ref'[p].alloc = ref[p].alloc /\ ref'[p].state = ref[p].state
      BY <1>3, <1>7, <1>9, <2>3
    <3> QED  BY <2>1, <3>3, <3>4, MutexKept
  <2>4. CASE p = r /\ pc[t] \in {"find", "cfind"}
    <3>1. PICK u : u = x.sema
      OBVIOUS
    <3>2. u \in SemaType(Clients) /\ Queued(u, t) /\ Owners(r) \in SUBSET Clients /\ ref'[r].sema = Cunsleep(u, t)
      BY <1>0, <1>3, <1>5, <1>7, <1>9, <2>4, <3>1 DEF WideRef, Owners
    <3>3. \A d \in Clients : Queued(u, d) => pc[d] \in {"find", "cfind"} /\ R(d) = r /\ ~intr[d]
      BY <1>3, <2>1, <2>4, <3>1 DEF MutexOK
    <3>4. ref[r].alloc /\ ref[r].state # "CLOSING"
      BY <1>0, <1>3, <1>7 DEF TablesOK, UsersOK, Using
    <3>5. Mutex(u, Owners(r))
      BY <1>3, <2>1, <2>4, <3>1, <3>4 DEF MutexOK
    <3>6. /\ Mutex(Cunsleep(u, t), Owners(r))
          /\ \A d \in Clients : Queued(Cunsleep(u, t), d) <=> Queued(u, d) /\ d # t
      BY <3>2, <3>5, MutexBreak
    <3>7. PICK w : w = Cunsleep(u, t) /\ w = ref'[r].sema
      BY <3>2
    <3>8. \A d \in Clients : Owns(d, r)' <=> Owns(d, r)
      <4> SUFFICES ASSUME NEW d \in Clients
                   PROVE  Owns(d, r)' <=> Owns(d, r)
        OBVIOUS
      <4>1. CASE d = t
        BY <1>2, <1>3, <1>7, <1>10, <2>4, <3>1, <3>2, <4>1 DEF Owns, R
      <4>2. CASE d # t
        BY <1>2, <1>3, <1>10, <3>1, <3>6, <3>7, <4>2 DEF Owns, R
      <4> QED  BY <4>1, <4>2
    <3>9. Owners(r)' = Owners(r)
      BY <3>8 DEF Owners
    <3>10. \A d \in Clients : Queued(w, d) => pc'[d] \in {"find", "cfind"} /\ R(d)' = r /\ ~intr'[d]
      BY <1>2, <1>10, <3>3, <3>6, <3>7 DEF R
    <3> QED  BY <2>4, <3>6, <3>7, <3>9, <3>10 DEF MutexOK
  <2> QED  BY <1>7, <2>2, <2>3, <2>4
<1>15. CallsOK'
  <2>0. \A d \in Clients : Waiting(d) => R(d) \in Refs
    BY <1>0 DEF LocalsSet, Waiting, InExchange
  <2>1. CASE pc[t] \in {"find", "cfind"}
    <3>1. ~Waiting(t) /\ ~Waiting(t)'
      BY <1>2, <2>1 DEF Waiting, InExchange
    <3>2. \A p \in Refs : /\ ref'[p].alloc = ref[p].alloc /\ ref'[p].state = ref[p].state
                          /\ ref'[p].iowait = ref[p].iowait /\ ref'[p].svwait = ref[p].svwait
      BY <1>3, <1>7, <1>9, <1>11, <2>1
    <3>3. \A d \in Clients : \/ /\ pc'[d] = pc[d] /\ my'[d].pr = my[d].pr
                                /\ rep'[d] = rep[d] /\ intr'[d] = intr[d]
                             \/ ~Waiting(d) /\ ~Waiting(d)'
      BY <1>2, <1>10, <3>1
    <3>4. \A s \in Servers : pc'[s] = "dupwake" => pc[s] = "dupwake" /\ got'[s] = got[s]
      BY <1>2
    <3> QED  BY <1>0, <2>0, <3>2, <3>3, <3>4, CallsSame
  <2>2. CASE pc[t] = "iowait"
    <3>1. Waiting(t) /\ Waiting(t)' /\ ~DupOwed(t) /\ my'[t].pr = r
      BY <1>2, <1>3, <2>2 DEF Waiting, InExchange, DupOwed, R
    <3>2. CallAt("iowait", x, rep[t], intr[t], t)
      BY <1>0, <1>3, <2>2, <3>1 DEF CallsOK, X, R
    <3>3. x.iowait = Asleep(t) /\ x.state = "IOWAIT" /\ rep[t] = "none"
      BY <1>7, <2>2, <3>2, SemaValues DEF CallAt
    <3>4. z.iowait = Zero
      BY <1>7, <2>2, <3>3, CunsleepAlone
    <3>5. CallAt(pc'[t], ref'[r], rep'[t], intr'[t], t)
      <4>1. pc'[t] = "iowait" /\ rep'[t] = "none" /\ intr'[t] = TRUE /\ z.state = "IOWAIT"
        BY <1>0, <1>2, <1>7, <2>2, <3>3
      <4>2. CallAt("iowait", z, "none", TRUE, t)
        BY <3>4, <4>1 DEF CallAt
      <4> QED  BY <1>9, <4>1, <4>2
    <3>6. \A d \in Clients : d # t /\ Waiting(d) => R(d) # r
      BY <1>3, <3>1, WaitersHave, OneCall
    <3>7. \A d \in Clients : d # t => /\ pc'[d] = pc[d] /\ my'[d].pr = my[d].pr
                                      /\ rep'[d] = rep[d] /\ intr'[d] = intr[d]
      BY <1>2, <1>10
    <3>8. \A p \in Refs : p # r =>
           /\ ref'[p].alloc = ref[p].alloc /\ ref'[p].state = ref[p].state
           /\ ref'[p].iowait = ref[p].iowait /\ ref'[p].svwait = ref[p].svwait
      BY <1>9
    <3>9. (\A s \in Servers : pc'[s] = pc[s]) /\ got' = got /\ (Waiting(t) => R(t) = r)
      BY <1>2, <1>3
    <3>10. Waiting(t)' => my'[t].pr = r /\ CallAt(pc'[t], ref'[r], rep'[t], intr'[t], t)
      BY <3>1, <3>5
    <3>11. ~Waiting(t)' => Resting(ref'[r]) \/ ~ref'[r].alloc \/ ref'[r].state = "CLOSING"
      BY <3>1
    <3>12. ~DupOwed(t)
      BY <3>1
    <3> HIDE <1>2, <1>9, <1>10, <3>1, <3>5, <2>2
    <3> QED  BY <1>5, <3>6, <3>7, <3>8, <3>9, <3>10, <3>11, <3>12, CallsMove
  <2> QED  BY <1>7, <2>1, <2>2
<1>16. MessagesOK'
  <2>1. \A n \in AllMsgs : MessageKept(n)
    <3> SUFFICES ASSUME NEW n \in AllMsgs
                 PROVE  MessageKept(n)
      OBVIOUS
    <3>1. n.from \in Clients /\ n.pr \in Refs
      BY MessagesTyped DEF Inv
    <3> QED  BY <1>2, <1>11, <3>1 DEF MessageKept
  <2> QED  BY <1>2, <1>4, <1>12, <2>1, MessagesKept DEF Inv, Protocol
<1> QED  BY <1>12, <1>13, <1>14, <1>15, <1>16 DEF Protocol

\* ... and on a server.
LEMMA SignalServerOK ==
  ASSUME MsgAssumption, Inv, NEW t \in Servers, Signal(t)
  PROVE  Protocol'
<1>0. /\ port \in WidePort /\ intr \in [Threads -> BOOLEAN] /\ t \in Threads /\ PortOK /\ ServerStays /\ EventsOK
      /\ \A u \in Threads : u \in Clients \/ u \in Servers
  BY DEF Inv, Protocol, Typed, KernelTyped, ThreadsTyped, Threads
<1>1. \A c \in Clients : c # t
  BY DEF MsgAssumption
<1>2. /\ pc' = pc /\ my' = my /\ slots' = slots /\ rep' = rep /\ got' = got /\ hash' = hash /\ held' = held
      /\ doomed' = doomed /\ intr' = [intr EXCEPT ![t] = TRUE]
  BY DEF Signal, clientVars, serverVars
<1>3. PICK w : w = port.sema
  OBVIOUS
<1>4. /\ ref' = ref
      /\ \/ pc[t] = "find" /\ Queued(w, t) /\ port' = [port EXCEPT !.sema = Cunsleep(@, t)]
         \/ pc[t] = "rwait" /\ port' = [port EXCEPT !.wait = Cunsleep(@, t)]
  <2>1. t \notin Clients
    BY <1>1
  <2> QED  BY <1>3, <2>1 DEF Signal
<1>5. /\ port'.queue = port.queue /\ port'.named = port.named
      /\ pc[t] = "find" => Queued(w, t) /\ port'.sema = Cunsleep(w, t)
      /\ pc[t] = "rwait" => port'.sema = w
      /\ pc[t] \in {"find", "rwait"}
  BY <1>0, <1>3, <1>4 DEF WidePort
<1>6. /\ intr'[t] /\ \A u \in Servers : u # t => intr'[u] = intr[u]
      /\ \A c \in Clients : intr'[c] = intr[c]
  <2>1. Servers \subseteq Threads /\ Clients \subseteq Threads
    BY DEF Threads
  <2> QED  BY <1>0, <1>1, <1>2, <2>1
<1>7. ClientsStay(t)
  <2>1. pc'[t] \notin ShuttingPcs
    BY <1>0, <1>2 DEF ServerStays
  <2> QED  BY <1>2, <1>5, <1>6, <2>1 DEF ClientsStay
<1>8. PortOK'
  <2>1. CASE pc[t] = "rwait"
    <3>1. \A u \in Servers : Receives(u)' <=> Receives(u)
      BY <1>2, <1>3, <1>5, <1>6, <2>1 DEF Receives
    <3>2. \A u \in Servers : Queued(port.sema, u) => pc'[u] = pc[u] /\ intr'[u] = intr[u]
      BY <1>0, <1>2, <1>6, <2>1 DEF PortOK
    <3> QED  BY <1>0, <1>3, <1>5, <2>1, <3>1, <3>2, PortKept
  <2>2. CASE pc[t] = "find"
    <3>1. w \in SemaType(Servers) /\ Mutex(w, Receivers) /\ Receivers \in SUBSET Servers /\ Queued(w, t)
      BY <1>0, <1>3, <1>5, <2>2 DEF PortOK, WidePort, Receivers
    <3>2. /\ Mutex(Cunsleep(w, t), Receivers)
          /\ \A u \in Servers : Queued(Cunsleep(w, t), u) <=> Queued(w, u) /\ u # t
      BY <3>1, MutexBreak
    <3>3. PICK v : v = Cunsleep(w, t) /\ v = port'.sema
      BY <1>5, <2>2
    <3>4. \A u \in Servers : Receives(u)' <=> Receives(u)
      <4> SUFFICES ASSUME NEW u \in Servers
                   PROVE  Receives(u)' <=> Receives(u)
        OBVIOUS
      <4>1. CASE u = t
        BY <1>2, <1>3, <1>6, <2>2, <3>1, <4>1 DEF Receives
      <4>2. CASE u # t
        BY <1>2, <1>3, <1>6, <3>2, <3>3, <4>2 DEF Receives
      <4> QED  BY <4>1, <4>2
    <3>5. Receivers' = Receivers
      BY <3>4 DEF Receivers
    <3>6. \A u \in Servers : Queued(w, u) => pc[u] \in {"find", "dport"} /\ ~intr[u]
      BY <1>0, <1>3 DEF PortOK
    <3>7. \A u \in Servers : Queued(v, u) => pc'[u] \in {"find", "dport"} /\ ~intr'[u]
      BY <1>2, <1>6, <3>2, <3>3, <3>6
    <3> QED  BY <3>2, <3>3, <3>5, <3>7 DEF PortOK
  <2> QED  BY <1>5, <2>1, <2>2
<1>9. InHands' = InHands
  BY <1>2 DEF InHands
<1>10. pc'[t] # "dupwake" /\ (intr'[t] => pc'[t] \in {"find", "rwait"}) /\ (pc'[t] = "duphash" => got'[t].op = "DUP")
  BY <1>2, <1>5
<1> HIDE <1>5, <1>6
<1> QED  BY <1>2, <1>4, <1>5, <1>7, <1>8, <1>9, <1>10, QuietOK

-----------------------------------------------------------------------------
(* All of them.                                                            *)

\* Nobody closes a handle that another thread is using; nor does the server
\* close its port.
Polite  == "busy" \notin Does
Orderly == Polite /\ "shut" \notin Does

\* No step of a client breaks the protocol, ...
LEMMA ClientsOK ==
  ASSUME MsgAssumption, Polite, Inv, NEW c \in Clients, ClientCalls(c) \/ ClientRuns(c)
  PROVE  Protocol'
<1>1. OthersStay(c) /\ "busy" \notin Does
  BY ClientAlone DEF Inv, Polite
<1>2. CASE ClientCalls(c)
  <2>1. \/ \E k \in Slots, r \in Refs : MsgConnect(c, k, r)
        \/ \E k \in Slots, kd \in Kinds : SendFind(c, k, kd)
        \/ \E k, j \in Slots : CloneFind(c, k, j)
        \/ \E k, j \in Slots : ForkPort(c, k, j)
        \/ \E k \in Slots : MsgDisconnect(c, k)
    BY <1>2, Zenon DEF ClientCalls
  <2> QED  BY <1>1, <2>1, ConnectOK, FindOK, CountOK
<1>3. CASE ClientRuns(c)
  <2>1. \/ MsgConnectDone(c) \/ SendPost(c) \/ SendMap(c)
        \/ SendDone(c) \/ CopyDone(c) \/ MapFails(c) \/ AbortDone(c)
        \/ IntrGone(c) \/ IntrWithdraw(c) \/ IntrAbort(c) \/ IntrDone(c) \/ FindBroken(c)
        \/ \E n \in Refs : ClonePost(c, n)
        \/ CloneDone(c) \/ ShutClient(c) \/ ShutDone(c)
    BY <1>3, Zenon DEF ClientRuns
  <2> QED  BY <1>1, <2>1, ConnectDoneOK, SendPostOK, SendMapOK, DoneOK, IntrGoneOK, IntrWithdrawOK,
              IntrAbortOK, IntrDoneOK, FindBrokenOK, ClonePostOK, CloneDoneOK, ShutOK, ShutDoneOK
<1> QED  BY <1>2, <1>3

\* ... and none of a server does that leaves the port its name.
LEMMA ServersOK ==
  ASSUME MsgAssumption, Inv, port'.named, NEW s \in Servers,
         RecvFind(s) \/ ServerRuns(s) \/ ClosePort(s) \/ \E m \in held : ServerAnswers(s, m)
  PROVE  Protocol'
<1>1. /\ ClientsStay(s)
      /\ \/ RecvFind(s) \/ RecvWait(s) \/ RecvBroken(s) \/ RecvTake(s) \/ RecvNothing(s) \/ RecvReturn(s)
         \/ ReplyRuns(s) \/ DupWake(s) \/ DupHash(s) \/ ClosePort(s)
         \/ \E m \in held : ServerAnswers(s, m)
  BY ServerAlone
<1>2. ASSUME NEW m \in held, ServerAnswers(s, m)
      PROVE  Protocol'
  <2>1. \/ MsgAccept(s, m) \/ MsgErr(s, m) \/ ReplyAbort(s, m) \/ ReplyRefused(s, m)
        \/ \E a \in Answers : ReplyDone(s, m, a)
        \/ \E a \in Answers : ReplyDup(s, m, a)
    BY <1>2, Zenon DEF ServerAnswers
  <2> QED  BY <1>1, <2>1, AcceptOK, ErrOK, AbortAnswerOK, ReplyOK, GrantOK
<1> QED  BY <1>1, <1>2, ReceiveOK, TakeMsgOK, RecvReturnOK, RestOK, DupWakeOK

\* Nor does a step that does nothing.
LEMMA ProtocolStutters ==
  ASSUME Inv, UNCHANGED vars
  PROVE  Protocol'
<1>1. ServerStays' /\ EventsOK' /\ PortOK'
  BY DEF vars, Inv, Protocol, ServerStays, EventsOK, Waiting, InExchange, PortOK, Receivers, Receives
<1>2. TablesOK'
  BY DEF vars, Inv, Protocol, TablesOK, SlotsKept, HandlesKept, UsersOK, AloneOK, NewOK, Reserving,
         SlotsOf, Using, R
<1>3. MutexesOK'
  BY DEF vars, Inv, Protocol, MutexesOK, MutexOK, Owners, Owns, R
<1>4. CallsOK'
  BY DEF vars, Inv, Protocol, CallsOK, CallAt, Resting, DupOwed, Waiting, InExchange, X, R
<1>5. MessagesOK'
  BY DEF vars, Inv, Protocol, MessagesOK, InHands, Known, R
<1> QED  BY <1>1, <1>2, <1>3, <1>4, <1>5 DEF Protocol

\* So every step keeps it, ...
LEMMA InvStep ==
  ASSUME MsgAssumption, Polite, Inv, [Next]_vars, port'.named
  PROVE  Inv'
<1>1. Typed'
  BY TypedStep DEF Inv
<1>2. CASE UNCHANGED vars
  BY <1>1, <1>2, ProtocolStutters DEF Inv
<1>3. CASE Next
  <2>1. \/ \E c \in Clients : ClientCalls(c) \/ ClientRuns(c)
        \/ \E s \in Servers : RecvFind(s) \/ ServerRuns(s) \/ ClosePort(s) \/ \E m \in held : ServerAnswers(s, m)
        \/ \E t \in Threads : Signal(t)
    BY <1>3, Zenon DEF Next
  <2>2. \A t \in Threads : t \in Clients \/ t \in Servers
    BY DEF Threads
  <2>3. Protocol'
    BY <2>1, <2>2, ClientsOK, ServersOK, SignalClientOK, SignalServerOK
  <2> QED  BY <1>1, <2>3 DEF Inv
<1> QED  BY <1>2, <1>3

\* The port's name is taken away by the thread that closes it, and nobody
\* gives it back.
LEMMA NameTaken ==
  ASSUME MsgAssumption, Typed, [Next]_vars
  PROVE  \/ port'.named = port.named
         \/ ~port'.named /\ \E s \in Servers : CloseName(s)
<1>0. port \in WidePort
  BY DEF Typed, KernelTyped
<1>1. ASSUME NEW c \in Clients, ClientCalls(c) \/ ClientRuns(c)
      PROVE  port'.named = port.named
  BY <1>1, ClientAlone DEF OthersStay
<1>2. ASSUME NEW s \in Servers,
             RecvFind(s) \/ ServerRuns(s) \/ ClosePort(s) \/ \E m \in held : ServerAnswers(s, m)
      PROVE  port'.named = port.named \/ (~port'.named /\ CloseName(s))
  <2>1. CASE RecvTake(s)
    BY <1>0, <2>1 DEF RecvTake, RefPort, DerefPort, WidePort
  <2>2. CASE CloseName(s)
    BY <1>0, <2>2 DEF CloseName, WidePort
  <2>3. CASE ~RecvTake(s) /\ ~CloseName(s) /\ port' # port
    <3>1. \/ port' = [port EXCEPT !.inproc = FALSE, !.sema = PSema(@, s)]
          \/ port' = [port EXCEPT !.sema = PSema(@, s)] \/ port' = [port EXCEPT !.wait = PSema(@, s)]
          \/ port' = [port EXCEPT !.sema = VSema(@)] \/ port' = [port EXCEPT !.queue = << >>]
          \/ \E r : port' \in {RefPort(port, r), DerefPort(port, r)}
      BY <1>2, <2>3, ZenonT(60) DEF ServerRuns, RecvFind, RecvWait, RecvBroken, RecvNothing, RecvReturn, ReplyRuns,
           DupWake, DupHash, ClosePort, Grab, Bounce, BounceEnd, CloseClient, CloseHash, FreePort,
           ServerAnswers, MsgAccept, MsgErr, ReplyDone, ReplyDup, ReplyAbort, ReplyRefused
    <3> QED  BY <1>0, <3>1 DEF RefPort, DerefPort, WidePort
  <2> QED  BY <2>1, <2>2, <2>3
<1>3. ASSUME NEW t \in Threads, Signal(t)
      PROVE  port'.named = port.named
  BY <1>0, <1>3 DEF Signal, WidePort
<1>4. CASE UNCHANGED vars
  BY <1>4 DEF vars
<1> QED  BY <1>1, <1>2, <1>3, <1>4, Zenon DEF Next

\* In an orderly system no thread closes the port.
NoCloser == \A s \in Servers : pc[s] # "dport"

LEMMA NobodyCloses ==
  ASSUME MsgAssumption, Orderly, Inv, NoCloser, [Next]_vars
  PROVE  port'.named /\ NoCloser'
<1>0. pc \in [Threads -> ClientPcs \cup ServerPcs] /\ Servers \subseteq Threads
  BY DEF Inv, Typed, ThreadsTyped, Threads
<1>1. port'.named
  BY NameTaken DEF CloseName, Awake, NoCloser, Inv, Protocol, ServerStays
<1>2. ASSUME NEW c \in Clients, ClientCalls(c) \/ ClientRuns(c)
      PROVE  NoCloser'
  BY <1>2, ClientAlone DEF OthersStay, NoCloser, Inv
<1>3. ASSUME NEW s \in Servers,
             RecvFind(s) \/ ServerRuns(s) \/ ClosePort(s) \/ \E m \in held : ServerAnswers(s, m)
      PROVE  NoCloser'
  <2>1. ~ClosePort(s)
    BY DEF ClosePort, Orderly
  <2>2. /\ ClientsStay(s)
        /\ \/ RecvFind(s) \/ RecvWait(s) \/ RecvBroken(s) \/ RecvTake(s) \/ RecvNothing(s) \/ RecvReturn(s)
           \/ ReplyRuns(s) \/ DupWake(s) \/ DupHash(s)
           \/ \E m \in held : ServerAnswers(s, m)
    BY <1>1, <1>3, <2>1, ServerAlone
  <2>3. pc' = pc \/ \E l \in {"find", "rwait", "rcvd", "out", "svwait", "dupwake", "duphash"} : Goto(s, l)
    BY <2>2, ZenonT(60) DEF RecvFind, RecvWait, RecvBroken, RecvTake, RecvNothing, RecvReturn, ReplyRuns, DupWake, DupHash,
         ServerAnswers, MsgAccept, MsgErr, ReplyDone, ReplyDup, ReplyAbort, ReplyRefused
  <2> QED  BY <1>0, <2>3 DEF NoCloser, Goto
<1>4. ASSUME NEW t \in Threads, Signal(t)
      PROVE  NoCloser'
  BY <1>4 DEF Signal, NoCloser
<1>5. CASE UNCHANGED vars
  BY <1>5 DEF vars, NoCloser, Inv, Protocol, ServerStays
<1> QED  BY <1>1, <1>2, <1>3, <1>4, <1>5, Zenon DEF Next

\* What the servers of an orderly system do.
LEMMA ServerOrderly ==
  ASSUME MsgAssumption, Orderly, Inv, Inv', NEW s \in Servers,
         RecvFind(s) \/ ServerRuns(s) \/ ClosePort(s) \/ \E m \in held : ServerAnswers(s, m)
  PROVE  /\ ClientsStay(s)
         /\ \/ RecvFind(s) \/ RecvWait(s) \/ RecvBroken(s) \/ RecvTake(s) \/ RecvNothing(s) \/ RecvReturn(s)
            \/ ReplyRuns(s) \/ DupWake(s) \/ DupHash(s)
            \/ \E m \in held : ServerAnswers(s, m)
<1>1. port'.named
  BY DEF Inv, Protocol, ServerStays
<1>2. ~ClosePort(s)
  BY DEF ClosePort, Orderly
<1> QED  BY <1>1, <1>2, ServerAlone

\* ... and it holds at first.
LEMMA InvInit ==
  ASSUME MsgAssumption, Init
  PROVE  Inv
<1>1. Typed
  BY TypedInit
<1>2. /\ pc = [t \in Threads |-> "out"] /\ intr = [t \in Threads |-> FALSE]
      /\ rep = [c \in Clients |-> "none"] /\ ref = [r \in Refs |-> FreeRef]
      /\ port.named /\ port.inproc /\ port.queue = << >> /\ port.sema = NewSema(1)
      /\ slots = [k \in Slots |-> Null] /\ held = {} /\ doomed = << >>
  BY DEF Init
<1>3. /\ \A c \in Clients : pc[c] = "out" /\ ~intr[c] /\ rep[c] = "none"
      /\ \A s \in Servers : pc[s] = "out" /\ ~intr[s]
      /\ \A r \in Refs : ref[r] = FreeRef
      /\ \A k \in Slots : slots[k] = Null
  BY <1>2 DEF Threads
<1>4. ServerStays /\ EventsOK
  BY <1>2, <1>3 DEF ServerStays, EventsOK, FreeRef, ShuttingPcs
<1>5. \A n \in {0, 1} : /\ QueueDistinct(NewSema(n)) /\ CountIsQueue(NewSema(n)) /\ NewSema(n).cnt = n
                        /\ \A t : ~Queued(NewSema(n), t)
  BY NewSemaOK DEF NewSema
<1>6. PortOK
  <2>1. Receivers = {}
    BY <1>3 DEF Receivers, Receives
  <2> QED  BY <1>2, <1>5, <2>1 DEF PortOK, Mutex
<1>7. TablesOK
  <2>1. \A r \in Refs : SlotsOf(r) = {}
    BY <1>3 DEF SlotsOf, MsgAssumption
  <2>2. \A c \in Clients : ~Reserving(c) /\ ~Using(c) /\ pc[c] \notin {"opening", "shut", "kwait"}
    BY <1>3 DEF Reserving, Using
  <2> QED  BY <2>1, <2>2 DEF TablesOK, SlotsKept, HandlesKept, UsersOK, AloneOK, NewOK
<1>8. MutexesOK
  <2>1. \A r \in Refs : ~ref[r].alloc /\ ref[r].sema = NewSema(0)
    BY <1>3 DEF FreeRef
  <2> QED  BY <1>5, <2>1 DEF MutexesOK, MutexOK
<1>9. CallsOK
  <2>1. \A c \in Clients : ~Waiting(c)
    BY <1>3 DEF Waiting, InExchange
  <2>2. \A r \in Refs : ~ref[r].alloc
    BY <1>3 DEF FreeRef
  <2> QED  BY <1>3, <2>1, <2>2 DEF CallsOK
<1>10. MessagesOK
  <2>1. ToSet(port.queue) = {} /\ InHands = {} /\ Spread(port.queue)
    <3>1. Spread(<< >>) /\ ToSet(<< >>) = {}
      BY DEF Spread, ToSet
    <3>2. InHands = {}
      BY <1>3 DEF InHands
    <3> QED  BY <1>2, <3>1, <3>2
  <2> QED  BY <1>2, <2>1 DEF MessagesOK
<1> QED  BY <1>1, <1>4, <1>6, <1>7, <1>8, <1>9, <1>10 DEF Inv, Protocol

\* What it says of the properties of Msg.
LEMMA InvMeans ==
  ASSUME MsgAssumption, Inv
  PROVE  /\ FramesLive /\ IowaitDrained /\ WokenMeansAnswered /\ SegStable
         /\ \A r \in Refs : \A c, d \in Clients : Owns(c, r) /\ Owns(d, r) => c = d
<1>0. LocalsSet /\ CallsOK /\ MessagesOK /\ TablesOK /\ ServerStays /\ ref \in [Refs -> WideRef]
  BY DEF Inv, Protocol, Typed, KernelTyped
<1>1. FramesLive
  <2>1. UnderWay = ToSet(port.queue) \cup InHands
    <3>1. ToSet(doomed) = {}
      BY <1>0 DEF ServerStays, ToSet
    <3> QED  BY <3>1 DEF UnderWay, InHands
  <2> QED  BY <1>0, <2>1 DEF FramesLive, MessagesOK, Known
<1>2. \A c \in Clients : Waiting(c) => R(c) \in Refs /\ CallAt(pc[c], X(c), rep[c], intr[c], c)
  BY <1>0 DEF CallsOK, LocalsSet, Waiting, InExchange
<1>3. IowaitDrained
  <2> SUFFICES ASSUME NEW c \in Clients, pc[c] \in {"find", "cfind"}, Owns(c, R(c)), X(c).port
               PROVE  X(c).iowait.cnt = 0
    BY DEF IowaitDrained
  <2>1. PICK r \in Refs : r = R(c)
    BY <1>0 DEF LocalsSet
  <2>2. ref[r].alloc /\ ref[r].state # "CLOSING"
    BY <1>0, <2>1 DEF TablesOK, UsersOK, Using
  <2>3. \A d \in Clients : Waiting(d) => R(d) # r
    <3> SUFFICES ASSUME NEW d \in Clients, Waiting(d), R(d) = r
                 PROVE  FALSE
      OBVIOUS
    <3>1. Has(c) /\ Has(d)
      BY WaitersHave DEF Has
    <3>2. c = d
      BY <2>1, <3>1, OneCall
    <3> QED  BY <3>2 DEF Waiting, InExchange
  <2>4. Resting(ref[r])
    BY <1>0, <2>2, <2>3 DEF CallsOK
  <2> QED  BY <2>1, <2>4 DEF Resting, Zero, X, R
<1>4. WokenMeansAnswered
  <2> SUFFICES ASSUME NEW c \in Clients, NEW l \in {"iowait", "kwait"}, Awake(c, l, X(c).iowait)
               PROVE  rep[c] # "none"
    BY DEF WokenMeansAnswered
  <2>1. pc[c] = l /\ ~Queued(X(c).iowait, c) /\ ~intr[c] /\ Waiting(c)
    BY DEF Awake, Waiting, InExchange
  <2>2. X(c).iowait # Asleep(c)
    BY <2>1, SemaValues
  <2>3. CallAt(l, X(c), rep[c], intr[c], c)
    BY <1>2, <2>1
  <2> QED  BY <2>1, <2>2, <2>3 DEF CallAt
<1>5. SegStable
  <2> SUFFICES ASSUME NEW c \in Clients, pc[c] = "copy"
               PROVE  \E s \in Servers : Queued(X(c).svwait, s)
    BY DEF SegStable
  <2>1. Waiting(c)
    BY DEF Waiting, InExchange
  <2>2. R(c) \in Refs /\ CallAt("copy", X(c), rep[c], intr[c], c)
    BY <1>2, <2>1
  <2>3. PICK q : q = X(c).svwait.q
    OBVIOUS
  <2>4. q # << >> /\ q \in Seq(Servers)
    BY <1>0, <2>2, <2>3 DEF CallAt, X, R, WideRef, SemaType
  <2>5. Contains(q, q[1]) /\ q[1] \in Servers
    <3>1. Len(q) \in Nat /\ Len(q) > 0
      BY <2>4
    <3>2. 1 \in 1..Len(q)
      BY <3>1
    <3> QED  BY <2>4, <3>2 DEF Contains
  <2> QED  BY <2>3, <2>5 DEF Queued
<1>6. \A r \in Refs : \A c, d \in Clients : Owns(c, r) /\ Owns(d, r) => c = d
  <2> SUFFICES ASSUME NEW r \in Refs, NEW c \in Clients, NEW d \in Clients, Owns(c, r), Owns(d, r)
               PROVE  c = d
    OBVIOUS
  <2>1. R(c) = r /\ R(d) = r /\ Has(c) /\ Has(d)
    BY DEF Owns, Has, R
  <2> QED  BY <2>1, OneCall
<1> QED  BY <1>1, <1>3, <1>4, <1>5, <1>6

\* What an answer finds: a call that waits, and no answer yet.
LEMMA AnswerFinds ==
  ASSUME MsgAssumption, Inv, NEW m \in held, m.op # "ABORT", ref[m.pr].state \in {"OPENING", "IOWAIT"}
  PROVE  ref[m.pr].msg = m /\ rep[m.from] = "none" /\ pc[m.from] \in {"opening", "iowait", "kwait"}
<1>1. /\ m.op \in Ops /\ pc[m.from] \in WaitsFor(m.op) /\ ref[m.pr].state \in StatesOf(m.op)
      /\ ref[m.pr].msg = m /\ CallAt(pc[m.from], ref[m.pr], rep[m.from], intr[m.from], m.from)
  BY HeldFrom
<1>2. \/ m.op = "CONNECT" /\ ref[m.pr].state = "OPENING" /\ pc[m.from] = "opening"
      \/ m.op \in {"IO", "DUP"} /\ ref[m.pr].state = "IOWAIT" /\ pc[m.from] \in {"iowait", "abwait", "kwait"}
  BY <1>1 DEF Ops, WaitsFor, StatesOf
<1> QED  BY <1>1, <1>2 DEF CallAt

\* The sysmsg of a client as a step leaves it.
LEMMA RepStep ==
  ASSUME MsgAssumption, Inv, [Next]_vars, port'.named, NEW c \in Clients, rep'[c] \notin {"none", rep[c]}
  PROVE  rep[c] = "none" /\ pc[c] \in {"opening", "iowait", "kwait"}
<1>0. rep \in [Clients -> {"none", "ok", "segs", "err"}]
  BY DEF Inv, Typed, ThreadsTyped
<1>1. ASSUME NEW d \in Clients, ClientCalls(d) \/ ClientRuns(d)
      PROVE  FALSE
  <2>1. rep' = rep \/ rep' = [rep EXCEPT ![d] = "none"]
    BY <1>1, ZenonT(60) DEF ClientCalls, ClientRuns, MsgConnect, MsgConnectDone, SendFind, SendPost, SendDone, SendMap,
         CopyDone, MapFails, IntrGone, IntrWithdraw, IntrAbort, IntrDone, AbortDone, FindBroken,
         CloneFind, ClonePost, CloneDone, ForkPort, MsgDisconnect, ShutClient, ShutDone, Return
  <2> QED  BY <1>0, <2>1
<1>2. ASSUME NEW s \in Servers,
             RecvFind(s) \/ ServerRuns(s) \/ ClosePort(s) \/ \E m \in held : ServerAnswers(s, m)
      PROVE  rep[c] = "none" /\ pc[c] \in {"opening", "iowait", "kwait"}
  <2>1. \/ RecvFind(s) \/ RecvWait(s) \/ RecvBroken(s) \/ RecvTake(s) \/ RecvNothing(s) \/ RecvReturn(s)
        \/ ReplyRuns(s) \/ DupWake(s) \/ DupHash(s) \/ ClosePort(s)
        \/ \E m \in held : ServerAnswers(s, m)
    BY <1>2, ServerAlone
  <2>2. PICK m \in held : ServerAnswers(s, m)
    BY <2>1, ZenonT(60) DEF RecvFind, RecvWait, RecvBroken, RecvTake, RecvNothing, RecvReturn, ReplyRuns, DupWake, DupHash, ClosePort
  <2>3. \/ MsgErr(s, m)
        \/ \E a \in Answers : ReplyDone(s, m, a) \/ ReplyDup(s, m, a)
    BY <2>2, ZenonT(60) DEF ServerAnswers, MsgAccept, ReplyAbort, ReplyRefused
  <2>4. /\ m.op # "ABORT" /\ ref[m.pr].state \in {"OPENING", "IOWAIT"}
        /\ \E a : rep' = [rep EXCEPT ![ref[m.pr].msg.from] = a]
    <3>1. CASE MsgErr(s, m)
      <4>1. rep' # rep
        OBVIOUS
      <4> QED  BY <3>1, <4>1 DEF MsgErr, ErrTold
    <3>2. CASE \E a \in Answers : ReplyDone(s, m, a) \/ ReplyDup(s, m, a)
      <4>1. ref[m.pr].state = "IOWAIT" /\ \E a : rep' = [rep EXCEPT ![ref[m.pr].msg.from] = a]
        BY <3>2 DEF ReplyDone, ReplyDup, Wanted
      <4>2. ref[m.pr].state \in StatesOf(m.op)
        BY HeldFrom
      <4> QED  BY <4>1, <4>2 DEF StatesOf
    <3> QED  BY <2>3, <3>1, <3>2
  <2>5. /\ ref[m.pr].msg = m /\ rep[m.from] = "none" /\ pc[m.from] \in {"opening", "iowait", "kwait"}
    BY <2>4, AnswerFinds
  <2> QED  BY <1>0, <2>4, <2>5
<1>3. ASSUME UNCHANGED rep
      PROVE  FALSE
  BY <1>3
<1>4. \/ \E d \in Clients : ClientCalls(d) \/ ClientRuns(d)
      \/ \E s \in Servers : RecvFind(s) \/ ServerRuns(s) \/ ClosePort(s) \/ \E m \in held : ServerAnswers(s, m)
      \/ UNCHANGED rep
  BY Zenon DEF Next, vars, Signal
<1> QED  BY <1>1, <1>2, <1>3, <1>4

\* The protocol holds as long as the port has its name, ...
LEMMA NamedInvariance ==
  ASSUME Polite
  PROVE  Spec => [](Typed /\ (port.named => Inv))
<1>1. Init => Typed /\ Inv
  BY MsgAssumption, InvInit DEF Inv
<1>2. Typed /\ (port.named => Inv) /\ [Next]_vars => Typed' /\ (port.named => Inv)'
  <2> SUFFICES ASSUME Typed, port.named => Inv, [Next]_vars
               PROVE  Typed' /\ (port'.named => Inv')
    OBVIOUS
  <2>1. port'.named => port.named
    BY MsgAssumption, NameTaken
  <2> QED  BY <2>1, MsgAssumption, InvStep, TypedStep
<1> QED  BY <1>1, <1>2, PTL DEF Spec

\* ... and throughout, if nobody takes it away.
LEMMA Invariance ==
  ASSUME Orderly
  PROVE  Spec => []Inv
<1>1. Init => Inv /\ NoCloser
  <2>1. Init => NoCloser
    BY DEF Init, NoCloser, Threads
  <2> QED  BY <2>1, MsgAssumption, InvInit
<1>2. Inv /\ NoCloser /\ [Next]_vars => Inv' /\ NoCloser'
  BY MsgAssumption, InvStep, NobodyCloses DEF Orderly
<1> QED  BY <1>1, <1>2, PTL DEF Spec

\* A message in the kernel's hands belongs to an allocated handle, and the
\* frame it lives in to a call that goes on: no way out of msg_send() leaves
\* a message behind in the port's queue.
THEOREM FramesStayLive ==
  ASSUME Orderly
  PROVE  Spec => []FramesLive
<1>1. Inv => FramesLive
  BY MsgAssumption, InvMeans
<1> QED  BY <1>1, Invariance, PTL

\* Whoever gets the mutex of a handle finds p_iowait at zero: each answer,
\* abort and lost race of msg_send() is taken back before p_sema is let go.
THEOREM HandlesDrained ==
  ASSUME Orderly
  PROVE  Spec => []IowaitDrained
<1>1. Inv => IowaitDrained
  BY MsgAssumption, InvMeans
<1> QED  BY <1>1, Invariance, PTL

\* A sender or a cloner that goes on without an event has been answered:
\* nobody but msg_err() and msg_reply() gives p_iowait a unit.
THEOREM WokenAreAnswered ==
  ASSUME Orderly
  PROVE  Spec => []WokenMeansAnswered
<1>1. Inv => WokenMeansAnswered
  BY MsgAssumption, InvMeans
<1> QED  BY <1>1, Invariance, PTL

\* While msg_send() copies the segments of an answer, a server is asleep at
\* p_svwait: the unit that lets him go is given after the copy.
THEOREM SegmentsStay ==
  ASSUME Orderly
  PROVE  Spec => []SegStable
<1>1. Inv => SegStable
  BY MsgAssumption, InvMeans
<1> QED  BY <1>1, Invariance, PTL

HandleExclusive == \A r \in Refs : \A c, d \in Clients : Owns(c, r) /\ Owns(d, r) => c = d

\* "Only one I/O through a port at a time": two threads never own the mutex
\* of one handle, whatever events break and whoever closes other handles.
THEOREM HandlesExclude ==
  ASSUME Orderly
  PROVE  Spec => []HandleExclusive
<1>1. Inv => HandleExclusive
  BY MsgAssumption, InvMeans DEF HandleExclusive
<1> QED  BY <1>1, Invariance, PTL

\* msg_err() and msg_reply() write into a client's sysmsg only while its call
\* waits and has no answer.
THEOREM AnswersOnce ==
  ASSUME Orderly
  PROVE  Spec => AnsweredOnce
<1>1. Inv /\ Inv' /\ [Next]_vars =>
        [\A c \in Clients : rep'[c] \notin {"none", rep[c]} =>
           rep[c] = "none" /\ pc[c] \in {"opening", "iowait", "kwait"}]_vars
  BY MsgAssumption, RepStep DEF Inv, Protocol, ServerStays
<1> QED  BY <1>1, Invariance, PTL DEF Spec, AnsweredOnce

-----------------------------------------------------------------------------
(* The references of the handles, whatever the processes do.               *)

\* The handles that queue q has a DISCONNECT of, and has it no two of one?
Byes(q) == {q[i].pr : i \in {j \in 1..Len(q) : q[j].op = "DISCONNECT"}}
Once(q) == \A i, j \in 1..Len(q) :
             q[i].op = "DISCONNECT" /\ q[j].op = "DISCONNECT" /\ q[i].pr = q[j].pr => i = j

\* Is thread t about to send the DISCONNECT of r, or to free r on receipt of it?
Ends(t, r) ==
  \/ t \in Clients /\ pc[t] = "shut" /\ R(t) = r
  \/ t \in Servers /\ pc[t] = "rcvd" /\ got[t].op = "DISCONNECT" /\ got[t].pr = r

CountOf(r) ==
  /\ ref[r].refs = Cardinality(SlotsFor(r))
  /\ ~ref[r].alloc => SlotsFor(r) = {}

EndOf(r) ==
  /\ r \in Byes(port.queue) \/ (\E t \in Threads : Ends(t, r)) =>
       ref[r].alloc /\ SlotsFor(r) = {}
  /\ \A t \in Threads : Ends(t, r) => r \notin Byes(port.queue)
  /\ \A t, u \in Threads : Ends(t, r) /\ Ends(u, r) => t = u

FreshOf(c) == Opens(c) => SlotsFor(NewOf(c)) = {my[c].slot}

CountInv ==
  /\ SlotsKept /\ Once(port.queue)
  /\ \A r \in Refs : CountOf(r) /\ EndOf(r)
  /\ \A c \in Clients : FreshOf(c)

\* What a step leaves of a handle that it has nothing to do with.
RefKept(r)  == ref'[r].refs = ref[r].refs /\ ref'[r].alloc = ref[r].alloc
OverKept(r) == /\ r \in Byes(port'.queue) => r \in Byes(port.queue)
               /\ \A t \in Threads : Ends(t, r)' => Ends(t, r)

\* Its count holds on.
LEMMA HandleSame ==
  ASSUME NEW r \in Refs, CountOf(r), EndOf(r), RefKept(r), OverKept(r), SlotsFor(r)' = SlotsFor(r)
  PROVE  CountOf(r)' /\ EndOf(r)'
<1>1. CountOf(r)'
  BY DEF CountOf, RefKept
<1>2. EndOf(r)'
  <2>1. r \in Byes(port.queue)' => r \in Byes(port.queue)
    BY DEF OverKept
  <2>2. \A t \in Threads : Ends(t, r)' => Ends(t, r)
    BY DEF OverKept
  <2>3. ref'[r].alloc = ref[r].alloc
    BY DEF RefKept
  <2> QED  BY <2>1, <2>2, <2>3 DEF EndOf, Threads
<1> QED  BY <1>1, <1>2

\* A client's step on handle z.
LEMMA CountMove ==
  ASSUME MsgAssumption, Typed, CountInv, NEW c \in Clients, OthersStay(c), NEW z \in Refs,
         SlotsKept', Once(port'.queue),
         \A r \in Refs \ {z} : RefKept(r) /\ OverKept(r) /\ SlotsFor(r)' = SlotsFor(r),
         CountOf(z)', EndOf(z)',
         \A d \in Clients : d # c /\ Opens(d) => NewOf(d) # z,
         FreshOf(c)'
  PROVE  CountInv'
<1>1. \A r \in Refs : CountOf(r)' /\ EndOf(r)'
  BY HandleSame DEF CountInv
<1>2. ASSUME NEW d \in Clients
      PROVE  FreshOf(d)'
  <2>1. CASE d = c
    BY <2>1
  <2>2. CASE d # c
    <3>1. /\ Opens(d)' <=> Opens(d)
          /\ NewOf(d)' = NewOf(d) /\ my'[d].slot = my[d].slot
      BY <2>2 DEF OthersStay, Opens, NewOf, R
    <3>2. Opens(d) => NewOf(d) \in Refs \ {z}
      BY <2>2 DEF Typed, LocalsSet, Opens, NewOf
    <3>3. FreshOf(d)
      BY DEF CountInv
    <3>4. Opens(d) => SlotsFor(NewOf(d))' = SlotsFor(NewOf(d))
      <4>1. ASSUME Opens(d)
            PROVE  SlotsFor(NewOf(d))' = SlotsFor(NewOf(d))
        <5>1. PICK r : r = NewOf(d)
          OBVIOUS
        <5>2. SlotsFor(r)' = SlotsFor(r)
          BY <3>2, <4>1, <5>1
        <5>3. SlotsFor(NewOf(d))' = SlotsFor(r)'
          BY <3>1, <5>1 DEF SlotsFor, Makes
        <5> QED  BY <5>1, <5>2, <5>3
      <4> QED  BY <4>1
    <3> QED  BY <3>1, <3>3, <3>4 DEF FreshOf
  <2> QED  BY <2>1, <2>2
<1> QED  BY <1>1, <1>2 DEF CountInv

\* A step that is on none.
LEMMA CountKept ==
  ASSUME Typed, CountInv,
         \A d \in Clients : Opens(d)' => Opens(d) /\ NewOf(d)' = NewOf(d) /\ my'[d].slot = my[d].slot,
         SlotsKept', Once(port'.queue),
         \A r \in Refs : RefKept(r) /\ OverKept(r) /\ SlotsFor(r)' = SlotsFor(r)
  PROVE  CountInv'
<1>1. \A r \in Refs : CountOf(r)' /\ EndOf(r)'
  BY HandleSame DEF CountInv
<1>2. ASSUME NEW d \in Clients, Opens(d)'
      PROVE  SlotsFor(NewOf(d))' = {my'[d].slot}
  <2>1. Opens(d) /\ NewOf(d)' = NewOf(d) /\ my'[d].slot = my[d].slot
    BY <1>2
  <2>2. PICK r : r = NewOf(d)
    OBVIOUS
  <2>3. r \in Refs
    BY <2>1, <2>2 DEF Typed, LocalsSet, Opens, NewOf
  <2>4. SlotsFor(r)' = SlotsFor(r) /\ SlotsFor(r) = {my[d].slot}
    BY <2>1, <2>2, <2>3 DEF CountInv, FreshOf
  <2>5. SlotsFor(NewOf(d))' = SlotsFor(r)'
    BY <2>1, <2>2 DEF SlotsFor, Makes
  <2> QED  BY <2>1, <2>4, <2>5
<1> QED  BY <1>1, <1>2 DEF CountInv, FreshOf

\* The slots of a handle, after a client's step.
LEMMA SlotsForSame ==
  ASSUME NEW c \in Clients, OthersStay(c), NEW r \in Refs,
         \A k \in Slots : slots'[k] = r <=> slots[k] = r,
         \A k \in Slots : Makes(c, k, r)' <=> Makes(c, k, r)
  PROVE  SlotsFor(r)' = SlotsFor(r)
<1>1. \A k \in Slots, d \in Clients : Makes(d, k, r)' <=> Makes(d, k, r)
  BY DEF OthersStay, Makes, Opens, NewOf, R
<1> QED  BY <1>1 DEF SlotsFor

\* The client's own thread apart, nobody starts to end a handle in its step.
LEMMA OverSame ==
  ASSUME MsgAssumption, NEW c \in Clients, OthersStay(c), NEW r \in Refs,
         r \in Byes(port'.queue) => r \in Byes(port.queue),
         Ends(c, r)' => Ends(c, r)
  PROVE  OverKept(r)
<1>1. \A d \in Clients : d \notin Servers
  BY DEF MsgAssumption
<1>2. ASSUME NEW t \in Threads, t # c
      PROVE  Ends(t, r)' <=> Ends(t, r)
  BY <1>1, <1>2 DEF OthersStay, Ends, R, Threads
<1> QED  BY <1>2 DEF OverKept

\* A slot that is taken or let go.
LEMMA SlotsMove ==
  ASSUME MsgAssumption, Typed, SlotsKept, NEW c \in Clients, OthersStay(c),
         \/ slots' = slots
         \/ \E j \in Slots : \E q : /\ slots' = [slots EXCEPT ![j] = q]
                                    /\ slots[j] # Reserved \/ (Reserving(c) /\ my[c].slot = j),
         Reserving(c)' =>
           /\ my'[c].slot \in Slots /\ slots'[my'[c].slot] = Reserved
           /\ (Reserving(c) /\ my'[c].slot = my[c].slot) \/ slots[my'[c].slot] # Reserved
  PROVE  SlotsKept'
<1>1. \A d \in Clients : d # c => (Reserving(d)' <=> Reserving(d)) /\ my'[d] = my[d]
  BY DEF OthersStay, Reserving
<1>2. \A d \in Clients : Reserving(d) => my[d].slot \in Slots /\ slots[my[d].slot] = Reserved
  BY DEF Typed, LocalsSet, Reserving, SlotsKept
<1>3. slots \in [Slots -> Refs \cup {Null, Reserved}]
  BY DEF Typed, KernelTyped
<1>4. \A d \in Clients : d # c /\ Reserving(d) => slots'[my[d].slot] = Reserved
  <2>1. CASE slots' = slots
    BY <1>2, <2>1
  <2>2. ASSUME NEW j \in Slots, NEW q, slots' = [slots EXCEPT ![j] = q],
               slots[j] # Reserved \/ (Reserving(c) /\ my[c].slot = j)
        PROVE  \A d \in Clients : d # c /\ Reserving(d) => slots'[my[d].slot] = Reserved
    BY <1>2, <1>3, <2>2 DEF SlotsKept
  <2> QED  BY <2>1, <2>2
<1>5. \A d \in Clients : d # c /\ Reserving(d) /\ Reserving(c)' => my[d].slot # my'[c].slot
  BY <1>2 DEF SlotsKept
<1>6. \A d \in Clients : Reserving(d)' =>
        /\ slots'[my'[d].slot] = Reserved
        /\ \A e \in Clients : Reserving(e)' /\ e # d => my'[e].slot # my'[d].slot
  BY <1>1, <1>4, <1>5 DEF SlotsKept
<1> QED  BY <1>6 DEF SlotsKept

\* Queue p is what is left of q: at(i) tells where the message was.
LEMMA ByesLess ==
  ASSUME NEW p, NEW q, NEW at,
         \A i \in 1..Len(p) : at[i] \in 1..Len(q) /\ p[i] = q[at[i]],
         \A i, j \in 1..Len(p) : at[i] = at[j] => i = j
  PROVE  /\ \A r : r \in Byes(p) => r \in Byes(q)
         /\ Once(q) => Once(p)
<1>1. ASSUME Once(q)
      PROVE  Once(p)
  <2> SUFFICES ASSUME NEW i \in 1..Len(p), NEW j \in 1..Len(p),
                      p[i].op = "DISCONNECT", p[j].op = "DISCONNECT", p[i].pr = p[j].pr
               PROVE  i = j
    BY Zenon DEF Once
  <2>1. \A a, b \in 1..Len(q) : q[a].op = "DISCONNECT" /\ q[b].op = "DISCONNECT" /\ q[a].pr = q[b].pr => a = b
    BY <1>1, Zenon DEF Once
  <2>2. at[i] \in 1..Len(q) /\ at[j] \in 1..Len(q) /\ p[i] = q[at[i]] /\ p[j] = q[at[j]]
    OBVIOUS
  <2>3. at[i] = at[j]
    BY <2>1, <2>2, Zenon
  <2> QED  BY <2>3
<1>2. \A r : r \in Byes(p) => r \in Byes(q)
  BY DEF Byes
<1> QED  BY <1>1, <1>2

\* One that a receiver has taken the first message off ...
LEMMA ByesTail ==
  ASSUME NEW q \in Seq(Sendable), q # << >>
  PROVE  /\ \A r : r \in Byes(Tail(q)) => r \in Byes(q)
         /\ Once(q) => Once(Tail(q))
         /\ Head(q).op = "DISCONNECT" => Head(q).pr \in Byes(q)
         /\ Once(q) /\ Head(q).op = "DISCONNECT" => Head(q).pr \notin Byes(Tail(q))
<1>1. PICK p, n : p = Tail(q) /\ n = Len(q)
  OBVIOUS
<1>2. /\ n \in Nat /\ n > 0 /\ Len(p) = n - 1 /\ Head(q) = q[1] /\ 1 \in 1..n
      /\ \A i \in 1..(n - 1) : p[i] = q[i + 1] /\ i + 1 \in 1..n /\ i + 1 # 1
  BY <1>1
<1>3. PICK at : at = [i \in 1..(n - 1) |-> i + 1]
  OBVIOUS
<1>4. \A i \in 1..Len(p) : at[i] \in 1..Len(q) /\ p[i] = q[at[i]]
  BY <1>1, <1>2, <1>3
<1>5. \A i, j \in 1..Len(p) : at[i] = at[j] => i = j
  BY <1>2, <1>3
<1>6. (\A r : r \in Byes(p) => r \in Byes(q)) /\ (Once(q) => Once(p))
  BY <1>4, <1>5, ByesLess
<1>7. Head(q).op = "DISCONNECT" => Head(q).pr \in Byes(q)
  BY <1>1, <1>2 DEF Byes
<1>8. Once(q) /\ Head(q).op = "DISCONNECT" => Head(q).pr \notin Byes(p)
  <2> SUFFICES ASSUME Once(q), q[1].op = "DISCONNECT", q[1].pr \in Byes(p)
               PROVE  FALSE
    BY <1>2
  <2>1. PICK i \in 1..Len(p) : p[i].op = "DISCONNECT" /\ p[i].pr = q[1].pr
    BY DEF Byes
  <2>2. i + 1 \in 1..n /\ q[i + 1] = p[i] /\ i + 1 # 1
    BY <1>2
  <2> QED  BY <1>1, <1>2, <2>1, <2>2 DEF Once
<1> QED  BY <1>1, <1>6, <1>7, <1>8

\* ... or a client any of them, ...
LEMMA ByesRemove ==
  ASSUME NEW q \in Seq(Sendable), NEW k \in 1..Len(q)
  PROVE  /\ \A r : r \in Byes(RemoveAt(q, k)) => r \in Byes(q)
         /\ Once(q) => Once(RemoveAt(q, k))
<1>1. PICK p, n : p = RemoveAt(q, k) /\ n = Len(q)
  OBVIOUS
<1>2. /\ Len(p) = n - 1 /\ n \in Nat /\ k \in 1..n /\ k \in Nat
      /\ \A i \in 1..(n - 1) : p[i] = IF i < k THEN q[i] ELSE q[i + 1]
  BY <1>1, RemoveAtIs
<1>3. PICK at : at = [i \in 1..(n - 1) |-> IF i < k THEN i ELSE i + 1]
  OBVIOUS
<1>4. \A i \in 1..Len(p) : at[i] \in 1..Len(q) /\ p[i] = q[at[i]]
  BY <1>1, <1>2, <1>3
<1>5. \A i, j \in 1..Len(p) : at[i] = at[j] => i = j
  BY <1>2, <1>3
<1>6. (\A r : r \in Byes(p) => r \in Byes(q)) /\ (Once(q) => Once(p))
  BY <1>4, <1>5, ByesLess
<1> QED  BY <1>1, <1>6

\* ... and one that inline_lqueue_msg() has put a message onto.
LEMMA ByesAppend ==
  ASSUME NEW q \in Seq(Sendable), NEW m \in Sendable
  PROVE  /\ \A r : r \in Byes(Append(q, m)) => r \in Byes(q) \/ (m.op = "DISCONNECT" /\ r = m.pr)
         /\ Once(q) /\ (m.op = "DISCONNECT" => m.pr \notin Byes(q)) => Once(Append(q, m))
<1>1. PICK p, n : p = Append(q, m) /\ n = Len(q)
  OBVIOUS
<1>2. /\ n \in Nat /\ Len(p) = n + 1 /\ p[n + 1] = m
      /\ \A i \in 1..n : p[i] = q[i]
      /\ \A i \in 1..(n + 1) : i \in 1..n \/ i = n + 1
  BY <1>1
<1>3. \A r : r \in Byes(p) => r \in Byes(q) \/ (m.op = "DISCONNECT" /\ r = m.pr)
  BY <1>1, <1>2 DEF Byes
<1>4. ASSUME Once(q), m.op = "DISCONNECT" => m.pr \notin Byes(q)
      PROVE  Once(p)
  <2>1. \A i \in 1..n : q[i].op = "DISCONNECT" => q[i].pr \in Byes(q)
    BY <1>1 DEF Byes
  <2> SUFFICES ASSUME NEW i \in 1..(n + 1), NEW j \in 1..(n + 1),
                      p[i].op = "DISCONNECT", p[j].op = "DISCONNECT", p[i].pr = p[j].pr
               PROVE  i = j
    BY <1>2 DEF Once
  <2>2. CASE i \in 1..n /\ j \in 1..n
    BY <1>1, <1>2, <1>4, <2>2 DEF Once
  <2>3. CASE i = n + 1 /\ j \in 1..n
    BY <1>2, <1>4, <2>1, <2>3
  <2>4. CASE i \in 1..n /\ j = n + 1
    BY <1>2, <1>4, <2>1, <2>4
  <2>5. CASE i = n + 1 /\ j = n + 1
    BY <2>5
  <2> QED  BY <1>2, <2>2, <2>3, <2>4, <2>5
<1> QED  BY <1>1, <1>3, <1>4

-----------------------------------------------------------------------------
(* The references, when a client runs.                                     *)

\* What a step does to the queue that is no concern of those that end.
QueueQuiet ==
  \/ port'.queue = port.queue
  \/ \E m \in Sendable : m.op # "DISCONNECT" /\ port'.queue = Append(port.queue, m)
  \/ \E k \in 1..Len(port.queue) : port'.queue = RemoveAt(port.queue, k)

LEMMA QuietQueue ==
  ASSUME Typed, QueueQuiet, Once(port.queue)
  PROVE  Once(port'.queue) /\ \A r : r \in Byes(port'.queue) => r \in Byes(port.queue)
<1>1. PICK q : q = port.queue
  OBVIOUS
<1>2. q \in Seq(Sendable)
  BY <1>1 DEF Typed, KernelTyped, WidePort
<1>3. CASE port'.queue = q
  BY <1>1, <1>3
<1>4. ASSUME NEW m \in Sendable, m.op # "DISCONNECT", port'.queue = Append(q, m)
      PROVE  Once(port'.queue) /\ \A r : r \in Byes(port'.queue) => r \in Byes(q)
  <2>1. /\ \A r : r \in Byes(Append(q, m)) => r \in Byes(q) \/ (m.op = "DISCONNECT" /\ r = m.pr)
        /\ Once(q) /\ (m.op = "DISCONNECT" => m.pr \notin Byes(q)) => Once(Append(q, m))
    BY <1>2, ByesAppend
  <2>2. \A r : r \in Byes(Append(q, m)) => r \in Byes(q)
    BY <1>4, <2>1
  <2>3. Once(Append(q, m))
    BY <1>1, <1>4, <2>1
  <2> QED  BY <1>4, <2>2, <2>3
<1>5. ASSUME NEW k \in 1..Len(q), port'.queue = RemoveAt(q, k)
      PROVE  Once(port'.queue) /\ \A r : r \in Byes(port'.queue) => r \in Byes(q)
  BY <1>1, <1>2, <1>5, ByesRemove
<1> QED  BY <1>1, <1>3, <1>4, <1>5 DEF QueueQuiet

\* A client that neither makes a handle nor gives one up.
LEMMA ClientCountKept ==
  ASSUME MsgAssumption, Typed, CountInv, NEW c \in Clients, OthersStay(c),
         ~Opens(c), ~Opens(c)', pc'[c] # "shut",
         \A r \in Refs : RefKept(r),
         \A k \in Slots : slots'[k] = slots[k] \/ (slots'[k] \notin Refs /\ slots[k] \notin Refs),
         QueueQuiet, SlotsKept'
  PROVE  CountInv'
<1>1. c \notin Servers
  BY DEF MsgAssumption
<1>2. Once(port'.queue) /\ \A r : r \in Byes(port'.queue) => r \in Byes(port.queue)
  BY QuietQueue DEF CountInv
<1>3. \A r \in Refs : Ends(c, r)' => Ends(c, r)
  BY <1>1 DEF Ends
<1>4. \A r \in Refs : OverKept(r)
  BY <1>2, <1>3, OverSame
<1>5. \A r \in Refs : SlotsFor(r)' = SlotsFor(r)
  <2> SUFFICES ASSUME NEW r \in Refs
               PROVE  SlotsFor(r)' = SlotsFor(r)
    OBVIOUS
  <2>1. \A k \in Slots : slots'[k] = r <=> slots[k] = r
    OBVIOUS
  <2>2. \A k \in Slots : Makes(c, k, r)' <=> Makes(c, k, r)
    BY DEF Makes
  <2> QED  BY <2>1, <2>2, SlotsForSame
<1>6. \A d \in Clients : Opens(d)' => Opens(d) /\ NewOf(d)' = NewOf(d) /\ my'[d].slot = my[d].slot
  BY DEF OthersStay, Opens, NewOf, R
<1> QED  BY <1>2, <1>4, <1>5, <1>6, CountKept

\* Out() and the like leave the count.
LEMMA CountsStay ==
  \A x \in WideRef :
    /\ \A n \in BOOLEAN : Out(x, n).refs = x.refs /\ Out(x, n).alloc = x.alloc
    /\ \A n \in BOOLEAN, st \in States : LET y == [x EXCEPT !.state = st] IN
         Out(y, n).refs = x.refs /\ Out(y, n).alloc = x.alloc
    /\ \A n \in BOOLEAN : Out(TakeBack(x), n).refs = x.refs /\ Out(TakeBack(x), n).alloc = x.alloc
    /\ CutOff(x).refs = x.refs /\ CutOff(x).alloc = x.alloc
BY DEF Out, TakeBack, CutOff, WideRef

\* The steps of msg_send() after the first, ...
LEMMA SendsCount ==
  ASSUME MsgAssumption, Typed, CountInv, NEW c \in Clients,
         \/ SendPost(c) \/ SendDone(c) \/ SendMap(c) \/ CopyDone(c) \/ MapFails(c)
         \/ IntrGone(c) \/ IntrWithdraw(c) \/ IntrAbort(c) \/ IntrDone(c) \/ AbortDone(c) \/ ShutDone(c)
  PROVE  CountInv'
<1>0. /\ pc \in [Threads -> ClientPcs \cup ServerPcs] /\ c \in Threads /\ my \in [Clients -> Local]
      /\ ref \in [Refs -> WideRef] /\ port \in WidePort /\ my[c].nseg \in BOOLEAN
  BY DEF Typed, ThreadsTyped, KernelTyped, Threads, Local
<1>1. OthersStay(c)
  BY ClientAlone, Zenon DEF ClientRuns
<1>2. pc[c] \in {"find", "iowait", "copy", "abwait", "closing"}
  BY ZenonT(60) DEF SendPost, SendDone, SendMap, CopyDone, MapFails, IntrGone, IntrWithdraw, IntrAbort, IntrDone,
       AbortDone, ShutDone, Interrupted, Awake, Broken
<1>3. \E l \in {"out", "iowait", "copy", "abwait"} : Goto(c, l)
  BY ZenonT(60) DEF SendPost, SendDone, SendMap, CopyDone, MapFails, IntrGone, IntrWithdraw, IntrAbort, IntrDone,
       AbortDone, ShutDone, Return
<1>4. pc'[c] \in {"out", "iowait", "copy", "abwait"}
  BY <1>0, <1>3 DEF Goto
<1>5. slots' = slots
  BY ZenonT(60) DEF SendPost, SendDone, SendMap, CopyDone, MapFails, IntrGone, IntrWithdraw, IntrAbort, IntrDone,
       AbortDone, ShutDone
<1>6. R(c) \in Refs /\ ref[R(c)] \in WideRef
  BY <1>0, <1>2 DEF Typed, LocalsSet
<1>7. \A r \in Refs : RefKept(r)
  <2>1. CASE \E n \in BOOLEAN : ref' = [ref EXCEPT ![R(c)] = Out(@, n)]
    BY <1>0, <1>6, <2>1, CountsStay DEF RefKept
  <2>2. CASE \E n \in BOOLEAN : ref' = [ref EXCEPT ![R(c)] = Out([@ EXCEPT !.state = "IODONE"], n)]
    <3>1. "IODONE" \in States
      BY DEF States
    <3> QED  BY <1>0, <1>6, <2>2, <3>1, CountsStay DEF RefKept
  <2>3. CASE \E n \in BOOLEAN : ref' = [ref EXCEPT ![R(c)] = Out(TakeBack(@), n)]
    BY <1>0, <1>6, <2>3, CountsStay DEF RefKept
  <2>4. CASE \E st \in States : ref' = [ref EXCEPT ![R(c)].state = st, ![R(c)].iowait = PSema(@, c)]
    BY <1>0, <1>6, <2>4 DEF RefKept, WideRef
  <2>5. CASE ref' = [ref EXCEPT ![R(c)].sema = VSema(@)]
    BY <1>0, <1>6, <2>5 DEF RefKept, WideRef
  <2>6. CASE ref' = ref
    BY <2>6 DEF RefKept
  <2>7. "IOWAIT" \in States /\ "ABWAIT" \in States
    BY DEF States
  <2>8. \/ \E n \in BOOLEAN : ref' = [ref EXCEPT ![R(c)] = Out(@, n)]
        \/ \E n \in BOOLEAN : ref' = [ref EXCEPT ![R(c)] = Out([@ EXCEPT !.state = "IODONE"], n)]
        \/ \E n \in BOOLEAN : ref' = [ref EXCEPT ![R(c)] = Out(TakeBack(@), n)]
        \/ \E st \in States : ref' = [ref EXCEPT ![R(c)].state = st, ![R(c)].iowait = PSema(@, c)]
        \/ ref' = [ref EXCEPT ![R(c)].sema = VSema(@)]
        \/ ref' = ref
    BY <1>0, <2>7, ZenonT(60) DEF SendPost, SendDone, SendMap, CopyDone, MapFails, IntrGone, IntrWithdraw, IntrAbort,
       IntrDone, AbortDone, ShutDone
  <2> QED  BY <2>1, <2>2, <2>3, <2>4, <2>5, <2>6, <2>8
<1>8. QueueQuiet
  <2>1. CASE IntrWithdraw(c)
    <3>1. PlaceOf(c) \in 1..Len(port.queue)
      BY <2>1 DEF IntrWithdraw, InQueue, PlaceOf
    <3>2. port'.queue = RemoveAt(port.queue, PlaceOf(c))
      BY <1>0, <2>1 DEF IntrWithdraw, WidePort
    <3> QED  BY <3>1, <3>2 DEF QueueQuiet
  <2>2. CASE IntrAbort(c)
    <3>1. PICK m : m = Message("ABORT", c, R(c), Null, FALSE)
      OBVIOUS
    <3>2. m \in Sendable /\ m.op # "DISCONNECT"
      BY <1>6, <3>1, SentTyped DEF Message
    <3>3. port'.queue = Append(port.queue, m)
      BY <1>0, <2>2, <3>1 DEF IntrAbort, Enqueue, WidePort
    <3> QED  BY <3>2, <3>3 DEF QueueQuiet
  <2>3. CASE SendPost(c)
    <3>1. PICK m : m = Message("IO", c, R(c), Null, my[c].kind = "write")
      OBVIOUS
    <3>2. m \in Sendable /\ m.op # "DISCONNECT"
      <4>1. (my[c].kind = "write") \in BOOLEAN
        OBVIOUS
      <4> QED  BY <1>6, <3>1, <4>1, SentTyped DEF Message
    <3>3. port' = port \/ port' = Enqueue(port, m)
      BY <2>3, <3>1 DEF SendPost
    <3>4. port'.queue = port.queue \/ port'.queue = Append(port.queue, m)
      BY <1>0, <3>3 DEF Enqueue, WidePort
    <3> QED  BY <3>2, <3>4 DEF QueueQuiet
  <2>4. CASE ~IntrWithdraw(c) /\ ~IntrAbort(c) /\ ~SendPost(c)
    <3>1. port' = port
      BY <2>4, ZenonT(60) DEF SendDone, SendMap, CopyDone, MapFails, IntrGone, IntrDone, AbortDone, ShutDone
    <3> QED  BY <3>1 DEF QueueQuiet
  <2> QED  BY <2>1, <2>2, <2>3, <2>4
<1>9. SlotsKept'
  <2>1. ~Reserving(c)'
    BY <1>4 DEF Reserving
  <2> QED  BY <1>1, <1>5, <2>1, SlotsMove DEF CountInv
<1>10. ~Opens(c) /\ ~Opens(c)' /\ pc'[c] # "shut"
  BY <1>2, <1>4 DEF Opens
<1> QED  BY <1>1, <1>5, <1>7, <1>8, <1>9, <1>10, ClientCountKept

\* ... find_portref() that is begun or broken, and dup_port() with the server gone.
LEMMA FindsCount ==
  ASSUME MsgAssumption, Typed, CountInv, NEW c \in Clients,
         \/ \E k \in Slots, kd \in Kinds : SendFind(c, k, kd)
         \/ \E k, j \in Slots : CloneFind(c, k, j)
         \/ FindBroken(c)
         \/ \E n \in Refs : ClonePost(c, n) /\ ~X(c).port
  PROVE  CountInv'
<1>0. /\ pc \in [Threads -> ClientPcs \cup ServerPcs] /\ c \in Threads /\ my \in [Clients -> Local]
      /\ ref \in [Refs -> WideRef] /\ port \in WidePort /\ slots \in [Slots -> Refs \cup {Null, Reserved}]
  BY DEF Typed, ThreadsTyped, KernelTyped, Threads
<1>1. OthersStay(c)
  BY ClientAlone, Zenon DEF ClientRuns, ClientCalls
<1>2. ASSUME NEW k \in Slots, NEW kd \in Kinds, SendFind(c, k, kd)
      PROVE  CountInv'
  <2>0. /\ slots[k] \in Refs /\ pc[c] = "out" /\ Goto(c, "find") /\ slots' = slots /\ port' = port
        /\ ref' = [ref EXCEPT ![slots[k]].sema = PSema(@, c)]
    BY <1>2, Zenon DEF SendFind, InService
  <2>1. slots[k] \in Refs /\ pc[c] = "out" /\ pc'[c] = "find" /\ slots' = slots /\ port' = port
    BY <1>0, <2>0 DEF Goto
  <2>2. \A r \in Refs : RefKept(r)
    BY <1>0, <2>0 DEF RefKept, WideRef
  <2>3. QueueQuiet
    BY <2>1 DEF QueueQuiet
  <2>4. SlotsKept'
    <3>1. ~Reserving(c)'
      BY <2>1 DEF Reserving
    <3> QED  BY <1>1, <2>1, <3>1, SlotsMove DEF CountInv
  <2>5. ~Opens(c) /\ ~Opens(c)' /\ pc'[c] # "shut"
    BY <2>1 DEF Opens
  <2> QED  BY <1>1, <2>1, <2>2, <2>3, <2>4, <2>5, ClientCountKept
<1>3. ASSUME NEW k \in Slots, NEW j \in Slots, CloneFind(c, k, j)
      PROVE  CountInv'
  <2>0. /\ slots[k] \in Refs /\ pc[c] = "out" /\ Goto(c, "cfind") /\ port' = port
        /\ slots' = [slots EXCEPT ![j] = Reserved] /\ slots[j] = Null
        /\ ref' = [ref EXCEPT ![slots[k]].sema = PSema(@, c)]
        /\ my' = [my EXCEPT ![c] = [NoCall EXCEPT !.slot = j, !.pr = slots[k]]]
    BY <1>3, Zenon DEF CloneFind, InService, FreeSlot
  <2>1. /\ slots[k] \in Refs /\ pc[c] = "out" /\ pc'[c] = "cfind" /\ port' = port
        /\ slots' = [slots EXCEPT ![j] = Reserved] /\ slots[j] = Null /\ my'[c].slot = j
    <3>1. PICK y : y = [NoCall EXCEPT !.slot = j, !.pr = slots[k]]
      OBVIOUS
    <3>2. y.slot = j
      BY <3>1 DEF NoCall
    <3>3. my'[c] = y
      BY <1>0, <2>0, <3>1
    <3> QED  BY <1>0, <2>0, <3>2, <3>3 DEF Goto
  <2>2. \A r \in Refs : RefKept(r)
    BY <1>0, <2>0 DEF RefKept, WideRef
  <2>3. QueueQuiet
    BY <2>1 DEF QueueQuiet
  <2>4. SlotsKept'
    <3>1. slots[j] # Reserved /\ slots'[j] = Reserved
      BY <1>0, <2>1 DEF MsgAssumption
    <3>2. \E i \in Slots : \E q : /\ slots' = [slots EXCEPT ![i] = q]
                                  /\ slots[i] # Reserved \/ (Reserving(c) /\ my[c].slot = i)
      BY <2>1, <3>1
    <3> QED  BY <1>1, <2>1, <3>1, <3>2, SlotsMove DEF CountInv
  <2>5. ~Opens(c) /\ ~Opens(c)' /\ pc'[c] # "shut"
    BY <2>1 DEF Opens
  <2>6. \A i \in Slots : slots'[i] = slots[i] \/ (slots'[i] \notin Refs /\ slots[i] \notin Refs)
    BY <1>0, <2>1 DEF MsgAssumption
  <2> QED  BY <1>1, <2>2, <2>3, <2>4, <2>5, <2>6, ClientCountKept
<1>4. ASSUME pc[c] \in {"find", "cfind"}, pc'[c] = "out", \A r \in Refs : RefKept(r), port' = port,
             \/ slots' = slots
             \/ pc[c] = "cfind" /\ slots' = [slots EXCEPT ![my[c].slot] = Null]
      PROVE  CountInv'
  <2>1. CASE slots' = slots
    <3>1. SlotsKept'
      <4>1. ~Reserving(c)'
        BY <1>4 DEF Reserving
      <4> QED  BY <1>1, <2>1, <4>1, SlotsMove DEF CountInv
    <3>2. ~Opens(c) /\ ~Opens(c)' /\ pc'[c] # "shut" /\ QueueQuiet
      BY <1>4 DEF Opens, QueueQuiet
    <3> QED  BY <1>1, <1>4, <2>1, <3>1, <3>2, ClientCountKept
  <2>2. CASE pc[c] = "cfind" /\ slots' = [slots EXCEPT ![my[c].slot] = Null]
    <3>1. my[c].slot \in Slots /\ Reserving(c)
      BY <2>2 DEF Typed, LocalsSet, Reserving
    <3>2. slots[my[c].slot] = Reserved
      BY <3>1 DEF CountInv, SlotsKept
    <3>3. SlotsKept'
      <4>1. ~Reserving(c)'
        BY <1>4 DEF Reserving
      <4>2. \E i \in Slots : \E q : /\ slots' = [slots EXCEPT ![i] = q]
                                    /\ slots[i] # Reserved \/ (Reserving(c) /\ my[c].slot = i)
        BY <2>2, <3>1
      <4> QED  BY <1>1, <4>1, <4>2, SlotsMove DEF CountInv
    <3>4. ~Opens(c) /\ ~Opens(c)' /\ pc'[c] # "shut" /\ QueueQuiet
      BY <1>4 DEF Opens, QueueQuiet
    <3>5. \A i \in Slots : slots'[i] = slots[i] \/ (slots'[i] \notin Refs /\ slots[i] \notin Refs)
      BY <1>0, <2>2, <3>1, <3>2 DEF MsgAssumption
    <3> QED  BY <1>1, <1>4, <3>3, <3>4, <3>5, ClientCountKept
  <2> QED  BY <1>4, <2>1, <2>2
<1>5. ASSUME FindBroken(c)
      PROVE  CountInv'
  <2>1. pc[c] \in {"find", "cfind"} /\ pc'[c] = "out" /\ port' = port /\ ref' = ref
    BY <1>0, <1>5 DEF FindBroken, Broken, Return, Goto
  <2>2. slots' = slots \/ (pc[c] = "cfind" /\ slots' = [slots EXCEPT ![my[c].slot] = Null])
    BY <1>5, Zenon DEF FindBroken, Broken
  <2>3. \A r \in Refs : RefKept(r)
    BY <2>1 DEF RefKept
  <2> QED  BY <1>4, <2>1, <2>2, <2>3
<1>6. ASSUME NEW n \in Refs, ClonePost(c, n), ~X(c).port
      PROVE  CountInv'
  <2>1. /\ pc[c] = "cfind" /\ pc'[c] = "out" /\ port' = port
        /\ slots' = [slots EXCEPT ![my[c].slot] = Null]
    BY <1>0, <1>6 DEF ClonePost, Awake, Return, Goto
  <2>2. R(c) \in Refs /\ ref' = [ref EXCEPT ![R(c)].sema = VSema(@)]
    BY <1>6, <2>1 DEF ClonePost, Typed, LocalsSet
  <2>3. \A r \in Refs : RefKept(r)
    BY <1>0, <2>2 DEF RefKept, WideRef
  <2> QED  BY <1>4, <2>1, <2>3
<1> QED  BY <1>2, <1>3, <1>5, <1>6

\* A handle that nobody holds is nobody's.
LEMMA NobodyOpens ==
  ASSUME Typed, CountInv, NEW r \in Refs, NEW d \in Clients, Opens(d), NewOf(d) = r
  PROVE  my[d].slot \in SlotsFor(r) /\ my[d].slot \in Slots /\ slots[my[d].slot] = Reserved
<1>1. my[d].slot \in Slots /\ Reserving(d)
  BY DEF Typed, LocalsSet, Opens, Reserving
<1>2. slots[my[d].slot] = Reserved
  BY <1>1 DEF CountInv, SlotsKept
<1> QED  BY <1>1, <1>2 DEF SlotsFor, Makes

\* A handle is made, and slot k is reserved for it.
LEMMA OpenCounts ==
  ASSUME MsgAssumption, Typed, CountInv, NEW c \in Clients, OthersStay(c), NEW z \in Refs, NEW k \in Slots,
         ~Opens(c), Opens(c)', NewOf(c)' = z, my'[c].slot = k,
         ~ref[z].alloc, ref'[z].alloc, ref'[z].refs = 1,
         \A r \in Refs \ {z} : RefKept(r),
         \A j \in Slots : slots'[j] = slots[j] \/ (slots'[j] \notin Refs /\ slots[j] \notin Refs),
         QueueQuiet, SlotsKept'
  PROVE  CountInv'
<1>1. Once(port'.queue) /\ \A r : r \in Byes(port'.queue) => r \in Byes(port.queue)
  BY QuietQueue DEF CountInv
<1>2. \A r \in Refs : OverKept(r)
  <2>1. pc'[c] # "shut" /\ pc'[c] # "rcvd"
    BY DEF Opens
  <2>2. \A r \in Refs : Ends(c, r)' => Ends(c, r)
    BY <2>1 DEF Ends
  <2> QED  BY <1>1, <2>2, OverSame
<1>3. ASSUME NEW r \in Refs \ {z}
      PROVE  SlotsFor(r)' = SlotsFor(r)
  <2>1. \A j \in Slots : slots'[j] = r <=> slots[j] = r
    OBVIOUS
  <2>2. \A j \in Slots : Makes(c, j, r)' <=> Makes(c, j, r)
    BY DEF Makes
  <2> QED  BY <2>1, <2>2, SlotsForSame
<1>4. SlotsFor(z) = {} /\ CountOf(z) /\ EndOf(z)
  BY DEF CountInv, CountOf
<1>5. SlotsFor(z)' = {k}
  <2>1. \A j \in Slots : slots'[j] # z
    BY <1>4 DEF SlotsFor
  <2>2. \A j \in Slots, d \in Clients : d # c => ~Makes(d, j, z)'
    <3>1. \A j \in Slots, d \in Clients : ~Makes(d, j, z)
      BY <1>4 DEF SlotsFor
    <3> QED  BY <3>1 DEF OthersStay, Makes, Opens, NewOf, R
  <2>3. \A j \in Slots : Makes(c, j, z)' <=> j = k
    BY DEF Makes
  <2> QED  BY <2>1, <2>2, <2>3 DEF SlotsFor
<1>6. CountOf(z)'
  <2>1. Cardinality({k}) = 1
    BY FS_Singleton
  <2> QED  BY <1>5, <2>1 DEF CountOf
<1>7. EndOf(z)'
  <2>1. z \notin Byes(port.queue) /\ \A t \in Threads : ~Ends(t, z)
    BY <1>4 DEF EndOf
  <2>2. z \notin Byes(port'.queue) /\ \A t \in Threads : ~Ends(t, z)'
    BY <1>2, <2>1 DEF OverKept
  <2> QED  BY <2>2 DEF EndOf, Threads
<1>8. \A d \in Clients : d # c /\ Opens(d) => NewOf(d) # z
  BY <1>4, NobodyOpens
<1>9. FreshOf(c)'
  <2>1. SlotsFor(NewOf(c))' = SlotsFor(z)'
    BY DEF SlotsFor, Makes
  <2> QED  BY <1>5, <2>1 DEF FreshOf
<1> QED  BY <1>1, <1>2, <1>3, <1>6, <1>7, <1>8, <1>9, CountMove

\* msg_connect() and dup_port() make handles.
LEMMA MakesCount ==
  ASSUME MsgAssumption, Typed, CountInv, NEW c \in Clients,
         \/ \E k \in Slots, r \in Refs : MsgConnect(c, k, r)
         \/ \E n \in Refs : ClonePost(c, n) /\ X(c).port
  PROVE  CountInv'
<1>0. /\ pc \in [Threads -> ClientPcs \cup ServerPcs] /\ c \in Threads /\ my \in [Clients -> Local]
      /\ ref \in [Refs -> WideRef] /\ port \in WidePort /\ slots \in [Slots -> Refs \cup {Null, Reserved}]
  BY DEF Typed, ThreadsTyped, KernelTyped, Threads
<1>1. OthersStay(c)
  BY ClientAlone, Zenon DEF ClientRuns, ClientCalls
<1>2. ASSUME NEW k \in Slots, NEW z \in Refs, MsgConnect(c, k, z)
      PROVE  CountInv'
  <2>1. PICK x, m, y : /\ x = [NewRef("OPENING") EXCEPT !.iowait = PSema(@, c)]
                       /\ m = Message("CONNECT", c, z, Null, FALSE)
                       /\ y = [NoCall EXCEPT !.slot = k, !.pr = z]
    OBVIOUS
  <2>2. /\ pc[c] = "out" /\ slots[k] = Null /\ ~ref[z].alloc
        /\ slots' = [slots EXCEPT ![k] = Reserved]
        /\ ref' = [ref EXCEPT ![z] = x]
        /\ port' = Enqueue(port, m)
        /\ my' = [my EXCEPT ![c] = y]
        /\ Goto(c, "opening")
    BY <1>2, <2>1, Zenon DEF MsgConnect, FreeSlot
  <2>3. x.alloc /\ x.refs = 1
    BY <2>1 DEF NewRef
  <2>4. y.slot = k /\ y.pr = z
    BY <2>1 DEF NoCall
  <2>5. m \in Sendable /\ m.op # "DISCONNECT"
    BY <2>1, SentTyped DEF Message
  <2>6. QueueQuiet
    <3>1. port'.queue = Append(port.queue, m)
      BY <1>0, <2>2 DEF Enqueue, WidePort
    <3> QED  BY <2>5, <3>1 DEF QueueQuiet
  <2>7. pc'[c] = "opening" /\ my'[c] = y
    BY <1>0, <2>2 DEF Goto
  <2>8. Opens(c)' /\ NewOf(c)' = z /\ my'[c].slot = k /\ ~Opens(c)
    BY <2>2, <2>4, <2>7 DEF Opens, NewOf, R
  <2>9. \A r \in Refs \ {z} : RefKept(r)
    BY <1>0, <2>2 DEF RefKept
  <2>10. ref'[z].alloc /\ ref'[z].refs = 1
    BY <1>0, <2>2, <2>3
  <2>11. slots[k] # Reserved /\ slots'[k] = Reserved
    BY <1>0, <2>2 DEF MsgAssumption
  <2>12. SlotsKept'
    <3>1. \E i \in Slots : \E q : /\ slots' = [slots EXCEPT ![i] = q]
                                  /\ slots[i] # Reserved \/ (Reserving(c) /\ my[c].slot = i)
      BY <2>2, <2>11
    <3> QED  BY <1>1, <2>8, <2>11, <3>1, SlotsMove DEF CountInv
  <2>13. \A j \in Slots : slots'[j] = slots[j] \/ (slots'[j] \notin Refs /\ slots[j] \notin Refs)
    BY <1>0, <2>2 DEF MsgAssumption
  <2> QED  BY <1>1, <2>2, <2>6, <2>8, <2>9, <2>10, <2>12, <2>13, OpenCounts
<1>3. ASSUME NEW z \in Refs, ClonePost(c, z), X(c).port
      PROVE  CountInv'
  <2>1. PICK k, m, y : k = my[c].slot /\ m = DupMessage(c, z) /\ y = DupRef
    OBVIOUS
  <2>2. /\ pc[c] = "cfind" /\ ~ref[z].alloc
        /\ ref' = [ref EXCEPT ![z] = y,
                              ![R(c)].state = "IOWAIT", ![R(c)].iowait = PSema(@, c)]
        /\ port' = Enqueue(port, m)
        /\ my' = [my EXCEPT ![c].new = z]
        /\ Goto(c, "kwait") /\ slots' = slots
    BY <1>3, <2>1, Zenon DEF ClonePost, Awake
  <2>3. k \in Slots /\ R(c) \in Refs /\ Reserving(c)
    BY <2>1, <2>2 DEF Typed, LocalsSet, Reserving
  <2>4. y \in WideRef /\ y.alloc /\ y.refs = 1
    <3>1. y \in WideRef
      BY <2>1, RefsTyped DEF DupRef, States
    <3> QED  BY <2>1, <3>1 DEF DupRef, NewRef
  <2>5. m \in Sendable /\ m.op # "DISCONNECT"
    BY <2>1, <2>3, SentTyped DEF Message, DupMessage
  <2>6. QueueQuiet
    <3>1. port'.queue = Append(port.queue, m)
      BY <1>0, <2>2 DEF Enqueue, WidePort
    <3> QED  BY <2>5, <3>1 DEF QueueQuiet
  <2>7. pc'[c] = "kwait" /\ my'[c].new = z /\ my'[c].slot = k
    BY <1>0, <2>1, <2>2 DEF Goto, Local
  <2>8. Opens(c)' /\ NewOf(c)' = z /\ ~Opens(c)
    BY <2>2, <2>7 DEF Opens, NewOf
  <2>9. \A r \in Refs \ {z} : RefKept(r)
    BY <1>0, <2>2, <2>3 DEF RefKept, WideRef
  <2>10. ref'[z].alloc /\ ref'[z].refs = 1
    <3>1. CASE z = R(c)
      BY <1>0, <2>2, <2>3, <2>4, <3>1 DEF WideRef
    <3>2. CASE z # R(c)
      BY <1>0, <2>2, <2>3, <2>4, <3>2 DEF WideRef
    <3> QED  BY <3>1, <3>2
  <2>11. SlotsKept'
    <3>1. slots[k] = Reserved
      BY <2>1, <2>3 DEF CountInv, SlotsKept
    <3> QED  BY <1>1, <2>1, <2>2, <2>3, <2>7, <3>1, SlotsMove DEF CountInv
  <2> QED  BY <1>1, <2>2, <2>3, <2>6, <2>7, <2>8, <2>9, <2>10, <2>11, OpenCounts
<1> QED  BY <1>2, <1>3

\* The call that makes handle z ends: its slot holds it, or it is freed.
LEMMA SettleCounts ==
  ASSUME MsgAssumption, Typed, CountInv, NEW c \in Clients, OthersStay(c), NEW z \in Refs,
         Opens(c), NewOf(c) = z, pc'[c] = "out",
         \/ /\ slots' = [slots EXCEPT ![my[c].slot] = z]
            /\ RefKept(z)
         \/ /\ slots' = [slots EXCEPT ![my[c].slot] = Null]
            /\ ref'[z].refs = 0,
         \A r \in Refs \ {z} : RefKept(r),
         port' = port
  PROVE  CountInv'
<1>1. PICK k : k = my[c].slot
  OBVIOUS
<1>2. /\ k \in Slots /\ slots[k] = Reserved /\ Reserving(c)
      /\ SlotsFor(z) = {k} /\ CountOf(z) /\ EndOf(z)
  BY <1>1, NobodyOpens DEF CountInv, FreshOf, Opens, Reserving
<1>3. slots \in [Slots -> Refs \cup {Null, Reserved}] /\ Reserved \notin Refs /\ Null \notin Refs
  BY DEF Typed, KernelTyped, MsgAssumption
<1>4. ~Opens(c)' /\ ~Reserving(c)'
  BY DEF Opens, Reserving
<1>5. \A r \in Refs : OverKept(r)
  <2>1. \A r \in Refs : Ends(c, r)' => Ends(c, r)
    BY DEF Ends
  <2> QED  BY <2>1, OverSame
<1>6. ASSUME NEW r \in Refs \ {z}
      PROVE  SlotsFor(r)' = SlotsFor(r)
  <2>1. \A j \in Slots : slots'[j] = r <=> slots[j] = r
    BY <1>1, <1>2, <1>3
  <2>2. \A j \in Slots : Makes(c, j, r)' <=> Makes(c, j, r)
    BY <1>4 DEF Makes
  <2> QED  BY <2>1, <2>2, SlotsForSame
<1>7. SlotsFor(z)' = {j \in Slots : slots'[j] = z}
  <2>1. ASSUME NEW j \in Slots, NEW d \in Clients, Makes(d, j, z)'
        PROVE  FALSE
    <3>1. d # c
      BY <1>4, <2>1 DEF Makes
    <3>2. Makes(d, j, z)
      BY <2>1, <3>1 DEF OthersStay, Makes, Opens, NewOf, R
    <3>3. my[d].slot = k
      BY <1>2, <3>2 DEF SlotsFor, Makes
    <3> QED  BY <1>1, <1>2, <3>1, <3>2, <3>3 DEF CountInv, SlotsKept, Makes, Opens, Reserving
  <2> QED  BY <2>1 DEF SlotsFor
<1>8. \A j \in Slots : slots[j] # z
  BY <1>2, <1>3 DEF SlotsFor
<1>9. CountOf(z)'
  <2>1. CASE slots' = [slots EXCEPT ![my[c].slot] = z] /\ RefKept(z)
    <3>0. \A j \in Slots : slots'[j] = z <=> j = k
      BY <1>1, <1>2, <1>3, <1>8, <2>1
    <3>1. SlotsFor(z)' = SlotsFor(z)
      BY <1>2, <1>7, <3>0
    <3> QED  BY <1>2, <2>1, <3>1 DEF CountOf, RefKept
  <2>2. CASE slots' = [slots EXCEPT ![my[c].slot] = Null] /\ ref'[z].refs = 0
    <3>0. \A j \in Slots : slots'[j] # z
      BY <1>1, <1>2, <1>3, <1>8, <2>2
    <3>1. SlotsFor(z)' = {}
      BY <1>7, <3>0
    <3>2. Cardinality({}) = 0
      BY FS_EmptySet
    <3> QED  BY <2>2, <3>1, <3>2 DEF CountOf
  <2> QED  BY <2>1, <2>2
<1>10. EndOf(z)'
  <2>1. z \notin Byes(port.queue) /\ \A t \in Threads : ~Ends(t, z)
    BY <1>2 DEF EndOf
  <2>2. z \notin Byes(port'.queue) /\ \A t \in Threads : ~Ends(t, z)'
    BY <1>5, <2>1 DEF OverKept
  <2> QED  BY <2>2 DEF EndOf, Threads
<1>11. \A d \in Clients : d # c /\ Opens(d) => NewOf(d) # z
  <2>1. ASSUME NEW d \in Clients, d # c, Opens(d), NewOf(d) = z
        PROVE  FALSE
    <3>1. my[d].slot = k
      BY <1>2, <2>1, NobodyOpens
    <3> QED  BY <1>1, <1>2, <2>1, <3>1 DEF CountInv, SlotsKept, Opens, Reserving
  <2> QED  BY <2>1
<1>12. SlotsKept'
  <2>1. \E i \in Slots : \E q : /\ slots' = [slots EXCEPT ![i] = q]
                                /\ slots[i] # Reserved \/ (Reserving(c) /\ my[c].slot = i)
    BY <1>1, <1>2
  <2> QED  BY <1>4, <2>1, SlotsMove DEF CountInv
<1>13. FreshOf(c)'
  BY <1>4 DEF FreshOf
<1>14. Once(port'.queue)
  BY DEF CountInv
<1> QED  BY <1>5, <1>6, <1>9, <1>10, <1>11, <1>12, <1>13, <1>14, CountMove

\* The ends of msg_connect() and of clone().
LEMMA MadeCount ==
  ASSUME MsgAssumption, Typed, CountInv, NEW c \in Clients, MsgConnectDone(c) \/ CloneDone(c)
  PROVE  CountInv'
<1>0. /\ pc \in [Threads -> ClientPcs \cup ServerPcs] /\ c \in Threads
      /\ ref \in [Refs -> WideRef]
  BY DEF Typed, ThreadsTyped, KernelTyped, Threads
<1>1. OthersStay(c)
  BY ClientAlone, Zenon DEF ClientRuns
<1>2. CASE MsgConnectDone(c)
  <2>1. /\ pc[c] = "opening" /\ Goto(c, "out") /\ port' = port
        /\ \/ slots' = [slots EXCEPT ![my[c].slot] = R(c)] /\ ref' = ref
           \/ slots' = [slots EXCEPT ![my[c].slot] = Null] /\ ref' = [ref EXCEPT ![R(c)] = FreeRef]
    BY <1>2 DEF MsgConnectDone, Awake, Return
  <2>2. PICK z : z = R(c)
    OBVIOUS
  <2>3. z \in Refs /\ Opens(c) /\ NewOf(c) = z /\ pc'[c] = "out"
    BY <1>0, <2>1, <2>2 DEF Typed, LocalsSet, Opens, NewOf, Goto
  <2>4. FreeRef.refs = 0
    BY DEF FreeRef
  <2>5. \/ slots' = [slots EXCEPT ![my[c].slot] = z] /\ RefKept(z)
        \/ slots' = [slots EXCEPT ![my[c].slot] = Null] /\ ref'[z].refs = 0
    BY <1>0, <2>1, <2>2, <2>3, <2>4 DEF RefKept
  <2>6. \A r \in Refs \ {z} : RefKept(r)
    BY <1>0, <2>1, <2>2, <2>3 DEF RefKept
  <2> QED  BY <1>1, <2>1, <2>3, <2>5, <2>6, SettleCounts
<1>3. CASE CloneDone(c)
  <2>1. PICK z : z = my[c].new
    OBVIOUS
  <2>2. /\ pc[c] = "kwait" /\ Goto(c, "out") /\ port' = port
        /\ \/ /\ slots' = [slots EXCEPT ![my[c].slot] = z]
              /\ ref' = [ref EXCEPT ![R(c)] = Out(@, TRUE), ![z] = @]
           \/ /\ slots' = [slots EXCEPT ![my[c].slot] = Null]
              /\ ref' = [ref EXCEPT ![R(c)] = Out(@, TRUE), ![z] = FreeRef]
    BY <1>3, <2>1 DEF CloneDone, Awake, Return
  <2>3. z \in Refs /\ R(c) \in Refs /\ Opens(c) /\ NewOf(c) = z /\ pc'[c] = "out"
    BY <1>0, <2>1, <2>2 DEF Typed, LocalsSet, Opens, NewOf, Goto
  <2>4. FreeRef.refs = 0
    BY DEF FreeRef
  <2>5. \A r \in Refs \ {z} : RefKept(r)
    <3>1. PICK x : x = Out(ref[R(c)], TRUE)
      OBVIOUS
    <3>2. x.refs = ref[R(c)].refs /\ x.alloc = ref[R(c)].alloc
      BY <1>0, <2>3, <3>1, CountsStay
    <3>3. \A r \in Refs \ {z} : ref'[r] = IF r = R(c) THEN x ELSE ref[r]
      BY <1>0, <2>2, <2>3, <3>1
    <3> QED  BY <3>2, <3>3 DEF RefKept
  <2>6. \/ slots' = [slots EXCEPT ![my[c].slot] = z] /\ RefKept(z)
        \/ slots' = [slots EXCEPT ![my[c].slot] = Null] /\ ref'[z].refs = 0
    <3>1. CASE ref' = [ref EXCEPT ![R(c)] = Out(@, TRUE), ![z] = @]
      <4>1. RefKept(z)
        BY <1>0, <2>3, <3>1, CountsStay DEF RefKept
      <4>2. slots' = [slots EXCEPT ![my[c].slot] = z] \/ (slots' = [slots EXCEPT ![my[c].slot] = Null] /\ ref'[z].refs = 0)
        BY <1>0, <2>2, <2>3, <2>4
      <4> QED  BY <4>1, <4>2
    <3>2. CASE slots' = [slots EXCEPT ![my[c].slot] = Null] /\ ref' = [ref EXCEPT ![R(c)] = Out(@, TRUE), ![z] = FreeRef]
      BY <1>0, <2>3, <2>4, <3>2
    <3> QED  BY <2>2, <3>1, <3>2
  <2> QED  BY <1>1, <2>2, <2>3, <2>5, <2>6, SettleCounts
<1> QED  BY <1>2, <1>3

\* A slot more.
LEMMA ForkCounts ==
  ASSUME MsgAssumption, Typed, CountInv, IsFiniteSet(Slots), NEW c \in Clients,
         NEW k \in Slots, NEW j \in Slots, ForkPort(c, k, j)
  PROVE  CountInv'
<1>0. /\ ref \in [Refs -> WideRef] /\ slots \in [Slots -> Refs \cup {Null, Reserved}]
      /\ Reserved \notin Refs /\ Null \notin Refs /\ Reserved # Null
  BY DEF Typed, KernelTyped, MsgAssumption
<1>1. OthersStay(c)
  BY ClientAlone, Zenon DEF ClientCalls
<1>2. PICK z : z = slots[k]
  OBVIOUS
<1>3. /\ pc[c] = "out" /\ pc' = pc /\ my' = my /\ port' = port /\ got' = got
      /\ z \in Refs /\ slots[j] = Null
      /\ slots' = [slots EXCEPT ![j] = z] /\ ref' = [ref EXCEPT ![z].refs = @ + 1]
  BY <1>2, <1>2, Zenon DEF ForkPort, InService, FreeSlot, serverVars
<1>4. \A d \in Clients : \A i, r : Makes(d, i, r)' <=> Makes(d, i, r)
  BY <1>3 DEF Makes, Opens, NewOf, R
<1>5. \A r \in Refs : OverKept(r)
  BY <1>3 DEF OverKept, Ends, R
<1>6. ASSUME NEW r \in Refs \ {z}
      PROVE  SlotsFor(r)' = SlotsFor(r)
  BY <1>0, <1>3, <1>4 DEF SlotsFor
<1>7. \A r \in Refs \ {z} : RefKept(r)
  BY <1>0, <1>3 DEF RefKept
<1>8. ~ \E d \in Clients : Makes(d, j, z)
  <2>1. ASSUME NEW d \in Clients, Makes(d, j, z)
        PROVE  FALSE
    <3>1. slots[my[d].slot] = Reserved
      BY <1>3, <2>1, NobodyOpens DEF Makes
    <3> QED  BY <1>0, <1>3, <2>1, <3>1 DEF Makes
  <2> QED  BY <2>1
<1>9. SlotsFor(z)' = SlotsFor(z) \cup {j} /\ j \notin SlotsFor(z) /\ k \in SlotsFor(z)
  BY <1>0, <1>2, <1>3, <1>4, <1>8 DEF SlotsFor
<1>10. CountOf(z) /\ EndOf(z)
  BY <1>3 DEF CountInv
<1>11. CountOf(z)'
  <2>1. IsFiniteSet(SlotsFor(z))
    BY FS_Subset DEF SlotsFor
  <2>2. Cardinality(SlotsFor(z) \cup {j}) = Cardinality(SlotsFor(z)) + 1
    BY <1>9, <2>1, FS_AddElement
  <2>3. ref'[z].refs = ref[z].refs + 1 /\ ref'[z].alloc = ref[z].alloc
    BY <1>0, <1>3 DEF WideRef
  <2>4. ref[z].alloc
    BY <1>9, <1>10 DEF CountOf
  <2> QED  BY <1>9, <1>10, <2>2, <2>3, <2>4 DEF CountOf
<1>12. EndOf(z)'
  <2>1. z \notin Byes(port.queue) /\ \A t \in Threads : ~Ends(t, z)
    BY <1>9, <1>10 DEF EndOf
  <2>2. z \notin Byes(port'.queue) /\ \A t \in Threads : ~Ends(t, z)'
    BY <1>3, <1>5, <2>1 DEF OverKept
  <2> QED  BY <2>2 DEF EndOf, Threads
<1>13. \A d \in Clients : Opens(d) => NewOf(d) # z
  <2>1. ASSUME NEW d \in Clients, Opens(d), NewOf(d) = z
        PROVE  FALSE
    <3>1. slots[my[d].slot] = Reserved /\ SlotsFor(z) = {my[d].slot}
      BY <1>3, <2>1, NobodyOpens DEF CountInv, FreshOf
    <3>2. my[d].slot = k
      BY <1>9, <3>1
    <3> QED  BY <1>0, <1>2, <1>3, <3>1, <3>2
  <2> QED  BY <2>1
<1>14. SlotsKept'
  <2>1. \E i \in Slots : \E q : /\ slots' = [slots EXCEPT ![i] = q]
                                /\ slots[i] # Reserved \/ (Reserving(c) /\ my[c].slot = i)
    BY <1>0, <1>3
  <2>2. ~Reserving(c)'
    BY <1>3 DEF Reserving
  <2> QED  BY <1>1, <2>1, <2>2, SlotsMove DEF CountInv
<1>15. FreshOf(c)'
  BY <1>3 DEF FreshOf, Opens
<1>16. Once(port'.queue)
  BY <1>3 DEF CountInv
<1> QED  BY <1>1, <1>3, <1>5, <1>6, <1>7, <1>11, <1>12, <1>13, <1>14, <1>15, <1>16, CountMove

\* A slot less.  The thread that drops the last one is to end the handle.
LEMMA DropCounts ==
  ASSUME MsgAssumption, Typed, CountInv, IsFiniteSet(Slots), NEW c \in Clients,
         NEW k \in Slots, MsgDisconnect(c, k)
  PROVE  CountInv'
<1>0. /\ pc \in [Threads -> ClientPcs \cup ServerPcs] /\ c \in Threads /\ my \in [Clients -> Local]
      /\ ref \in [Refs -> WideRef] /\ slots \in [Slots -> Refs \cup {Null, Reserved}]
      /\ Reserved \notin Refs /\ Null \notin Refs /\ c \notin Servers
  BY DEF Typed, ThreadsTyped, KernelTyped, MsgAssumption, Threads
<1>1. OthersStay(c)
  BY ClientAlone, Zenon DEF ClientCalls
<1>2. PICK z, y : z = slots[k] /\ y = [NoCall EXCEPT !.pr = z]
  OBVIOUS
<1>3. /\ pc[c] = "out" /\ port' = port /\ z \in Refs
      /\ slots' = [slots EXCEPT ![k] = Null] /\ ref' = [ref EXCEPT ![z].refs = @ - 1]
      /\ \/ LastRef(z) /\ Goto(c, "shut") /\ my' = [my EXCEPT ![c] = y]
         \/ ~LastRef(z) /\ pc' = pc /\ my' = my
  BY <1>2, Zenon DEF MsgDisconnect, InService, DeletePortref
<1>4. y.pr = z
  BY <1>2 DEF NoCall
<1>5. \/ LastRef(z) /\ pc'[c] = "shut" /\ R(c)' = z
      \/ ~LastRef(z) /\ pc'[c] = "out"
  BY <1>0, <1>3, <1>4 DEF Goto, R
<1>6. ~Opens(c) /\ ~Opens(c)' /\ ~Reserving(c)'
  BY <1>3, <1>5 DEF Opens, Reserving
<1>7. \A r \in Refs \ {z} : OverKept(r)
  <2>1. \A r \in Refs \ {z} : Ends(c, r)' => Ends(c, r)
    BY <1>0, <1>5 DEF Ends
  <2> QED  BY <1>1, <1>3, <2>1, OverSame
<1>8. ASSUME NEW r \in Refs \ {z}
      PROVE  SlotsFor(r)' = SlotsFor(r)
  <2>1. \A j \in Slots : slots'[j] = r <=> slots[j] = r
    BY <1>0, <1>2, <1>3
  <2>2. \A j \in Slots : Makes(c, j, r)' <=> Makes(c, j, r)
    BY <1>6 DEF Makes
  <2> QED  BY <1>1, <2>1, <2>2, SlotsForSame
<1>9. \A r \in Refs \ {z} : RefKept(r)
  BY <1>0, <1>3 DEF RefKept
<1>10. ASSUME NEW d \in Clients, Opens(d), NewOf(d) = z
       PROVE  FALSE
  <2>1. slots[my[d].slot] = Reserved /\ SlotsFor(z) = {my[d].slot}
    BY <1>3, <1>10, NobodyOpens DEF CountInv, FreshOf
  <2>2. k \in SlotsFor(z)
    BY <1>2 DEF SlotsFor
  <2>3. my[d].slot = k
    BY <2>1, <2>2
  <2> QED  BY <1>0, <1>2, <1>3, <2>1, <2>3
<1>11. SlotsFor(z) = {j \in Slots : slots[j] = z}
  BY <1>10 DEF SlotsFor, Makes
<1>12. SlotsFor(z)' = SlotsFor(z) \ {k} /\ k \in SlotsFor(z)
  <2>1. ASSUME NEW j \in Slots, NEW d \in Clients, Makes(d, j, z)'
        PROVE  FALSE
    <3>1. d # c
      BY <1>6, <2>1 DEF Makes
    <3>2. Makes(d, j, z)
      BY <1>1, <2>1, <3>1 DEF OthersStay, Makes, Opens, NewOf, R
    <3> QED  BY <1>10, <3>2 DEF Makes
  <2>2. SlotsFor(z)' = {j \in Slots : slots'[j] = z}
    BY <2>1 DEF SlotsFor
  <2>3. \A j \in Slots : slots'[j] = z <=> slots[j] = z /\ j # k
    BY <1>0, <1>2, <1>3
  <2> QED  BY <1>2, <1>11, <2>2, <2>3
<1>13. CountOf(z) /\ EndOf(z) /\ IsFiniteSet(SlotsFor(z))
  BY <1>3, FS_Subset DEF CountInv, SlotsFor
<1>14. /\ Cardinality(SlotsFor(z) \ {k}) = Cardinality(SlotsFor(z)) - 1
       /\ Cardinality(SlotsFor(z)) \in Nat
       /\ ref'[z].refs = ref[z].refs - 1 /\ ref'[z].alloc = ref[z].alloc /\ ref[z].alloc
  <2>1. ref'[z].refs = ref[z].refs - 1 /\ ref'[z].alloc = ref[z].alloc
    BY <1>0, <1>3 DEF WideRef
  <2>2. ref[z].alloc
    BY <1>12, <1>13 DEF CountOf
  <2>3. Cardinality(SlotsFor(z) \ {k}) = Cardinality(SlotsFor(z)) - 1
    BY <1>12, <1>13, FS_RemoveElement
  <2> QED  BY <1>13, <2>1, <2>2, <2>3, FS_CardinalityType
<1>15. CountOf(z)'
  BY <1>12, <1>13, <1>14 DEF CountOf
<1>16. EndOf(z)'
  <2>1. z \notin Byes(port.queue) /\ \A t \in Threads : ~Ends(t, z)
    BY <1>12, <1>13 DEF EndOf
  <2>2. \A t \in Threads : t # c => ~Ends(t, z)'
    <3>1. \A d \in Clients : d \notin Servers
      BY DEF MsgAssumption
    <3> QED  BY <1>1, <2>1, <3>1 DEF Ends, OthersStay, R, Threads
  <2>3. z \notin Byes(port'.queue)
    BY <1>3, <2>1
  <2>4. CASE ~LastRef(z)
    <3>1. ~Ends(c, z)'
      BY <1>0, <1>5, <2>4 DEF Ends
    <3>2. \A t \in Threads : ~Ends(t, z)'
      BY <2>2, <3>1
    <3> QED  BY <2>3, <3>2 DEF EndOf, Threads
  <2>5. CASE LastRef(z)
    <3>1. Cardinality(SlotsFor(z)) <= 1
      BY <1>13, <2>5 DEF CountOf, LastRef
    <3>2. Cardinality(SlotsFor(z) \ {k}) = 0 \/ Cardinality(SlotsFor(z) \ {k}) = -1
      BY <1>14, <3>1
    <3>3. IsFiniteSet(SlotsFor(z) \ {k}) /\ Cardinality(SlotsFor(z) \ {k}) \in Nat
      BY <1>13, FS_RemoveElement, FS_CardinalityType
    <3>4. Cardinality(SlotsFor(z) \ {k}) = 0
      BY <3>2, <3>3
    <3>5. SlotsFor(z)' = {}
      BY <1>12, <3>3, <3>4, FS_EmptySet
    <3>6. \A t, u \in Threads : Ends(t, z)' /\ Ends(u, z)' => t = u
      BY <2>2
    <3> QED  BY <1>14, <2>3, <3>5, <3>6 DEF EndOf, Threads
  <2> QED  BY <2>4, <2>5
<1>17. SlotsKept'
  <2>1. \E i \in Slots : \E q : /\ slots' = [slots EXCEPT ![i] = q]
                                /\ slots[i] # Reserved \/ (Reserving(c) /\ my[c].slot = i)
    BY <1>0, <1>2, <1>3
  <2> QED  BY <1>1, <1>6, <2>1, SlotsMove DEF CountInv
<1>18. FreshOf(c)'
  BY <1>6 DEF FreshOf
<1>19. Once(port'.queue)
  BY <1>3 DEF CountInv
<1>20. \A d \in Clients : d # c /\ Opens(d) => NewOf(d) # z
  BY <1>10
<1> QED  BY <1>1, <1>3, <1>7, <1>8, <1>9, <1>15, <1>16, <1>17, <1>18, <1>19, <1>20, CountMove

\* It sends the DISCONNECT, or frees the handle itself.
LEMMA ShutCounts ==
  ASSUME MsgAssumption, Typed, CountInv, NEW c \in Clients, ShutClient(c)
  PROVE  CountInv'
<1>0. /\ pc \in [Threads -> ClientPcs \cup ServerPcs] /\ c \in Threads /\ c \notin Servers
      /\ ref \in [Refs -> WideRef] /\ port \in WidePort /\ port.queue \in Seq(Sendable)
  BY DEF Typed, ThreadsTyped, KernelTyped, MsgAssumption, Threads, WidePort
<1>1. OthersStay(c)
  BY ClientAlone, Zenon DEF ClientRuns
<1>2. PICK z, m : z = R(c) /\ m = Message("DISCONNECT", c, z, Null, FALSE)
  OBVIOUS
<1>3. /\ pc[c] = "shut" /\ slots' = slots
      /\ \/ /\ port' = Enqueue(port, m) /\ Goto(c, "closing")
            /\ ref' = [ref EXCEPT ![z].state = "CLOSING", ![z].sema = PSema(@, c)]
         \/ port' = port /\ Goto(c, "out") /\ ref' = [ref EXCEPT ![z] = FreeRef]
  BY <1>2, Zenon DEF ShutClient, Return
<1>4. z \in Refs /\ pc'[c] \in {"closing", "out"} /\ Ends(c, z)
  BY <1>0, <1>2, <1>3 DEF Typed, LocalsSet, Goto, Ends
<1>5. m \in Sendable /\ m.op = "DISCONNECT" /\ m.pr = z
  BY <1>2, <1>4, SentTyped DEF Message
<1>6. CountOf(z) /\ EndOf(z) /\ SlotsFor(z) = {} /\ z \notin Byes(port.queue) /\ ref[z].alloc
      /\ \A t \in Threads : Ends(t, z) => t = c
  BY <1>0, <1>4 DEF CountInv, EndOf
<1>7. \/ port' = port
      \/ port'.queue = Append(port.queue, m)
  BY <1>0, <1>3 DEF Enqueue, WidePort
<1>8. /\ Once(port'.queue)
      /\ \A r : r \in Byes(port'.queue) => r \in Byes(port.queue) \/ r = z
  <2>1. /\ \A r : r \in Byes(Append(port.queue, m)) => r \in Byes(port.queue) \/ (m.op = "DISCONNECT" /\ r = m.pr)
        /\ Once(port.queue) /\ (m.op = "DISCONNECT" => m.pr \notin Byes(port.queue)) => Once(Append(port.queue, m))
    BY <1>0, <1>5, ByesAppend
  <2>2. Once(port.queue)
    BY DEF CountInv
  <2>3. Once(Append(port.queue, m))
    BY <1>5, <1>6, <2>1, <2>2
  <2>4. \A r : r \in Byes(Append(port.queue, m)) => r \in Byes(port.queue) \/ r = z
    BY <1>5, <2>1
  <2> QED  BY <1>7, <2>2, <2>3, <2>4
<1>9. \A r \in Refs : ~Ends(c, r)'
  BY <1>0, <1>4 DEF Ends
<1>10. \A r \in Refs \ {z} : OverKept(r)
  <2>1. \A r \in Refs \ {z} : r \in Byes(port'.queue) => r \in Byes(port.queue)
    BY <1>8
  <2> QED  BY <1>1, <1>9, <2>1, OverSame
<1>11. ~Opens(c) /\ ~Opens(c)' /\ ~Reserving(c)'
  BY <1>3, <1>4 DEF Opens, Reserving
<1>12. \A r \in Refs : SlotsFor(r)' = SlotsFor(r)
  <2> SUFFICES ASSUME NEW r \in Refs
               PROVE  SlotsFor(r)' = SlotsFor(r)
    OBVIOUS
  <2>1. \A j \in Slots : slots'[j] = r <=> slots[j] = r
    BY <1>3
  <2>2. \A j \in Slots : Makes(c, j, r)' <=> Makes(c, j, r)
    BY <1>11 DEF Makes
  <2> QED  BY <1>1, <2>1, <2>2, SlotsForSame
<1>13. \A r \in Refs \ {z} : RefKept(r)
  <2>1. CASE ref' = [ref EXCEPT ![z] = FreeRef]
    BY <1>0, <2>1 DEF RefKept
  <2>2. CASE ref' = [ref EXCEPT ![z].state = "CLOSING", ![z].sema = PSema(@, c)]
    BY <1>0, <2>2 DEF RefKept
  <2> QED  BY <1>3, <2>1, <2>2
<1>14. \A t \in Threads : ~Ends(t, z)'
  <2>1. \A d \in Clients : d \notin Servers
    BY DEF MsgAssumption
  <2>2. ASSUME NEW t \in Threads, t # c
        PROVE  ~Ends(t, z)'
    <3>1. ~Ends(t, z)
      BY <1>6, <2>2
    <3> QED  BY <1>1, <2>1, <2>2, <3>1 DEF Ends, OthersStay, R, Threads
  <2> QED  BY <1>4, <1>9, <2>2
<1>15. CountOf(z)' /\ EndOf(z)'
  <2>0. SlotsFor(z)' = {} /\ Cardinality({}) = 0
    BY <1>4, <1>6, <1>12, FS_EmptySet
  <2>1. CASE ref' = [ref EXCEPT ![z] = FreeRef] /\ port' = port
    <3>1. ref'[z].refs = 0
      BY <1>0, <1>4, <2>1 DEF FreeRef
    <3>2. z \notin Byes(port'.queue)
      BY <1>6, <2>1
    <3> QED  BY <1>14, <2>0, <3>1, <3>2 DEF CountOf, EndOf, Threads
  <2>2. CASE ref' = [ref EXCEPT ![z].state = "CLOSING", ![z].sema = PSema(@, c)]
    <3>1. ref'[z].refs = ref[z].refs /\ ref'[z].alloc = ref[z].alloc
      BY <1>0, <1>4, <2>2 DEF WideRef
    <3>2. CountOf(z)'
      BY <1>6, <2>0, <3>1 DEF CountOf
    <3>3. EndOf(z)'
      BY <1>6, <1>14, <2>0, <3>1 DEF EndOf, Threads
    <3> QED  BY <3>2, <3>3
  <2> QED  BY <1>3, <2>1, <2>2
<1>16. SlotsKept'
  BY <1>1, <1>3, <1>11, SlotsMove DEF CountInv
<1>17. FreshOf(c)'
  BY <1>11 DEF FreshOf
<1>18. \A d \in Clients : d # c /\ Opens(d) => NewOf(d) # z
  BY <1>4, <1>6, NobodyOpens
<1> QED  BY <1>1, <1>4, <1>8, <1>10, <1>12, <1>13, <1>15, <1>16, <1>17, <1>18, CountMove

-----------------------------------------------------------------------------
(* The references, when a server runs.                                     *)

\* What any server's step leaves alone, whether it closes the port or not.
ClientsLeft(s) ==
  /\ \A c \in Clients : /\ pc'[c] = pc[c] /\ my'[c].pr = my[c].pr
                        /\ my'[c].new = my[c].new /\ my'[c].slot = my[c].slot
  /\ \A u \in Servers : u # s => pc'[u] = pc[u] /\ got'[u] = got[u]
  /\ slots' = slots

LEMMA ServerApart ==
  ASSUME MsgAssumption, Typed, NEW s \in Servers,
         RecvFind(s) \/ ServerRuns(s) \/ ClosePort(s) \/ \E m \in held : ServerAnswers(s, m)
  PROVE  /\ ClientsLeft(s)
         /\ RecvTake(s) \/ pc'[s] # "rcvd"
<1>1. /\ pc \in [Threads -> ClientPcs \cup ServerPcs]
      /\ my \in [Clients -> Local] /\ got \in [Servers -> Sendable \cup Refs \cup {Null}]
      /\ Clients \subseteq Threads /\ Servers \subseteq Threads /\ s \in Threads
      /\ \A c \in Clients : s # c
  <2>1. Clients \subseteq Threads /\ Servers \subseteq Threads /\ \A c \in Clients : s # c
    BY DEF Threads, MsgAssumption
  <2> QED  BY <2>1 DEF Typed, ThreadsTyped, ServerTyped
<1>2. slots' = slots
  BY ZenonT(60) DEF RecvFind, ServerRuns, RecvWait, RecvBroken, RecvTake, RecvNothing, RecvReturn, ReplyRuns, DupWake,
         DupHash, ClosePort, CloseName, Grab, Bounce, BounceEnd, CloseClient, CloseHash, FreePort,
         ServerAnswers, MsgAccept, MsgErr, ReplyDone, ReplyDup, ReplyAbort, ReplyRefused, clientVars
<1>3. \/ RecvTake(s) /\ Goto(s, "rcvd")
      \/ \E l \in ServerPcs \ {"rcvd"} : Goto(s, l)
      \/ pc' = pc /\ pc[s] # "rcvd"
  BY ZenonT(60) DEF RecvFind, ServerRuns, RecvWait, RecvBroken, RecvTake, RecvNothing, RecvReturn, ReplyRuns, DupWake,
         DupHash, ClosePort, CloseName, Grab, Bounce, BounceEnd, CloseClient, CloseHash, FreePort,
         ServerAnswers, MsgAccept, MsgErr, ReplyDone, ReplyDup, ReplyAbort, ReplyRefused, ServerPcs, Holds, Awake
<1>4. got' = got \/ \E g : got' = [got EXCEPT ![s] = g]
  BY ZenonT(60) DEF RecvFind, ServerRuns, RecvWait, RecvBroken, RecvTake, RecvNothing, RecvReturn, ReplyRuns, DupWake,
         DupHash, ClosePort, CloseName, Grab, Bounce, BounceEnd, CloseClient, CloseHash, FreePort,
         ServerAnswers, MsgAccept, MsgErr, ReplyDone, ReplyDup, ReplyAbort, ReplyRefused, serverVars
<1>5. my' = my \/ \E c, b : my' = [my EXCEPT ![c].nseg = b]
  <2>1. CASE RecvReturn(s)
    BY <2>1 DEF RecvReturn
  <2>2. CASE ~RecvReturn(s)
    BY <2>2, ZenonT(60) DEF RecvFind, ServerRuns, RecvWait, RecvBroken, RecvTake, RecvNothing, ReplyRuns, DupWake,
         DupHash, ClosePort, CloseName, Grab, Bounce, BounceEnd, CloseClient, CloseHash, FreePort,
         ServerAnswers, MsgAccept, MsgErr, ReplyDone, ReplyDup, ReplyAbort, ReplyRefused, clientVars
  <2> QED  BY <2>1, <2>2
<1>6. \A c \in Clients : my'[c].pr = my[c].pr /\ my'[c].new = my[c].new /\ my'[c].slot = my[c].slot
  <2>1. CASE my' = my
    BY <2>1
  <2>2. CASE \E d, b : my' = [my EXCEPT ![d].nseg = b]
    <3>1. PICK d, b : my' = [my EXCEPT ![d].nseg = b]
      BY <2>2
    <3> QED  BY <1>1, <3>1 DEF Local
  <2> QED  BY <1>5, <2>1, <2>2
<1>7. (\A c \in Clients : pc'[c] = pc[c]) /\ (\A u \in Servers : u # s => pc'[u] = pc[u])
  BY <1>1, <1>3 DEF Goto
<1>8. \A u \in Servers : u # s => got'[u] = got[u]
  BY <1>1, <1>4
<1>9. RecvTake(s) \/ pc'[s] # "rcvd"
  BY <1>1, <1>3 DEF Goto
<1> QED  BY <1>2, <1>6, <1>7, <1>8, <1>9 DEF ClientsLeft

\* No slot changes hands.
LEMMA ServerLeaves ==
  ASSUME MsgAssumption, Typed, CountInv, NEW s \in Servers, ClientsLeft(s)
  PROVE  /\ SlotsKept'
         /\ \A r \in Refs : SlotsFor(r)' = SlotsFor(r)
         /\ \A d \in Clients : /\ Opens(d)' <=> Opens(d)
                               /\ NewOf(d)' = NewOf(d) /\ my'[d].slot = my[d].slot
         /\ \A t \in Threads, r \in Refs : t # s => (Ends(t, r)' <=> Ends(t, r))
<1>1. \A d \in Clients : /\ Opens(d)' <=> Opens(d)
                         /\ NewOf(d)' = NewOf(d) /\ my'[d].slot = my[d].slot
                         /\ Reserving(d)' <=> Reserving(d)
  BY DEF ClientsLeft, Opens, NewOf, R, Reserving
<1>2. slots' = slots
  BY DEF ClientsLeft
<1>3. SlotsKept'
  BY <1>1, <1>2 DEF CountInv, SlotsKept
<1>4. \A r \in Refs : SlotsFor(r)' = SlotsFor(r)
  BY <1>1, <1>2 DEF SlotsFor, Makes
<1>5. \A t \in Threads, r \in Refs : t # s => (Ends(t, r)' <=> Ends(t, r))
  <2>1. \A d \in Clients : d \notin Servers
    BY DEF MsgAssumption
  <2> QED  BY <2>1 DEF Ends, R, Threads, ClientsLeft
<1> QED  BY <1>1, <1>3, <1>4, <1>5, Zenon

\* A server that neither takes a message nor returns with one.
LEMMA ServerQuietCounts ==
  ASSUME MsgAssumption, Typed, CountInv, NEW s \in Servers, ClientsLeft(s), pc'[s] # "rcvd",
         \A r \in Refs : RefKept(r),
         port'.queue \in {port.queue, << >>}
  PROVE  CountInv'
<1>1. Once(port'.queue) /\ \A r : r \in Byes(port'.queue) => r \in Byes(port.queue)
  <2>1. Once(<< >>) /\ \A r : r \notin Byes(<< >>)
    BY DEF Once, Byes
  <2> QED  BY <2>1 DEF CountInv
<1>2. \A r \in Refs : ~Ends(s, r)'
  BY DEF Ends, MsgAssumption
<1>3. \A r \in Refs : OverKept(r)
  BY <1>1, <1>2, ServerLeaves DEF OverKept
<1> QED  BY <1>1, <1>3, ServerLeaves, CountKept

LEMMA ServersQuiet ==
  ASSUME MsgAssumption, Typed, CountInv, NEW s \in Servers, ~RecvTake(s), ~RecvReturn(s),
         RecvFind(s) \/ ServerRuns(s) \/ ClosePort(s) \/ \E m \in held : ServerAnswers(s, m)
  PROVE  CountInv'
<1>0. /\ ref \in [Refs -> WideRef] /\ port \in WidePort /\ held \subseteq Sendable /\ doomed \in Seq(Sendable)
      /\ \A m \in Sendable : m.pr \in Refs
  BY DEF Typed, KernelTyped, ServerTyped, Sendable, Messages
<1>1. ClientsLeft(s) /\ pc'[s] # "rcvd"
  BY ServerApart
<1>2. port'.queue \in {port.queue, << >>}
  <2>1. CASE \E m \in held : ServerAnswers(s, m)
    <3>1. port' = port \/ \E r : port' = RefPort(port, r) \/ port' = DerefPort(port, r)
      BY <2>1, ZenonT(60) DEF ServerAnswers, MsgAccept, MsgErr, ReplyDone, ReplyDup, ReplyAbort, ReplyRefused
    <3> QED  BY <1>0, <3>1 DEF RefPort, DerefPort, WidePort
  <2>2. CASE \E r \in Refs : CloseClient(s, r)
    <3>1. port' = port \/ \E r : port' = DerefPort(port, r)
      BY <2>2, Zenon DEF CloseClient
    <3> QED  BY <1>0, <3>1 DEF DerefPort, WidePort
  <2>3. CASE \/ RecvFind(s) \/ RecvWait(s) \/ RecvBroken(s) \/ ClosePort(s) \/ CloseName(s) \/ Grab(s)
    BY <1>0, <2>3 DEF RecvFind, RecvWait, RecvBroken, ClosePort, CloseName, Grab, WidePort
  <2>4. CASE \/ RecvNothing(s) \/ ReplyRuns(s) \/ DupWake(s) \/ DupHash(s) \/ Bounce(s) \/ BounceEnd(s)
             \/ CloseHash(s) \/ FreePort(s)
    BY <2>4, ZenonT(60) DEF RecvNothing, ReplyRuns, DupWake, DupHash, Bounce, BounceEnd, CloseHash, FreePort
  <2> QED  BY <2>1, <2>2, <2>3, <2>4, Zenon DEF ServerRuns
<1>3. CASE ref' = ref
  <2>1. \A r \in Refs : RefKept(r)
    BY <1>3 DEF RefKept
  <2> QED  BY <1>1, <1>2, <2>1, ServerQuietCounts
<1>4. CASE \E z \in Refs : \E st, w : ref' = [ref EXCEPT ![z].state = st, ![z].iowait = w]
  <2>1. \A r \in Refs : RefKept(r)
    BY <1>0, <1>4 DEF RefKept, WideRef
  <2> QED  BY <1>1, <1>2, <2>1, ServerQuietCounts
<1>5. CASE \E m \in held, a \in Answers : ReplyDone(s, m, a)
  <2>1. PICK m \in held, a \in Answers : ReplyDone(s, m, a)
    BY <1>5
  <2>2. PICK z : z = m.pr
    OBVIOUS
  <2>3. z \in Refs
    BY <1>0, <2>2
  <2>4. ref' = [ref EXCEPT ![z].msg = Null, ![z].state = "IODONE", ![z].iowait = VSema(@),
                           ![z].svwait = IF a = "segs" THEN Handover(@, s) ELSE @]
    BY <2>1, <2>2 DEF ReplyDone
  <2>5. \A r \in Refs : RefKept(r)
    BY <1>0, <2>3, <2>4 DEF RefKept, WideRef
  <2> QED  BY <1>1, <1>2, <2>5, ServerQuietCounts
<1>6. CASE \E z \in Refs : \E st : ref' = [ref EXCEPT ![z].state = st]
  <2>1. \A r \in Refs : RefKept(r)
    BY <1>0, <1>6 DEF RefKept, WideRef
  <2> QED  BY <1>1, <1>2, <2>1, ServerQuietCounts
<1>7. CASE \E z \in Refs : \E w : ref' = [ref EXCEPT ![z].iowait = w]
  <2>1. \A r \in Refs : RefKept(r)
    BY <1>0, <1>7 DEF RefKept, WideRef
  <2> QED  BY <1>1, <1>2, <2>1, ServerQuietCounts
<1>8. CASE \E z \in Refs : \E w, b : ref' = [ref EXCEPT ![z].port = b, ![z].iowait = w]
  <2>1. \A r \in Refs : RefKept(r)
    BY <1>0, <1>8 DEF RefKept, WideRef
  <2> QED  BY <1>1, <1>2, <2>1, ServerQuietCounts
<1>9. CASE \E z \in Refs : ref' = [ref EXCEPT ![z] = CutOff(@)]
  <2>1. \A r \in Refs : RefKept(r)
    BY <1>0, <1>9, CountsStay DEF RefKept
  <2> QED  BY <1>1, <1>2, <2>1, ServerQuietCounts
<1>10. CASE \E m \in held : ServerAnswers(s, m)
  <2>1. PICK m \in held : ServerAnswers(s, m)
    BY <1>10
  <2>2. m.pr \in Refs
    BY <1>0
  <2>3. \/ ref' = ref
        \/ \E st, w : ref' = [ref EXCEPT ![m.pr].state = st, ![m.pr].iowait = w]
        \/ \E st : ref' = [ref EXCEPT ![m.pr].state = st]
        \/ \E a \in Answers : ReplyDone(s, m, a)
    <3>1. CASE MsgAccept(s, m) \/ ReplyAbort(s, m)
      BY <3>1, ZenonT(60) DEF MsgAccept, ReplyAbort
    <3>2. CASE MsgErr(s, m)
      BY <3>2, ZenonT(60) DEF MsgErr
    <3>3. CASE (\E a \in Answers : ReplyDup(s, m, a)) \/ ReplyRefused(s, m)
      BY <3>3, ZenonT(60) DEF ReplyDup, ReplyRefused
    <3> QED  BY <2>1, <3>1, <3>2, <3>3, Zenon DEF ServerAnswers
  <2> QED  BY <1>3, <1>4, <1>5, <1>6, <2>2, <2>3
<1>11. CASE Bounce(s)
  <2>1. PICK z : z = Head(doomed).pr
    OBVIOUS
  <2>2. z \in Refs
    <3>1. doomed # << >>
      BY <1>11 DEF Bounce
    <3>2. Head(doomed) \in Sendable
      BY <1>0, <3>1
    <3> QED  BY <1>0, <2>1, <3>2
  <2>3. ref' = ref \/ \E w, b : ref' = [ref EXCEPT ![z].port = b, ![z].iowait = w]
    BY <1>11, <2>1, Zenon DEF Bounce
  <2> QED  BY <1>3, <1>8, <2>2, <2>3
<1>12. CASE \E r \in Refs : CloseClient(s, r)
  <2>1. ref' = ref \/ \E z \in Refs : ref' = [ref EXCEPT ![z] = CutOff(@)]
    BY <1>12, Zenon DEF CloseClient
  <2> QED  BY <1>3, <1>9, <2>1
<1>13. CASE DupWake(s)
  <2>1. PICK z : z = got[s].pr
    OBVIOUS
  <2>2. z \in Refs
    BY <1>0, <1>13, <2>1 DEF DupWake, Typed, LocalsSet
  <2>3. \E w : ref' = [ref EXCEPT ![z].iowait = w]
    BY <1>13, <2>1, Zenon DEF DupWake
  <2> QED  BY <1>7, <2>2, <2>3
<1>14. CASE \/ RecvFind(s) \/ RecvWait(s) \/ RecvBroken(s) \/ RecvNothing(s) \/ ReplyRuns(s) \/ DupHash(s) \/ ClosePort(s)
            \/ CloseName(s) \/ Grab(s) \/ BounceEnd(s) \/ CloseHash(s) \/ FreePort(s)
  <2>1. ref' = ref
    BY <1>14, ZenonT(60) DEF RecvFind, RecvWait, RecvBroken, RecvNothing, ReplyRuns, DupHash, ClosePort, CloseName, Grab,
         BounceEnd, CloseHash, FreePort
  <2> QED  BY <1>3, <2>1
<1> QED  BY <1>10, <1>11, <1>12, <1>13, <1>14, Zenon DEF ServerRuns

\* A server's step on handle z.
LEMMA ServerCounts ==
  ASSUME MsgAssumption, Typed, CountInv, NEW s \in Servers, ClientsLeft(s), NEW z \in Refs,
         \A r \in Refs \ {z} : RefKept(r) /\ OverKept(r),
         CountOf(z)', EndOf(z)', Once(port'.queue)
  PROVE  CountInv'
<1>1. SlotsKept' /\ \A r \in Refs : SlotsFor(r)' = SlotsFor(r)
  BY ServerLeaves
<1>2. \A r \in Refs : CountOf(r)' /\ EndOf(r)'
  BY <1>1, HandleSame DEF CountInv
<1>3. ASSUME NEW d \in Clients, Opens(d)'
      PROVE  SlotsFor(NewOf(d))' = {my'[d].slot}
  <2>1. Opens(d) /\ NewOf(d)' = NewOf(d) /\ my'[d].slot = my[d].slot
    BY <1>3, ServerLeaves
  <2>2. PICK r : r = NewOf(d)
    OBVIOUS
  <2>3. r \in Refs
    BY <2>1, <2>2 DEF Typed, LocalsSet, Opens, NewOf
  <2>4. SlotsFor(r)' = {my[d].slot}
    BY <1>1, <2>1, <2>2, <2>3 DEF CountInv, FreshOf
  <2>5. SlotsFor(NewOf(d))' = SlotsFor(r)'
    BY <2>1, <2>2 DEF SlotsFor, Makes
  <2> QED  BY <2>1, <2>4, <2>5
<1> QED  BY <1>1, <1>2, <1>3 DEF CountInv, FreshOf

\* The DISCONNECT of a handle goes from the queue to the receiver, ...
LEMMA TakeCounts ==
  ASSUME MsgAssumption, Typed, CountInv, NEW s \in Servers, RecvTake(s)
  PROVE  CountInv'
<1>0. /\ pc \in [Threads -> ClientPcs \cup ServerPcs] /\ s \in Threads /\ s \notin Clients
      /\ got \in [Servers -> Sendable \cup Refs \cup {Null}]
      /\ ref \in [Refs -> WideRef] /\ port \in WidePort
  BY DEF Typed, ThreadsTyped, ServerTyped, KernelTyped, MsgAssumption, Threads
<1>1. ClientsLeft(s)
  BY ServerApart DEF ServerRuns
<1>2. PICK q, m, z : q = port.queue /\ m = Head(q) /\ z = m.pr
  OBVIOUS
<1>3. /\ q # << >> /\ Goto(s, "rcvd") /\ got' = [got EXCEPT ![s] = m]
      /\ ref' = [ref EXCEPT ![z].msg = m]
  BY <1>2 DEF RecvTake
<1>4. q \in Seq(Sendable) /\ m \in Sendable /\ z \in Refs
  <2>1. q \in Seq(Sendable)
    BY <1>0, <1>2 DEF WidePort
  <2>2. m \in Sendable
    BY <1>2, <1>3, <2>1
  <2> QED  BY <1>2, <2>1, <2>2 DEF Sendable, Messages
<1>5. port'.queue = Tail(q)
  <2>1. PICK p : p = [port EXCEPT !.queue = Tail(@)]
    OBVIOUS
  <2>2. p.queue = Tail(q) /\ p = [named |-> port.named, inproc |-> port.inproc, queue |-> Tail(q),
                                  wait |-> port.wait, sema |-> port.sema, refs |-> port.refs]
    BY <1>0, <1>2, <2>1 DEF WidePort
  <2>3. port' \in {p, RefPort(p, z), DerefPort(p, z)}
    BY <1>2, <2>1 DEF RecvTake
  <2> QED  BY <2>2, <2>3 DEF RefPort, DerefPort
<1>6. pc'[s] = "rcvd" /\ got'[s] = m
  BY <1>0, <1>3 DEF Goto
<1>7. /\ Once(port.queue)
      /\ \A r : r \in Byes(Tail(q)) => r \in Byes(q)
      /\ Once(port'.queue)
      /\ m.op = "DISCONNECT" => z \in Byes(q) /\ z \notin Byes(Tail(q))
  BY <1>2, <1>3, <1>4, <1>5, ByesTail DEF CountInv
<1>8. \A r \in Refs : RefKept(r)
  BY <1>0, <1>3, <1>4 DEF RefKept, WideRef
<1>9. \A r \in Refs : Ends(s, r)' <=> m.op = "DISCONNECT" /\ r = z
  BY <1>0, <1>2, <1>6 DEF Ends
<1>10. \A t \in Threads, r \in Refs : t # s => (Ends(t, r)' <=> Ends(t, r))
  BY <1>1, ServerLeaves
<1>11. CASE m.op # "DISCONNECT"
  <2>1. \A r \in Refs : OverKept(r)
    BY <1>2, <1>5, <1>7, <1>9, <1>10, <1>11 DEF OverKept
  <2> QED  BY <1>1, <1>7, <1>8, <2>1, ServerLeaves, CountKept
<1>12. CASE m.op = "DISCONNECT"
  <2>1. \A r \in Refs \ {z} : OverKept(r)
    BY <1>2, <1>5, <1>7, <1>9, <1>10 DEF OverKept
  <2>2. CountOf(z) /\ EndOf(z) /\ SlotsFor(z)' = SlotsFor(z)
    BY <1>1, <1>4, ServerLeaves DEF CountInv
  <2>3. ref[z].alloc /\ SlotsFor(z) = {} /\ \A t \in Threads : ~Ends(t, z)
    BY <1>2, <1>7, <1>12, <2>2 DEF EndOf
  <2>4. CountOf(z)'
    BY <1>4, <1>8, <2>2 DEF CountOf, RefKept
  <2>5. \A t \in Threads : Ends(t, z)' => t = s
    BY <1>4, <1>10, <2>3
  <2>6. EndOf(z)'
    <3>1. ref'[z].alloc /\ SlotsFor(z)' = {} /\ z \notin Byes(port'.queue)
      BY <1>4, <1>5, <1>7, <1>8, <1>12, <2>2, <2>3 DEF RefKept
    <3> QED  BY <2>5, <3>1 DEF EndOf, Threads
  <2> QED  BY <1>1, <1>4, <1>7, <1>8, <2>1, <2>4, <2>6, ServerCounts
<1> QED  BY <1>11, <1>12

\* ... who frees the handle on the way out of msg_receive().
LEMMA ReturnCounts ==
  ASSUME MsgAssumption, Typed, CountInv, NEW s \in Servers, RecvReturn(s)
  PROVE  CountInv'
<1>0. /\ ref \in [Refs -> WideRef] /\ port \in WidePort /\ s \in Threads
  BY DEF Typed, KernelTyped, Threads
<1>1. ClientsLeft(s) /\ pc'[s] # "rcvd"
  <2>1. pc'[s] = "out"
    BY DEF RecvReturn, Goto, Typed, ThreadsTyped, Threads
  <2> QED  BY <2>1, ServerApart DEF ServerRuns
<1>2. PICK m, z : m = got[s] /\ z = m.pr
  OBVIOUS
<1>3. pc[s] = "rcvd" /\ port' = [port EXCEPT !.sema = VSema(@)]
      /\ IF m.op = "DISCONNECT" THEN ref' = [ref EXCEPT ![z] = FreeRef] ELSE ref' = ref
  BY <1>2 DEF RecvReturn
<1>4. z \in Refs
  BY <1>2, <1>3 DEF Typed, LocalsSet, Sendable, Messages
<1>5. port'.queue = port.queue
  BY <1>0, <1>3 DEF WidePort
<1>6. \A r \in Refs : ~Ends(s, r)'
  BY <1>1 DEF Ends, MsgAssumption
<1>7. \A r \in Refs : OverKept(r)
  BY <1>1, <1>5, <1>6, ServerLeaves DEF OverKept
<1>8. CASE m.op # "DISCONNECT"
  <2>1. \A r \in Refs : RefKept(r)
    BY <1>3, <1>8 DEF RefKept
  <2>2. port'.queue \in {port.queue, << >>}
    BY <1>5
  <2> QED  BY <1>1, <2>1, <2>2, ServerQuietCounts
<1>9. CASE m.op = "DISCONNECT"
  <2>1. Ends(s, z)
    BY <1>2, <1>3, <1>9 DEF Ends
  <2>2. EndOf(z) /\ SlotsFor(z)' = SlotsFor(z)
    BY <1>1, <1>4, ServerLeaves DEF CountInv
  <2>3. /\ SlotsFor(z) = {} /\ z \notin Byes(port.queue)
        /\ \A t \in Threads : Ends(t, z) => t = s
    BY <1>0, <2>1, <2>2 DEF EndOf
  <2>4. \A r \in Refs \ {z} : RefKept(r)
    BY <1>0, <1>3, <1>9 DEF RefKept
  <2>5. CountOf(z)'
    <3>1. ref'[z].refs = 0 /\ Cardinality({}) = 0
      BY <1>0, <1>3, <1>4, <1>9, FS_EmptySet DEF FreeRef
    <3> QED  BY <2>2, <2>3, <3>1 DEF CountOf
  <2>6. EndOf(z)'
    <3>1. \A t \in Threads : ~Ends(t, z)'
      BY <1>4, <1>6, <1>7, <2>3 DEF OverKept
    <3> QED  BY <1>5, <2>3, <3>1 DEF EndOf, Threads
  <2>7. Once(port'.queue)
    BY <1>5 DEF CountInv
  <2> QED  BY <1>1, <1>4, <1>7, <2>4, <2>5, <2>6, <2>7, ServerCounts
<1> QED  BY <1>8, <1>9

\* An event wakes, and changes no table.
LEMMA SignalCounts ==
  ASSUME MsgAssumption, Typed, CountInv, NEW t \in Threads, Signal(t)
  PROVE  CountInv'
<1>0. ref \in [Refs -> WideRef] /\ port \in WidePort
  BY DEF Typed, KernelTyped
<1>1. pc' = pc /\ my' = my /\ slots' = slots /\ got' = got
  BY DEF Signal, clientVars, serverVars
<1>2. \/ ref' = ref
      \/ \E w : ref' = [ref EXCEPT ![R(t)].sema = w] \/ ref' = [ref EXCEPT ![R(t)].iowait = w]
  BY Zenon DEF Signal
<1>3. \A r \in Refs : RefKept(r)
  BY <1>0, <1>2 DEF RefKept, WideRef
<1>4. port' = port \/ \E w : port' = [port EXCEPT !.sema = w] \/ port' = [port EXCEPT !.wait = w]
  BY Zenon DEF Signal
<1>5. port'.queue = port.queue
  BY <1>0, <1>4 DEF WidePort
<1>6. \A r \in Refs : OverKept(r)
  BY <1>1, <1>5 DEF OverKept, Ends, R
<1>7. SlotsKept' /\ Once(port'.queue)
  BY <1>1, <1>5 DEF CountInv, SlotsKept, Reserving
<1>8. \A r \in Refs : SlotsFor(r)' = SlotsFor(r)
  BY <1>1 DEF SlotsFor, Makes, Opens, NewOf, R
<1>9. \A d \in Clients : Opens(d)' => Opens(d) /\ NewOf(d)' = NewOf(d) /\ my'[d].slot = my[d].slot
  BY <1>1 DEF Opens, NewOf, R
<1> QED  BY <1>3, <1>6, <1>7, <1>8, <1>9, CountKept

-----------------------------------------------------------------------------
(* The references, always.                                                 *)

LEMMA CountStep ==
  ASSUME MsgAssumption, IsFiniteSet(Slots), Typed, CountInv, [Next]_vars
  PROVE  CountInv'
<1>1. CASE UNCHANGED vars
  BY <1>1 DEF vars, CountInv, SlotsKept, Reserving, CountOf, EndOf, FreshOf, SlotsFor, Makes, Opens, NewOf, Ends, R
<1>2. ASSUME NEW c \in Clients, ClientCalls(c)
      PROVE  CountInv'
  BY <1>2, MakesCount, FindsCount, ForkCounts, DropCounts DEF ClientCalls
<1>3. ASSUME NEW c \in Clients, ClientRuns(c)
      PROVE  CountInv'
  BY <1>3, MadeCount, SendsCount, FindsCount, MakesCount, ShutCounts DEF ClientRuns
<1>4. ASSUME NEW s \in Servers, RecvFind(s) \/ ServerRuns(s) \/ ClosePort(s) \/ \E m \in held : ServerAnswers(s, m)
      PROVE  CountInv'
  BY <1>4, TakeCounts, ReturnCounts, ServersQuiet
<1>5. ASSUME NEW t \in Threads, Signal(t)
      PROVE  CountInv'
  BY <1>5, SignalCounts
<1> QED  BY <1>1, <1>2, <1>3, <1>4, <1>5, Zenon DEF Next

LEMMA CountInit ==
  ASSUME MsgAssumption, Init
  PROVE  CountInv
<1>1. \A c \in Clients : pc[c] = "out"
  BY DEF Init, Threads
<1>2. SlotsKept
  BY <1>1 DEF SlotsKept, Reserving
<1>3. \A c \in Clients : ~Opens(c)
  BY <1>1 DEF Opens
<1>4. \A r \in Refs : SlotsFor(r) = {}
  BY <1>3 DEF Init, SlotsFor, Makes, MsgAssumption
<1>5. port.queue = << >>
  BY DEF Init
<1>6. Once(port.queue) /\ \A r : r \notin Byes(port.queue)
  BY <1>5 DEF Once, Byes
<1>7. \A t \in Threads, r \in Refs : ~Ends(t, r)
  BY DEF Ends, Init
<1>8. \A r \in Refs : CountOf(r) /\ EndOf(r)
  <2>1. \A r \in Refs : ref[r].refs = 0
    BY DEF Init, FreeRef
  <2>2. Cardinality({}) = 0
    BY FS_EmptySet
  <2> QED  BY <1>4, <1>6, <1>7, <2>1, <2>2 DEF CountOf, EndOf
<1> QED  BY <1>2, <1>3, <1>6, <1>8 DEF CountInv, FreshOf

\* What the types are, once the references are counted.
LEMMA CountMeans ==
  ASSUME MsgAssumption, IsFiniteSet(Slots), Typed, CountInv
  PROVE  TypeOK
<1>1. Sendable \subseteq Messages
  BY DEF Sendable
<1>2. ASSUME NEW r \in Refs
      PROVE  ref[r].refs \in 0..Cardinality(Slots)
  <2>1. SlotsFor(r) \subseteq Slots /\ ref[r].refs = Cardinality(SlotsFor(r))
    BY DEF SlotsFor, CountInv, CountOf
  <2>2. Cardinality(SlotsFor(r)) <= Cardinality(Slots) /\ IsFiniteSet(SlotsFor(r))
    BY <2>1, FS_Subset
  <2>3. Cardinality(SlotsFor(r)) \in Nat /\ Cardinality(Slots) \in Nat
    BY <2>2, FS_CardinalityType
  <2> QED  BY <2>1, <2>2, <2>3
<1>3. ref \in [Refs -> RefType]
  <2>1. ref \in [Refs -> WideRef]
    BY DEF Typed, KernelTyped
  <2>2. ASSUME NEW x \in WideRef, x.refs \in 0..Cardinality(Slots)
        PROVE  x \in RefType
    BY <1>1, <2>2 DEF WideRef, RefType
  <2> QED  BY <1>2, <2>1, <2>2
<1>4. port \in PortType
  <2>1. port \in WidePort
    BY DEF Typed, KernelTyped
  <2>2. port.queue \in Seq(Messages)
    BY <1>1, <2>1 DEF WidePort
  <2> QED  BY <2>1, <2>2 DEF WidePort, PortType
<1>5. doomed \in Seq(Messages) /\ got \in [Servers -> Messages \cup Refs \cup {Null}] /\ held \subseteq Messages
  BY <1>1 DEF Typed, ServerTyped
<1> QED  BY <1>3, <1>4, <1>5 DEF Typed, ThreadsTyped, ServerTyped, KernelTyped, Local, TypeOK

LEMMA CountInvariance ==
  ASSUME MsgAssumption, IsFiniteSet(Slots)
  PROVE  Spec => [](Typed /\ CountInv)
<1>1. Init => Typed /\ CountInv
  BY TypedInit, CountInit
<1>2. Typed /\ CountInv /\ [Next]_vars => (Typed /\ CountInv)'
  BY TypedStep, CountStep
<1> QED  BY <1>1, <1>2, PTL DEF Spec

\* A handle has a reference for each slot that holds it and for the one that
\* is reserved while msg_connect() or clone() makes it, whatever the processes
\* do at once; and it is freed, by shut_client() once the server has gone or
\* by the server that receives its DISCONNECT, only when no slot holds it.
\* (Finitely many slots: p_open[] is an array.)
THEOREM HandlesCounted ==
  ASSUME IsFiniteSet(Slots)
  PROVE  Spec => []RefsCounted
<1>1. CountInv => RefsCounted
  BY DEF CountInv, CountOf, RefsCounted
<1> QED  BY <1>1, MsgAssumption, CountInvariance, PTL

\* alloc_portref(), fork_ports() and shut_client() keep p_refs between zero
\* and the number of slots, and the portrefs, the port and the messages have
\* the types the kernel gives them.
THEOREM TypesCorrect ==
  ASSUME IsFiniteSet(Slots)
  PROVE  Spec => []TypeOK
<1>1. Typed /\ CountInv => TypeOK
  BY MsgAssumption, CountMeans
<1> QED  BY <1>1, MsgAssumption, CountInvariance, PTL

=============================================================================
