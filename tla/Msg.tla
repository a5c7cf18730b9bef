-------------------------------- MODULE Msg --------------------------------
(***************************************************************************)
(* The message passing of the kernel: os/kern/msg.c, msgcon.c, msgkern.c   *)
(* and port.c, over one server port.  The threads of a client process      *)
(* connect, exchange messages, clone, share and close their handles        *)
(* (portrefs); the threads of a server process receive, accept, answer,    *)
(* refuse and finally close the port.                                      *)
(*                                                                         *)
(* One processor, preempted where no spinlock is held: an action is the    *)
(* code between the first lock taken and the last one dropped, or the      *)
(* sleep that drops it.  A thread that p_sema() put to sleep goes on, in   *)
(* its next action, once it has left the queue.  The mutexes of the proc   *)
(* structure and of the name table are held over such code only, and are   *)
(* not modelled apart.                                                     *)
(***************************************************************************)
EXTENDS SemaOps, FiniteSets

CONSTANTS
  Clients,     \* threads of the client process
  Servers,     \* threads of the server process
  Refs,        \* addresses of portrefs
  Slots,       \* indices of p_open[]
  Null,        \* the null pointer
  Reserved,    \* PORT_RESERVED
  Does,        \* what the processes are allowed to do, see Acts
  MaxSig,      \* bound on the events sent to sleeping threads
  MaxHeld,     \* bound on the messages the server works on at a time
  MaxDrift     \* bound on the count of p_svwait when a call is made

\* "busy" lets a thread close a handle that another thread is using; "nomap"
\* lets the mapping of returned segments fail for lack of memory.
Acts == {"connect", "send", "read", "write", "clone", "fork", "close",
         "segs", "refuse", "shut", "busy", "nomap"}

ASSUME MsgAssumption ==
  /\ Slots \subseteq Nat
  /\ Does \subseteq Acts
  /\ MaxSig \in Nat /\ MaxHeld \in Nat /\ MaxDrift \in Nat
  /\ Clients \cap Servers = {}
  /\ Null \notin Refs /\ Reserved \notin Refs \cup {Null}

Threads == Clients \cup Servers

VARIABLES
  pc,      \* where in the kernel a thread is; "out": it runs its program
  intr,    \* t_intr: an event ended its last sleep
  my,      \* a client's locals: slot, handle, new handle, kind, and whether
           \* m_nseg of its sysmsg is not zero
  rep,     \* what the server left in the client's sysmsg
  got,     \* a server's local: the message or handle it works on
  ref,     \* the portrefs
  port,    \* the port
  slots,   \* p_open[] of the client process
  hash,    \* p_prefs of the server process
  held,    \* messages received and not answered, in the server's program
  doomed,  \* the list bounce_msgs() walks
  nsig,    \* events sent so far
  panic    \* has an ASSERT failed, or a null pointer been followed?

vars == <<pc, intr, my, rep, got, ref, port, slots, hash, held, doomed, nsig,
          panic>>

\* A sysmsg.  It lives in the frame of the thread it is from, except for that
\* of a DISCONNECT.  new is the portref a DUP announces; seg is sm_nseg # 0.
Message(op, c, r, n, sg) ==
  [op |-> op, from |-> c, pr |-> r, new |-> n, seg |-> sg]

Ops == {"CONNECT", "DISCONNECT", "DUP", "ABORT", "IO"}
Messages == [op : Ops, from : Clients, pr : Refs, new : Refs \cup {Null},
             seg : BOOLEAN]

\* The null pointer points to none.
ASSUME NullIsNoMessage == Null \notin Messages

States == {"IOWAIT", "IODONE", "ABWAIT", "ABDONE", "OPENING", "CLOSING"}

\* alloc_portref(), and memory that holds no portref.
NewRef(st) ==
  [alloc |-> TRUE, state |-> st, port |-> TRUE, refs |-> 1, msg |-> Null,
   sema |-> NewSema(1), iowait |-> NewSema(0), svwait |-> NewSema(0)]
FreeRef ==
  [alloc |-> FALSE, state |-> "IODONE", port |-> FALSE, refs |-> 0,
   msg |-> Null, sema |-> NewSema(0), iowait |-> NewSema(0),
   svwait |-> NewSema(0)]

RefType ==
  [alloc : BOOLEAN, state : States, port : BOOLEAN, refs : 0..Cardinality(Slots),
   msg : Messages \cup {Null}, sema : SemaType(Clients),
   iowait : SemaType(Clients), svwait : SemaType(Servers)]

PortType ==
  [named : BOOLEAN, inproc : BOOLEAN, queue : Seq(Messages),
   wait : SemaType(Servers), sema : SemaType(Servers), refs : SUBSET Refs]

ClientPcs == {"out", "opening", "find", "iowait", "copy", "abwait", "cfind",
              "kwait", "shut", "closing"}
ServerPcs == {"out", "find", "rwait", "rcvd", "dupwake", "duphash", "svwait",
              "dport", "grab", "bounce", "client", "chash", "gone"}

Kinds == {"send", "read", "write"}

\* The states of a portref, p_open[], p_prefs, the queue and the threads are
\* those the kernel gives names to; in particular a reference is counted for
\* every slot, and p_refs never passes their number or falls below zero.
TypeOK ==
  /\ \A c \in Clients : pc[c] \in ClientPcs
  /\ \A s \in Servers : pc[s] \in ServerPcs
  /\ intr \in [Threads -> BOOLEAN]
  /\ my \in [Clients -> [slot : Slots \cup {Null}, pr : Refs \cup {Null},
                         new : Refs \cup {Null}, kind : Kinds, nseg : BOOLEAN]]
  /\ rep \in [Clients -> {"none", "ok", "segs", "err"}]
  /\ got \in [Servers -> Messages \cup Refs \cup {Null}]
  /\ ref \in [Refs -> RefType]
  /\ port \in PortType
  /\ slots \in [Slots -> Refs \cup {Null, Reserved}]
  /\ hash \subseteq Refs
  /\ held \subseteq Messages
  /\ doomed \in Seq(Messages)
  /\ nsig \in 0..MaxSig
  /\ panic \in BOOLEAN

NoCall == [slot |-> Null, pr |-> Null, new |-> Null, kind |-> "send",
           nseg |-> FALSE]

\* The server process has made its port with msg_port(), nobody knows it yet.
Init ==
  /\ pc = [t \in Threads |-> "out"]
  /\ intr = [t \in Threads |-> FALSE]
  /\ my = [c \in Clients |-> NoCall]
  /\ rep = [c \in Clients |-> "none"]
  /\ got = [s \in Servers |-> Null]
  /\ ref = [r \in Refs |-> FreeRef]
  /\ port = [named |-> TRUE, inproc |-> TRUE, queue |-> << >>,
             wait |-> NewSema(0), sema |-> NewSema(1), refs |-> {}]
  /\ slots = [k \in Slots |-> Null]
  /\ hash = {} /\ held = {} /\ doomed = << >>
  /\ nsig = 0 /\ panic = FALSE

serverVars == <<got, hash, held, doomed>>

-----------------------------------------------------------------------------
\* Helpers

\* Slip: the receivers are not told.
EnqueueSilent(p, m) == [p EXCEPT !.queue = Append(@, m)]

\* inline_lqueue_msg(): onto the port's queue, and a unit for the receivers.
Enqueue(p, m) == [p EXCEPT !.queue = Append(@, m), !.wait = VSema(@)]

\* Slips: the list of the port keeps its old contents.
RefPortNot(p, r)   == p
DerefPortNot(p, r) == p

\* ref_port() and deref_port(): the ring p_refs, as the set of its members.
RefPort(p, r)   == [p EXCEPT !.refs = @ \cup {r}]
DerefPort(p, r) == [p EXCEPT !.refs = @ \ {r}]

\* A thread sleeps until the semaphore it is queued on lets it go.
Goto(t, l) == pc' = [pc EXCEPT ![t] = l]

\* The end of a client's system call; its locals and its frame are gone.
Return(c) ==
  /\ Goto(c, "out")
  /\ my' = [my EXCEPT ![c] = NoCall]
  /\ rep' = [rep EXCEPT ![c] = "none"]

\* The two v_sema() calls at out1 of msg_send(), on portref record x.
Out(x, n) == [x EXCEPT !.svwait = IF n THEN VSema(@) ELSE @,
                       !.sema = VSema(@)]

\* Has c, which slept at l on semaphore s, been let go without an event?
Awake(t, l, s) == pc[t] = l /\ ~Queued(s, t) /\ ~intr[t]

\* Has an event ended the sleep of t at l?
Broken(t, l) == pc[t] = l /\ intr[t]

R(c) == my[c].pr
X(c) == ref[my[c].pr]

\* The slot that alloc_open() finds.
FreeSlot(k) == slots[k] = Null /\ \A j \in Slots : j < k => slots[j] # Null

InService(k) == slots[k] \in Refs

-----------------------------------------------------------------------------
\* msg_connect()

MsgConnect(c, k, r) ==
  /\ "connect" \in Does
  /\ pc[c] = "out" /\ port.named /\ FreeSlot(k) /\ ~ref[r].alloc
  /\ slots' = [slots EXCEPT ![k] = Reserved]
  /\ ref' = [ref EXCEPT ![r] = [NewRef("OPENING") EXCEPT !.iowait = PSema(@, c)]]
  /\ port' = Enqueue(port, Message("CONNECT", c, r, Null, FALSE))
  /\ my' = [my EXCEPT ![c] = [NoCall EXCEPT !.slot = k, !.pr = r]]
  /\ Goto(c, "opening")
  /\ UNCHANGED <<intr, rep, serverVars, nsig, panic>>

MsgConnectDone(c) ==
  /\ Awake(c, "opening", X(c).iowait)
  /\ LET ok == X(c).port /\ X(c).state = "IODONE" IN
     /\ slots' = [slots EXCEPT ![my[c].slot] = IF ok THEN R(c) ELSE Null]
     /\ ref' = IF ok THEN ref ELSE [ref EXCEPT ![R(c)] = FreeRef]
  /\ Return(c)
  /\ UNCHANGED <<intr, port, serverVars, nsig, panic>>

-----------------------------------------------------------------------------
\* msg_send().  A "read" comes with room for the answer, a "write" with
\* segments, a "send" with neither.

\* find_portref() up to the handle's mutex.  With no handle in the slot, or
\* with the server gone, the call fails here and changes nothing.
SendFind(c, k, kd) ==
  /\ kd \in Does
  /\ pc[c] = "out" /\ InService(k) /\ ref[slots[k]].port
  /\ ref[slots[k]].svwait.cnt < MaxDrift
  /\ ref' = [ref EXCEPT ![slots[k]].sema = PSema(@, c)]
  /\ my' = [my EXCEPT ![c] = [NoCall EXCEPT !.slot = k, !.pr = slots[k],
                                            !.kind = kd, !.nseg = kd # "send"]]
  /\ Goto(c, "find")
  /\ UNCHANGED <<intr, rep, port, slots, serverVars, nsig, panic>>

\* The rest of find_portref(), and msg_send() until it sleeps.
SendPost(c) ==
  /\ Awake(c, "find", X(c).sema)
  /\ IF X(c).port
     THEN /\ port' = Enqueue(port, Message("IO", c, R(c), Null, my[c].kind = "write"))
          /\ ref' = [ref EXCEPT ![R(c)].state = "IOWAIT", ![R(c)].iowait = PSema(@, c)]
          /\ Goto(c, "iowait")
          /\ UNCHANGED <<my, rep>>
     ELSE /\ ref' = [ref EXCEPT ![R(c)].sema = VSema(@)]
          /\ Return(c)
          /\ UNCHANGED port
  /\ UNCHANGED <<intr, slots, serverVars, nsig, panic>>

\* The answer is there and carries no segments.
SendDone(c) ==
  /\ Awake(c, "iowait", X(c).iowait)
  /\ rep[c] # "segs"
  /\ ref' = [ref EXCEPT ![R(c)] = Out(@, my[c].nseg)]
  /\ Return(c)
  /\ UNCHANGED <<intr, port, slots, serverVars, nsig, panic>>

\* It carries segments: map them.
SendMap(c) ==
  /\ Awake(c, "iowait", X(c).iowait)
  /\ rep[c] = "segs"
  /\ Goto(c, "copy")
  /\ UNCHANGED <<intr, my, rep, ref, port, slots, serverVars, nsig, panic>>

\* Slip: the copy is done, but the server is not told.
CopyDoneSilent(c) ==
  /\ pc[c] = "copy"
  /\ ref' = [ref EXCEPT ![R(c)] = Out(@, FALSE)]
  /\ Return(c)
  /\ UNCHANGED <<intr, port, slots, serverVars, nsig, panic>>

\* Copy them out, set m_nseg, and let the server go on.
CopyDone(c) ==
  /\ pc[c] = "copy"
  /\ ref' = [ref EXCEPT ![R(c)] = Out(@, TRUE)]
  /\ Return(c)
  /\ UNCHANGED <<intr, port, slots, serverVars, nsig, panic>>

\* They cannot be mapped: m_nseg is still what msg_receive() left.
MapFails(c) ==
  /\ "nomap" \in Does
  /\ Awake(c, "iowait", X(c).iowait)
  /\ rep[c] = "segs"
  /\ ref' = [ref EXCEPT ![R(c)] = Out(@, my[c].nseg)]
  /\ Return(c)
  /\ UNCHANGED <<intr, port, slots, serverVars, nsig, panic>>

-----------------------------------------------------------------------------
\* msg_send(), when an event ends the sleep for the answer

\* The sysmsg of c, as it stands in a queue.
Sent(c, m) == m.from = c /\ m.op = "IO"

InQueue(c) == \E i \in 1..Len(port.queue) : Sent(c, port.queue[i])

\* Where it stands there.
PlaceOf(c) == CHOOSE i \in 1..Len(port.queue) : Sent(c, port.queue[i])

Interrupted(c) == Broken(c, "iowait") /\ X(c).state = "IOWAIT"

NoEvent(c) == intr' = [intr EXCEPT ![c] = FALSE]

\* The server has gone.
IntrGone(c) ==
  /\ Interrupted(c) /\ ~X(c).port
  /\ ref' = [ref EXCEPT ![R(c)] = Out([@ EXCEPT !.state = "IODONE"], my[c].nseg)]
  /\ NoEvent(c) /\ Return(c)
  /\ UNCHANGED <<port, slots, serverVars, nsig, panic>>

\* The message is still in the queue: take it out.
IntrWithdraw(c) ==
  /\ Interrupted(c) /\ X(c).port /\ InQueue(c)
  /\ port' = [port EXCEPT !.queue = RemoveAt(@, PlaceOf(c)),
                          !.wait = AdjSema(@, -1)]
  /\ ref' = [ref EXCEPT ![R(c)] = Out([@ EXCEPT !.state = "IODONE"], my[c].nseg)]
  /\ NoEvent(c) /\ Return(c)
  /\ UNCHANGED <<slots, serverVars, nsig, panic>>

\* Slip: the sender leaves at once.
IntrAbortNoWait(c) ==
  /\ Interrupted(c) /\ X(c).port /\ ~InQueue(c)
  /\ port' = Enqueue(port, Message("ABORT", c, R(c), Null, FALSE))
  /\ ref' = [ref EXCEPT ![R(c)] = Out([@ EXCEPT !.state = "IODONE"], my[c].nseg)]
  /\ NoEvent(c) /\ Return(c)
  /\ UNCHANGED <<slots, serverVars, nsig, panic>>

\* The server has it: ask for an abort and sleep, at PRIHI, for the answer.
IntrAbort(c) ==
  /\ Interrupted(c) /\ X(c).port /\ ~InQueue(c)
  /\ port' = Enqueue(port, Message("ABORT", c, R(c), Null, FALSE))
  /\ ref' = [ref EXCEPT ![R(c)].state = "ABWAIT", ![R(c)].iowait = PSema(@, c)]
  /\ NoEvent(c) /\ Goto(c, "abwait")
  /\ UNCHANGED <<my, rep, slots, serverVars, nsig, panic>>

\* Slip: the unit of the lost race stays in p_iowait.
TakeBackNothing(x) == [x EXCEPT !.svwait = IF Blocked(@) THEN VSema(@) ELSE @]

\* Slip: nobody tells the server that the segments will not be copied.
TakeBackAlone(x) == [x EXCEPT !.iowait = SetSema(@, 0)]

\* The answer came first: take back its unit, let a waiting server go on.
TakeBack(x) == [x EXCEPT !.iowait = SetSema(@, 0),
                         !.svwait = IF Blocked(@) THEN VSema(@) ELSE @]

\* Any state but these two fails "msg_send: illegal PS state".
IntrDone(c) ==
  /\ Broken(c, "iowait") /\ X(c).state # "IOWAIT"
  /\ ref' = [ref EXCEPT ![R(c)] = Out(TakeBack(@), my[c].nseg)]
  /\ panic' = (X(c).state # "IODONE")
  /\ NoEvent(c) /\ Return(c)
  /\ UNCHANGED <<port, slots, serverVars, nsig>>

\* The abort is over, one way or another; the call fails with EINTR.
AbortDone(c) ==
  /\ Awake(c, "abwait", X(c).iowait)
  /\ ref' = [ref EXCEPT ![R(c)] = Out(@, my[c].nseg)]
  /\ Return(c)
  /\ UNCHANGED <<intr, port, slots, serverVars, nsig, panic>>

-----------------------------------------------------------------------------

\* find_portref() broken by an event: msg_send() and clone() fail with EINTR.
FindBroken(c) ==
  /\ \/ Broken(c, "find") /\ UNCHANGED slots
     \/ Broken(c, "cfind") /\ slots' = [slots EXCEPT ![my[c].slot] = Null]
  /\ NoEvent(c) /\ Return(c)
  /\ UNCHANGED <<ref, port, serverVars, nsig, panic>>

-----------------------------------------------------------------------------
\* clone(): my.slot is the reserved slot, my.pr the handle that is cloned.

CloneFind(c, k, j) ==
  /\ "clone" \in Does
  /\ pc[c] = "out" /\ InService(k) /\ FreeSlot(j) /\ ref[slots[k]].port
  /\ ref[slots[k]].svwait.cnt < MaxDrift
  /\ slots' = [slots EXCEPT ![j] = Reserved]
  /\ ref' = [ref EXCEPT ![slots[k]].sema = PSema(@, c)]
  /\ my' = [my EXCEPT ![c] = [NoCall EXCEPT !.slot = j, !.pr = slots[k]]]
  /\ Goto(c, "cfind")
  /\ UNCHANGED <<intr, rep, port, serverVars, nsig, panic>>

\* What dup_port() sends, with the new portref n and the state it gives that.
DupMessage(c, n) == Message("DUP", c, R(c), n, FALSE)
DupRef == NewRef("IODONE")

\* dup_port() and kernmsg_send() until it sleeps; n is the new portref.
ClonePost(c, n) ==
  /\ Awake(c, "cfind", X(c).sema)
  /\ ~ref[n].alloc
  /\ IF X(c).port
     THEN /\ port' = Enqueue(port, DupMessage(c, n))
          /\ ref' = [ref EXCEPT ![n] = DupRef,
                                ![R(c)].state = "IOWAIT", ![R(c)].iowait = PSema(@, c)]
          /\ my' = [my EXCEPT ![c].new = n]
          /\ Goto(c, "kwait")
          /\ UNCHANGED <<rep, slots>>
     ELSE /\ ref' = [ref EXCEPT ![R(c)].sema = VSema(@)]
          /\ slots' = [slots EXCEPT ![my[c].slot] = Null]
          /\ Return(c)
          /\ UNCHANGED port
  /\ UNCHANGED <<intr, serverVars, nsig, panic>>

\* The rest of kernmsg_send() and clone().
CloneDone(c) ==
  /\ Awake(c, "kwait", X(c).iowait)
  /\ LET ok == rep[c] # "err"
         n  == my[c].new
     IN /\ slots' = [slots EXCEPT ![my[c].slot] = IF ok THEN n ELSE Null]
        /\ ref' = [ref EXCEPT ![R(c)] = Out(@, TRUE),
                              ![n] = IF ok THEN @ ELSE FreeRef]
  /\ Return(c)
  /\ UNCHANGED <<intr, port, serverVars, nsig, panic>>

-----------------------------------------------------------------------------
\* Sharing and closing a handle

\* fork_ports(), for one handle of the parent: the slot j of the child has it
\* too.  (Slots stands for the tables of both.)
ForkPort(c, k, j) ==
  /\ "fork" \in Does
  /\ pc[c] = "out" /\ InService(k) /\ FreeSlot(j)
  /\ slots' = [slots EXCEPT ![j] = slots[k]]
  /\ ref' = [ref EXCEPT ![slots[k]].refs = @ + 1]
  /\ UNCHANGED <<pc, intr, my, rep, port, serverVars, nsig, panic>>

\* Is a thread in a call on handle r?
InUse(r) == \E c \in Clients : pc[c] # "out" /\ R(c) = r

\* delete_portref(): the slot is free at once.
DeletePortref(k) == slots' = [slots EXCEPT ![k] = Null]

\* Slip: one reference is left.
LastRefButOne(r) == ref[r].refs <= 2

\* shut_client(): is the reference that is dropped the last one?
LastRef(r) == ref[r].refs <= 1

\* msg_disconnect(): delete_portref(), and shut_client() up to the first test.
MsgDisconnect(c, k) ==
  /\ "close" \in Does
  /\ pc[c] = "out" /\ InService(k)
  /\ LET r == slots[k] IN
     /\ "busy" \in Does \/ ~LastRef(r) \/ ~InUse(r)
     /\ ref' = [ref EXCEPT ![r].refs = @ - 1]
     /\ DeletePortref(k)
     /\ IF LastRef(r)
        THEN /\ my' = [my EXCEPT ![c] = [NoCall EXCEPT !.pr = r]]
             /\ Goto(c, "shut")
        ELSE UNCHANGED <<pc, my>>
  /\ UNCHANGED <<intr, rep, port, serverVars, nsig, panic>>

\* The rest of shut_client(): a last message, or nobody left to send it to.
ShutClient(c) ==
  /\ pc[c] = "shut"
  /\ IF X(c).port
     THEN /\ port' = Enqueue(port, Message("DISCONNECT", c, R(c), Null, FALSE))
          /\ ref' = [ref EXCEPT ![R(c)].state = "CLOSING", ![R(c)].sema = PSema(@, c)]
          /\ Goto(c, "closing")
          /\ UNCHANGED <<my, rep>>
     ELSE /\ ref' = [ref EXCEPT ![R(c)] = FreeRef]
          /\ Return(c)
          /\ UNCHANGED port
  /\ UNCHANGED <<intr, slots, serverVars, nsig, panic>>

ShutDone(c) ==
  /\ Awake(c, "closing", X(c).sema)
  /\ Return(c)
  /\ UNCHANGED <<intr, ref, port, slots, serverVars, nsig, panic>>

-----------------------------------------------------------------------------
\* msg_receive()

clientVars == <<my, slots>>

\* find_port() up to the port's mutex.
RecvFind(s) ==
  /\ pc[s] = "out" /\ port.inproc /\ Cardinality(held) < MaxHeld
  /\ port' = [port EXCEPT !.sema = PSema(@, s)]
  /\ Goto(s, "find")
  /\ UNCHANGED <<intr, clientVars, rep, ref, serverVars, nsig, panic>>

\* Wait for a message.
RecvWait(s) ==
  /\ Awake(s, "find", port.sema)
  /\ port' = [port EXCEPT !.wait = PSema(@, s)]
  /\ Goto(s, "rwait")
  /\ UNCHANGED <<intr, clientVars, rep, ref, serverVars, nsig, panic>>

\* An event ended one of the two sleeps.
RecvBroken(s) ==
  /\ \/ Broken(s, "find") /\ UNCHANGED port
     \/ Broken(s, "rwait") /\ port' = [port EXCEPT !.sema = VSema(@)]
  /\ NoEvent(s) /\ Goto(s, "out")
  /\ UNCHANGED <<clientVars, rep, ref, serverVars, nsig, panic>>

\* Take the first message; CONNECT and DISCONNECT change the port's list.
RecvTake(s) ==
  /\ Awake(s, "rwait", port.wait)
  /\ port.queue # << >>
  /\ LET m == Head(port.queue)
         p == [port EXCEPT !.queue = Tail(@)]
     IN
     /\ port' = CASE m.op = "CONNECT"    -> RefPort(p, m.pr)
                  [] m.op = "DISCONNECT" -> DerefPort(p, m.pr)
                  [] OTHER               -> p
     /\ ref' = [ref EXCEPT ![m.pr].msg = m]
     /\ got' = [got EXCEPT ![s] = m]
  /\ Goto(s, "rcvd")
  /\ UNCHANGED <<intr, clientVars, rep, hash, held, doomed, nsig, panic>>

\* "msg_receive: p_wait/p_hd disagree": the null p_hd is followed.
RecvNothing(s) ==
  /\ Awake(s, "rwait", port.wait)
  /\ port.queue = << >>
  /\ panic' = TRUE
  /\ UNCHANGED <<pc, intr, my, rep, ref, port, slots, serverVars, nsig>>

\* new_client() or del_client(), sm_to_m() on the client's frame, and the
\* way out.  A server forgets what a client wants once he has disconnected.
RecvReturn(s) ==
  /\ pc[s] = "rcvd"
  /\ LET m == got[s] IN
     /\ CASE m.op = "CONNECT" ->
               hash' = hash \cup {m.pr} /\ held' = held \cup {m} /\ UNCHANGED <<my, ref>>
          [] m.op = "DISCONNECT" ->
               /\ hash' = hash \ {m.pr}
               /\ held' = {h \in held : h.pr # m.pr}
               /\ ref' = [ref EXCEPT ![m.pr] = FreeRef]
               /\ UNCHANGED my
          [] m.op = "IO" ->
               /\ my' = [my EXCEPT ![m.from].nseg = m.seg]
               /\ held' = held \cup {m}
               /\ UNCHANGED <<hash, ref>>
          [] OTHER ->
               held' = held \cup {m} /\ UNCHANGED <<my, hash, ref>>
     /\ got' = [got EXCEPT ![s] = Null]
  /\ port' = [port EXCEPT !.sema = VSema(@)]
  /\ Goto(s, "out")
  /\ UNCHANGED <<intr, rep, slots, doomed, nsig, panic>>

-----------------------------------------------------------------------------
\* Answers.  The server's program answers what it has received and not
\* answered; once it has acknowledged an M_ABORT it does not answer the
\* request that was aborted.

Holds(s, m) == pc[s] = "out" /\ m \in held
Answered(m) == held' = IF m.op = "ABORT" THEN {h \in held : h.pr # m.pr}
                                         ELSE held \ {m}

\* msg_accept()
MsgAccept(s, m) ==
  /\ Holds(s, m) /\ m.op = "CONNECT"
  /\ ref' = IF m.pr \in hash /\ ref[m.pr].state = "OPENING"
            THEN [ref EXCEPT ![m.pr].state = "IODONE", ![m.pr].iowait = VSema(@)]
            ELSE ref
  /\ Answered(m)
  /\ UNCHANGED <<pc, intr, clientVars, rep, port, got, hash, doomed, nsig, panic>>

\* Slip: the error is not written into the client's sysmsg.
ErrSilent(c) == rep

\* The sysmsg of c after msg_err().
ErrTold(c) == [rep EXCEPT ![c] = "err"]

\* msg_err().  A refused connection leaves the hash even if the port is gone.
MsgErr(s, m) ==
  /\ "refuse" \in Does
  /\ Holds(s, m) /\ m.op \in {"CONNECT", "IO", "DUP"}
  /\ LET r    == m.pr
         x    == ref[r]
         live == r \in hash /\ x.port /\ x.msg # Null
         fail == live /\ x.state \in {"IOWAIT", "OPENING"}
     IN /\ hash' = IF x.state = "OPENING" THEN hash \ {r} ELSE hash
        /\ port' = IF fail /\ x.state = "OPENING"
                   THEN DerefPort(port, r) ELSE port
        /\ ref' = IF fail
                  THEN [ref EXCEPT ![r].state = IF @ = "OPENING" THEN "ABDONE" ELSE "IODONE",
                                   ![r].iowait = VSema(@)]
                  ELSE ref
        /\ rep' = IF fail THEN ErrTold(x.msg.from) ELSE rep
  /\ Answered(m)
  /\ UNCHANGED <<pc, intr, clientVars, got, doomed, nsig, panic>>

\* Slip: a client that waits for his abort gets any answer.
WantedAborting(m) ==
  m.pr \in hash /\ ref[m.pr].state \in {"IOWAIT", "ABWAIT"} /\ ref[m.pr].msg # Null

\* msg_reply(): the client waits for an answer.
Wanted(m) ==
  m.pr \in hash /\ ref[m.pr].state = "IOWAIT" /\ ref[m.pr].msg # Null

Answers == {"ok"} \cup ({"segs"} \cap Does)
                  \cup (IF "refuse" \in Does THEN {"err"} ELSE {})

\* Slip: the units that earlier calls left are not cleared away.
HandoverNoSet(w, s) == PSema(w, s)

\* The server waits at p_svwait until the client has copied the segments.
Handover(w, s) == PSema(SetSema(w, 0), s)

\* Give him the answer; wait for him at p_svwait if it carries segments.
ReplyDone(s, m, a) ==
  /\ Holds(s, m) /\ m.op \in {"IO", "DUP", "ABORT"} /\ Wanted(m)
  /\ LET om == ref[m.pr].msg IN
     /\ a = "err" \/ om.op # "DUP"
     /\ rep' = [rep EXCEPT ![om.from] = a]
     /\ ref' = [ref EXCEPT ![m.pr].msg = Null,
                           ![m.pr].state = "IODONE",
                           ![m.pr].iowait = VSema(@),
                           ![m.pr].svwait = IF a = "segs" THEN Handover(@, s) ELSE @]
     /\ IF a = "segs" THEN Goto(s, "svwait") ELSE UNCHANGED pc
  /\ Answered(m)
  /\ UNCHANGED <<intr, clientVars, port, got, hash, doomed, nsig, panic>>

ReplyRuns(s) ==
  /\ pc[s] = "svwait"
  /\ \A r \in Refs : ~Queued(ref[r].svwait, s)
  /\ Goto(s, "out")
  /\ UNCHANGED <<intr, clientVars, rep, ref, port, serverVars, nsig, panic>>

\* A granted DUP: the new handle joins the port's list, ...
\* (rep records for the properties that it was granted.)
ReplyDup(s, m, a) ==
  /\ Holds(s, m) /\ m.op \in {"IO", "DUP", "ABORT"} /\ Wanted(m)
  /\ LET om == ref[m.pr].msg IN
     /\ a # "err" /\ om.op = "DUP"
     /\ port' = RefPort(port, om.new)
     /\ got' = [got EXCEPT ![s] = om]
     /\ rep' = [rep EXCEPT ![om.from] = "ok"]
  /\ ref' = [ref EXCEPT ![m.pr].state = "IODONE"]
  /\ Answered(m)
  /\ Goto(s, "dupwake")
  /\ UNCHANGED <<intr, clientVars, hash, doomed, nsig, panic>>

\* ... the client is woken, ...
DupWake(s) ==
  /\ pc[s] = "dupwake"
  /\ ref' = [ref EXCEPT ![got[s].pr].iowait = VSema(@)]
  /\ Goto(s, "duphash")
  /\ UNCHANGED <<intr, clientVars, rep, port, serverVars, nsig, panic>>

\* ... and the server's hash learns of the new handle.
DupHash(s) ==
  /\ pc[s] = "duphash"
  /\ hash' = hash \cup {got[s].new}
  /\ got' = [got EXCEPT ![s] = Null]
  /\ Goto(s, "out")
  /\ UNCHANGED <<intr, clientVars, rep, ref, port, held, doomed, nsig, panic>>

\* The client waits for his abort; only the answer to that will do.
ReplyAbort(s, m) ==
  /\ Holds(s, m) /\ m.op \in {"IO", "DUP", "ABORT"}
  /\ m.pr \in hash /\ ref[m.pr].state = "ABWAIT"
  /\ ref' = IF m.op = "ABORT"
            THEN [ref EXCEPT ![m.pr].state = "ABDONE", ![m.pr].iowait = VSema(@)]
            ELSE ref
  /\ Answered(m)
  /\ UNCHANGED <<pc, intr, clientVars, rep, port, got, hash, doomed, nsig, panic>>

\* The client is unknown, or past waiting: EINVAL.
ReplyRefused(s, m) ==
  /\ Holds(s, m) /\ m.op \in {"IO", "DUP", "ABORT"}
  /\ ~Wanted(m) /\ ~(m.pr \in hash /\ ref[m.pr].state = "ABWAIT")
  /\ Answered(m)
  /\ UNCHANGED <<pc, intr, clientVars, rep, ref, port, got, hash, doomed, nsig, panic>>

-----------------------------------------------------------------------------
\* msg_disconnect() of the port: delete_port(), then shut_server()

ClosePort(s) ==
  /\ "shut" \in Does
  /\ pc[s] = "out" /\ port.inproc
  /\ port' = [port EXCEPT !.inproc = FALSE, !.sema = PSema(@, s)]
  /\ Goto(s, "dport")
  /\ UNCHANGED <<intr, clientVars, rep, ref, serverVars, nsig, panic>>

\* The last thread to use the port as a server takes its name away.
CloseName(s) ==
  /\ Awake(s, "dport", port.sema)
  /\ port' = [port EXCEPT !.named = FALSE]
  /\ Goto(s, "grab")
  /\ UNCHANGED <<intr, clientVars, rep, ref, serverVars, nsig, panic>>

\* bounce_msgs(): take the whole queue, ...
Grab(s) ==
  /\ pc[s] = "grab"
  /\ doomed' = port.queue
  /\ port' = [port EXCEPT !.queue = << >>]
  /\ Goto(s, "bounce")
  /\ UNCHANGED <<intr, clientVars, rep, ref, got, hash, held, nsig, panic>>

\* Slip: an aborted request is bounced like any other.
SparedNever(m) == FALSE

\* A request its client has aborted, whose ABORT is bounced in its place.
Spared(m) == ref[m.pr].state = "ABWAIT" /\ m.op # "ABORT"

\* ... and fail each message.  (The error of an ABORT or of a DISCONNECT goes
\* to a sysmsg that nobody looks at.)
Bounce(s) ==
  /\ pc[s] = "bounce" /\ doomed # << >>
  /\ LET m == Head(doomed) IN
     IF Spared(m)
     THEN UNCHANGED <<rep, ref>>
     ELSE /\ rep' = IF m.op \in {"DISCONNECT", "ABORT"} THEN rep
                    ELSE [rep EXCEPT ![m.from] = "err"]
          /\ ref' = [ref EXCEPT ![m.pr].port = FALSE, ![m.pr].iowait = VSema(@)]
  /\ doomed' = Tail(doomed)
  /\ UNCHANGED <<pc, intr, clientVars, port, got, hash, held, nsig, panic>>

BounceEnd(s) ==
  /\ pc[s] = "bounce" /\ doomed = << >>
  /\ Goto(s, "client")
  /\ UNCHANGED <<intr, clientVars, rep, ref, port, serverVars, nsig, panic>>

\* Slip: the client sleeps on.
CutOffAsleep(x) == [x EXCEPT !.port = FALSE]

\* The server is gone, as the client's portref tells it.
CutOff(x) == [x EXCEPT !.port = FALSE,
                       !.iowait = IF Blocked(@) THEN VSema(@) ELSE @]

\* Slip: the queue is not looked at again.
SlippedInNever(p) == FALSE

\* Have messages been queued since bounce_msgs() emptied the queue?
SlippedIn(p) == p.queue # << >>

\* close_client(): cut a client off, unless messages have slipped in.
CloseClient(s, r) ==
  /\ pc[s] = "client" /\ r \in port.refs
  /\ IF SlippedIn(port)
     THEN Goto(s, "grab") /\ UNCHANGED <<ref, port, got>>
     ELSE /\ ref' = [ref EXCEPT ![r] = CutOff(@)]
          /\ port' = DerefPort(port, r)
          /\ got' = [got EXCEPT ![s] = r]
          /\ Goto(s, "chash")
  /\ UNCHANGED <<intr, clientVars, rep, hash, held, doomed, nsig, panic>>

\* hash_delete(), which is asserted to succeed.
CloseHash(s) ==
  /\ pc[s] = "chash"
  /\ panic' = (got[s] \notin hash)
  /\ hash' = hash \ {got[s]}
  /\ got' = [got EXCEPT ![s] = Null]
  /\ Goto(s, "client")
  /\ UNCHANGED <<intr, clientVars, rep, ref, port, held, doomed, nsig>>

\* No client is left on the list: FREE(port).
FreePort(s) ==
  /\ pc[s] = "client" /\ port.refs = {}
  /\ Goto(s, "gone")
  /\ UNCHANGED <<intr, clientVars, rep, ref, port, serverVars, nsig, panic>>

-----------------------------------------------------------------------------
\* signal_thread() on a thread that sleeps with PRICATCH

Signal(t) ==
  /\ nsig < MaxSig
  /\ \/ /\ t \in Clients /\ pc[t] \in {"find", "cfind"} /\ Queued(X(t).sema, t)
        /\ ref' = [ref EXCEPT ![R(t)].sema = Cunsleep(@, t)]
        /\ UNCHANGED port
     \/ /\ t \in Clients /\ pc[t] = "iowait" /\ Queued(X(t).iowait, t)
        /\ ref' = [ref EXCEPT ![R(t)].iowait = Cunsleep(@, t)]
        /\ UNCHANGED port
     \/ /\ t \in Servers /\ pc[t] = "find" /\ Queued(port.sema, t)
        /\ port' = [port EXCEPT !.sema = Cunsleep(@, t)]
        /\ UNCHANGED ref
     \/ /\ t \in Servers /\ pc[t] = "rwait" /\ Queued(port.wait, t)
        /\ port' = [port EXCEPT !.wait = Cunsleep(@, t)]
        /\ UNCHANGED ref
  /\ intr' = [intr EXCEPT ![t] = TRUE]
  /\ nsig' = nsig + 1
  /\ UNCHANGED <<pc, clientVars, rep, serverVars, panic>>

-----------------------------------------------------------------------------

ClientCalls(c) ==
  \/ \E k \in Slots, r \in Refs : MsgConnect(c, k, r)
  \/ \E k \in Slots, kd \in Kinds : SendFind(c, k, kd)
  \/ \E k, j \in Slots : CloneFind(c, k, j) \/ ForkPort(c, k, j)
  \/ \E k \in Slots : MsgDisconnect(c, k)

ClientRuns(c) ==
  \/ MsgConnectDone(c)
  \/ SendPost(c) \/ SendDone(c) \/ SendMap(c) \/ CopyDone(c) \/ MapFails(c)
  \/ IntrGone(c) \/ IntrWithdraw(c) \/ IntrAbort(c) \/ IntrDone(c)
  \/ AbortDone(c) \/ FindBroken(c)
  \/ \E n \in Refs : ClonePost(c, n)
  \/ CloneDone(c)
  \/ ShutClient(c) \/ ShutDone(c)

\* The server's answers; MsgErr and a failing reply are its other choice.
ServerAnswers(s, m) ==
  \/ MsgAccept(s, m) \/ MsgErr(s, m)
  \/ \E a \in Answers : ReplyDone(s, m, a) \/ ReplyDup(s, m, a)
  \/ ReplyAbort(s, m) \/ ReplyRefused(s, m)

ServerRuns(s) ==
  \/ RecvWait(s) \/ RecvBroken(s) \/ RecvTake(s) \/ RecvNothing(s) \/ RecvReturn(s)
  \/ ReplyRuns(s) \/ DupWake(s) \/ DupHash(s)
  \/ CloseName(s) \/ Grab(s) \/ Bounce(s) \/ BounceEnd(s)
  \/ \E r \in Refs : CloseClient(s, r)
  \/ CloseHash(s) \/ FreePort(s)

\* An ASSERT that fails stops the machine.
Next ==
  /\ ~panic
  /\ \/ \E c \in Clients : ClientCalls(c) \/ ClientRuns(c)
     \/ \E s \in Servers : RecvFind(s) \/ ServerRuns(s) \/ ClosePort(s)
     \/ \E s \in Servers, m \in held : ServerAnswers(s, m)
     \/ \E t \in Threads : Signal(t)

Spec == Init /\ [][Next]_vars

\* The scheduler runs every runnable thread in the end, and the server's
\* program keeps receiving and answers every message it has received.
Fairness ==
  /\ \A c \in Clients : WF_vars(~panic /\ ClientRuns(c))
  /\ \A s \in Servers : WF_vars(~panic /\ (RecvFind(s) \/ ServerRuns(s)))
  /\ \A s \in Servers, r \in Refs :
       WF_vars(~panic /\ \E m \in held : m.pr = r /\ ServerAnswers(s, m))

FairSpec == Spec /\ Fairness

-----------------------------------------------------------------------------
\* Properties

\* Does c own the mutex of handle r?  (A thread that p_sema() has been let
\* through by somebody's v_sema() owns it before it runs again.)
Owns(c, r) ==
  /\ R(c) = r
  /\ \/ pc[c] \in {"iowait", "copy", "abwait", "kwait"}
     \/ pc[c] \in {"find", "cfind"} /\ ~Queued(ref[r].sema, c) /\ ~intr[c]

\* Whoever sends on a handle finds p_iowait at zero: no answer, abort or lost
\* race of an earlier call has left a unit there.
IowaitDrained ==
  \A c \in Clients :
    pc[c] \in {"find", "cfind"} /\ Owns(c, R(c)) /\ X(c).port => X(c).iowait.cnt = 0

\* Messages under way in the kernel.
UnderWay == ToSet(port.queue) \cup ToSet(doomed)
            \cup {got[s] : s \in {s \in Servers : pc[s] = "rcvd"}}

\* Where the sender of a message of each kind waits for its answer.
WaitsFor(op) == CASE op = "CONNECT" -> {"opening"}
                  [] op = "DUP"     -> {"kwait"}
                  [] op = "ABORT"   -> {"abwait"}
                  [] op = "IO"      -> {"iowait", "abwait"}
                  [] OTHER          -> ClientPcs

\* A message in the kernel's hands belongs to an allocated handle, and the
\* stack frame it lives in is that of a system call still going on.
FramesLive ==
  \A m \in UnderWay :
    /\ ref[m.pr].alloc
    /\ m.op # "DISCONNECT" => R(m.from) = m.pr /\ pc[m.from] \in WaitsFor(m.op)

\* A client that sleeps for an answer has a message with somebody who will
\* see to it: queued, about to be bounced, or in the hands of a server that
\* still finds the client in its hash.
NoneForgotten ==
  \A c \in Clients :
    pc[c] \in {"opening", "iowait", "abwait", "kwait"} /\ Queued(X(c).iowait, c) =>
      \/ \E m \in UnderWay \cup {h \in held : h.pr \in hash} :
           m.from = c /\ m.pr = R(c) /\ pc[c] \in WaitsFor(m.op)
      \/ \E s \in Servers : pc[s] = "dupwake" /\ got[s].from = c

\* A server that waits for a client to copy his segments has one who will.
ServerNotForgotten ==
  \A s \in Servers, r \in Refs : Queued(ref[r].svwait, s) =>
    \E c \in Clients : R(c) = r /\ pc[c] \in {"iowait", "copy"}
                       /\ ~Queued(ref[r].iowait, c)

\* While a client copies the segments of an answer, the server that owns them
\* is held in msg_reply().
SegStable ==
  \A c \in Clients : pc[c] = "copy" =>
    \E s \in Servers : Queued(X(c).svwait, s)

\* A client goes on without an event only once it has been answered.
WokenMeansAnswered ==
  \A c \in Clients :
    (\E l \in {"iowait", "kwait"} : Awake(c, l, X(c).iowait)) => rep[c] # "none"

\* Every handle a client can use is on the list of its port, and in the
\* server's hash unless it is on its way there.
Registered ==
  \A k \in Slots : InService(k) /\ ref[slots[k]].port =>
    /\ slots[k] \in port.refs
    /\ slots[k] \in hash \/ \E s \in Servers : pc[s] = "duphash" /\ got[s].new = slots[k]

\* The port's list, the server's hash and the clients' tables and calls hold
\* no freed portref.  (The thread that closes the port is about to drop the
\* one it has just cut off from the hash.)
NoDangling ==
  \A r \in Refs :
    \/ r \in port.refs \cup (hash \ {got[s] : s \in {s \in Servers : pc[s] = "chash"}})
    \/ \E k \in Slots : slots[k] = r
    \/ \E c \in Clients : R(c) = r /\ pc[c] \notin {"out", "closing"}
    => ref[r].alloc

\* Client c is in msg_connect() or clone() and makes handle r for slot k.
Opens(c) == pc[c] \in {"opening", "kwait"}
NewOf(c) == IF pc[c] = "opening" THEN R(c) ELSE my[c].new
Makes(c, k, r) == Opens(c) /\ NewOf(c) = r /\ my[c].slot = k

\* The slots that hold handle r, and the one that is reserved for it.
SlotsFor(r) == {k \in Slots : slots[k] = r \/ \E c \in Clients : Makes(c, k, r)}

\* p_refs counts the slots a handle is in, or is to be put in, and no handle is
\* freed while there is one, whoever closes it and whoever is using it.
RefsCounted ==
  \A r \in Refs : /\ ref[r].refs = Cardinality(SlotsFor(r))
                  /\ SlotsFor(r) # {} => ref[r].alloc

\* Once the port is freed no handle in service points to it, no message is
\* left in its queue and nobody sleeps on its semaphores.
Severed ==
  (\E s \in Servers : pc[s] = "gone") =>
    /\ \A k \in Slots : InService(k) => ~ref[slots[k]].port
    /\ port.queue = << >> /\ port.sema.q = << >> /\ port.wait.q = << >>

\* p_wait counts the messages nobody has been woken for, and those who have
\* been woken find one each, as long as no event breaks a send: an event may
\* take a message away from the receiver that was woken for it.
UnitPerMessage ==
  port.inproc /\ nsig = 0 =>
    Len(port.queue) = (IF port.wait.cnt > 0 THEN port.wait.cnt ELSE 0)
                      + Cardinality({s \in Servers : Awake(s, "rwait", port.wait)})

\* "We *know* it's > 0": the message that an interrupted sender takes out of
\* the queue is one that p_wait counts.
WithdrawIsCounted ==
  \A c \in Clients : Interrupted(c) /\ X(c).port /\ InQueue(c) => port.wait.cnt > 0

\* The ASSERT of shut_server(): every client on the port's list is known to
\* the server's hash when it is cut off, refused and departed ones included.
StillHashed == \A s \in Servers : pc[s] = "chash" => got[s] \in hash

\* An answer is written once, into the frame of a call that waits for it.
AnsweredOnce ==
  [][\A c \in Clients : rep'[c] \notin {"none", rep[c]} =>
       rep[c] = "none" /\ pc[c] \in {"opening", "iowait", "kwait"}]_vars

\* Every call that waits for a handle or for the server returns, unless the
\* machine stops.
CallsReturn ==
  \A c \in Clients :
    pc[c] \in {"opening", "find", "iowait", "copy", "abwait", "cfind", "kwait"}
      ~> pc[c] = "out" \/ panic

-----------------------------------------------------------------------------
\* Module Rpc: the exchange of each client, as its callers see it

InExchange(c) == pc[c] \in {"iowait", "copy", "abwait", "kwait"}

\* The request of c is in the queue, nobody has received it.
Posted(c) == \E m \in ToSet(port.queue) : m.from = c /\ m.op \in {"IO", "DUP"}

Stage(c) ==
  IF ~InExchange(c) THEN "idle"
  ELSE IF Posted(c) THEN "posted"
  ELSE IF pc[c] = "abwait" /\ Queued(X(c).iowait, c) THEN "aborting"
  ELSE IF pc[c] \in {"iowait", "kwait"} /\ rep[c] = "none" THEN "taken"
  ELSE "settled"

Exchange == INSTANCE Rpc WITH
  stage <- [c \in Clients |-> Stage(c)],
  on    <- [c \in Clients |-> IF InExchange(c) THEN R(c) ELSE Null]

\* Sends, receipts, answers and aborts follow the protocol of module Rpc.
ImplementsRpc == Exchange!Spec

=============================================================================
