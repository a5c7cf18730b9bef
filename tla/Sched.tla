------------------------------- MODULE Sched -------------------------------
(***************************************************************************)
(* The scheduler of os/kern/sched.c on its one processor, with the parts   *)
(* of mutex.c, proc.c, xclock.c and locore.h that change its state.  Names *)
(* are unique to this module, so that it can be composed with others.      *)
(*                                                                         *)
(* Everything done under runq_lock at SPLHI is atomic.  swtch() is entered *)
(* with that lock held: between the action that enters it and the one that *)
(* leaves it, cpu is "swtch" and nothing else can happen.                  *)
(***************************************************************************)
EXTENDS Thread, Integers, SequencesExt

CONSTANTS
  Procs,       \* processes, and their nodes below sched_root
  Home,        \* the process of a thread
  Root,        \* the node sched_root
  Boot,        \* the thread of the boot process
  None,        \* no thread: curthread == 0
  RunTicks,    \* RUN_TICKS, the quantum
  MaxOink,     \* T_MAX_OINK
  Exits,       \* threads that call exit()
  Prios        \* pairs <<t, c>>: t may give itself class c by sched_op()

ASSUME SchedAssumption ==
  /\ Home \in [Threads -> Procs]
  /\ Threads \cap Procs = {} /\ Root \notin Threads \cup Procs
  /\ Boot \in Threads /\ None \notin Threads
  /\ RunTicks \in Nat \ {0} /\ MaxOink \in Nat

VARIABLES
  tstate,   \* t_state: "SLEEP", "RUN", "ONPROC"; "NEW" for a
            \* TS_SLEEP before the first setrun(), "none" for no thread
  class,    \* t_flags: "RT", "BG", or neither ("TS")
  ticks,    \* t_runticks
  oink,     \* t_oink
  leaving,  \* where do_exit() is: "no", "exit", or "last" of its process
  child,    \* the thread that a thread has forked and not yet set running
  rt, cheated, bg,   \* the rings at sched_rt, sched_cheated, sched_bg
  down,     \* the ring of ready leaves below the node of a process
  linked,   \* nodes in the ring below sched_root
  nrun,     \* s_nrun of leaves, nodes and root
  numrun,   \* num_run
  cur,      \* curthread
  pri,      \* cpu.pc_pri
  pre,      \* do_preempt
  cpu       \* "run", "swtch", "idle" (about to look), "hlt" (has looked), "halted"

queues    == <<rt, cheated, bg, down, nrun>>
schedVars == <<tstate, class, ticks, oink, leaving, child, queues, linked, numrun,
               cur, pri, pre, cpu>>

\* PRI_BG, PRI_TIMESHARE, PRI_CHEATED, PRI_RT
PriOf == [BG |-> 1, TS |-> 2, cheated |-> 3, RT |-> 4]
Classes == {"TS", "BG", "RT"}
CheatTicks == (RunTicks + 1) \div 2
Nodes == Threads \cup Procs \cup {Root}

\* A leaf and the nodes above it, by s_up.
Path(t) == {t, Home[t], Root}

Exists(t) == tstate[t] # "none"

\* Threads, node states and rings have their types; counts never go below 0.
SchedTypeOK ==
  /\ tstate \in [Threads -> {"none", "NEW", "SLEEP", "RUN", "ONPROC"}]
  /\ class \in [Threads -> Classes]
  /\ ticks \in [Threads -> 0..RunTicks]
  /\ oink \in [Threads -> 0..MaxOink]
  /\ leaving \in [Threads -> {"no", "exit", "last"}]
  /\ child \in [Threads -> Threads \cup {None}]
  /\ rt \in Seq(Threads) /\ cheated \in Seq(Threads) /\ bg \in Seq(Threads)
  /\ down \in [Procs -> SUBSET Threads]
  /\ linked \subseteq Procs
  /\ nrun \in [Nodes -> Nat]
  /\ numrun \in Nat
  /\ cur \in Threads \cup {None}
  /\ pri \in 0..4
  /\ pre \in BOOLEAN
  /\ cpu \in {"run", "swtch", "idle", "hlt", "halted"}

\* After bootproc() of a process, whose thread has been set running;
\* the processor comes to swtch() from the boot code.
SchedInit ==
  /\ tstate = [t \in Threads |-> IF t = Boot THEN "RUN" ELSE "none"]
  /\ class = [t \in Threads |-> "TS"]
  /\ ticks = [t \in Threads |-> 0]
  /\ oink = [t \in Threads |-> 0]
  /\ leaving = [t \in Threads |-> "no"]
  /\ child = [t \in Threads |-> None]
  /\ rt = << >> /\ cheated = << >> /\ bg = << >>
  /\ down = [p \in Procs |-> IF p = Home[Boot] THEN {Boot} ELSE {}]
  /\ linked = {Home[Boot]}
  /\ nrun = [x \in Nodes |-> IF x \in Path(Boot) THEN 1 ELSE 0]
  /\ numrun = 1
  /\ cur = None
  /\ pri = 0
  /\ pre = FALSE
  /\ cpu = "swtch"

Running(t) == cpu = "run" /\ cur = t

\* In user mode, or at a place in the kernel where it may do anything.
AtLarge(t) == Running(t) /\ leaving[t] = "no" /\ child[t] = None

-----------------------------------------------------------------------------
\* lsetrun() and its callers

\* A timeshare thread that gave up the processor early is queued ahead.
Preferred(t) == ticks[t] > CheatTicks /\ oink[t] = 0

\* Slip: the leaf is queued, and the nodes above it do not learn of it.
EnterTreeUncounted(t) ==
  /\ down' = [down EXCEPT ![Home[t]] = @ \cup {t}]
  /\ nrun' = [nrun EXCEPT ![t] = @ + 1]

\* The leaf joins the ring of its process; counts rise up to the root.
EnterTree(t) ==
  /\ down' = [down EXCEPT ![Home[t]] = @ \cup {t}]
  /\ nrun' = [x \in Nodes |-> IF x \in Path(t) THEN nrun[x] + 1 ELSE nrun[x]]

\* preempt() is called for a real-time thread, and for a preferred one if
\* the processor does something of lower priority.
NudgeFor(t) ==
  pre \/ class[t] = "RT"
      \/ (class[t] = "TS" /\ Preferred(t) /\ pri < PriOf["cheated"])

\* Slip: background threads join the tree as the others do.
EnqueueNoBg(t) ==
  \/ /\ class[t] = "RT"
     /\ rt' = Append(rt, t)
     /\ UNCHANGED <<cheated, bg, down, nrun>>
  \/ /\ class[t] # "RT"
     /\ EnterTree(t)
     /\ UNCHANGED <<rt, cheated, bg>>

\* Slip: real-time threads are queued last in, first out.
EnqueueRtFirst(t) ==
  \/ /\ class[t] = "RT"
     /\ rt' = <<t>> \o rt
     /\ UNCHANGED <<cheated, bg, down, nrun>>
  \/ /\ class[t] = "BG"
     /\ bg' = Append(bg, t)
     /\ UNCHANGED <<rt, cheated, down, nrun>>
  \/ /\ class[t] = "TS"
     /\ EnterTree(t)
     /\ UNCHANGED <<rt, cheated, bg>>

\* The leaf joins the ring of its class, at the tail.
Enqueue(t) ==
  \/ /\ class[t] = "RT"
     /\ rt' = Append(rt, t)
     /\ UNCHANGED <<cheated, bg, down, nrun>>
  \/ /\ class[t] = "BG"
     /\ bg' = Append(bg, t)
     /\ UNCHANGED <<rt, cheated, down, nrun>>
  \/ /\ class[t] = "TS" /\ Preferred(t)
     /\ cheated' = Append(cheated, t)
     /\ UNCHANGED <<rt, bg, down, nrun>>
  \/ /\ class[t] = "TS" /\ ~Preferred(t)
     /\ EnterTree(t)
     /\ UNCHANGED <<rt, cheated, bg>>

\* Taking an interrupt ends a hlt, after which idle() looks again.
Unhalt == cpu' = IF cpu = "halted" THEN "idle" ELSE cpu

\* setrun(), or lsetrun() under the lock.
SetRun(t) ==
  /\ tstate' = [tstate EXCEPT ![t] = "RUN"]
  /\ numrun' = numrun + 1
  /\ Enqueue(t)
  /\ pre' = NudgeFor(t)
  /\ UNCHANGED <<class, ticks, oink, leaving, linked, cur, pri>>

\* v_sema() or an event wakes a sleeper; the current thread does that, or an
\* interrupt.
Wake(t) ==
  /\ cpu # "swtch"
  /\ tstate[t] = "SLEEP"
  /\ SetRun(t)
  /\ Unhalt
  /\ UNCHANGED child

\* timeslice(): off the processor, back on a ring, and into swtch().
Timeslice(t) ==
  /\ Running(t)
  /\ tstate' = [tstate EXCEPT ![t] = "RUN"]
  /\ Enqueue(t)
  /\ pre' = FALSE
  /\ cpu' = "swtch"
  /\ UNCHANGED <<class, ticks, oink, leaving, child, linked, numrun, cur, pri>>

\* CHECK_PREEMPT() on the way out of an interrupt, a trap or a system call.
Preempt(t) == pre /\ Timeslice(t)

\* SCHEDOP_YIELD
Yield(t) == AtLarge(t) /\ Timeslice(t)

\* Slip: the sleeper is still counted as runnable.
GoToSleepCounted(t) ==
  /\ Running(t)
  /\ tstate' = [tstate EXCEPT ![t] = "SLEEP"]
  /\ oink' = [oink EXCEPT ![t] = IF @ > 0 THEN @ - 1 ELSE 0]
  /\ pre' = FALSE
  /\ cpu' = "swtch"
  /\ UNCHANGED <<class, ticks, leaving, child, queues, linked, numrun, cur, pri>>

\* The end of p_sema(): asleep, no longer counted, and into swtch().
GoToSleep(t) ==
  /\ Running(t)
  /\ tstate' = [tstate EXCEPT ![t] = "SLEEP"]
  /\ numrun' = numrun - 1
  /\ oink' = [oink EXCEPT ![t] = IF @ > 0 THEN @ - 1 ELSE 0]
  /\ pre' = FALSE
  /\ cpu' = "swtch"
  /\ UNCHANGED <<class, ticks, leaving, child, queues, linked, cur, pri>>

-----------------------------------------------------------------------------
\* swtch() and idle()

\* The thread picked gets the processor, and a new quantum unless it goes on
\* with its last one.  The priority is not recorded if it had the processor.
OntoCpu(t, p) ==
  /\ tstate' = [tstate EXCEPT ![t] = "ONPROC"]
  /\ ticks' = IF p = PriOf["cheated"] THEN ticks
              ELSE [ticks EXCEPT ![t] = RunTicks]
  /\ pri' = IF cur = t THEN pri ELSE p
  /\ cur' = t
  /\ cpu' = "run"
  /\ UNCHANGED <<class, oink, leaving, child, linked, numrun, pre>>

PickRT ==
  /\ cpu = "swtch"
  /\ rt # << >>
  /\ rt' = Tail(rt)
  /\ OntoCpu(Head(rt), PriOf["RT"])
  /\ UNCHANGED <<cheated, bg, down, nrun>>

PickCheated ==
  /\ cpu = "swtch"
  /\ rt = << >> /\ cheated # << >>
  /\ cheated' = Tail(cheated)
  /\ OntoCpu(Head(cheated), PriOf["cheated"])
  /\ UNCHANGED <<rt, bg, down, nrun>>

\* pick_run(): the lottery may be won by any node with a ready leaf, and
\* then by any leaf below it.
Winners == {t \in Threads : Home[t] \in linked /\ t \in down[Home[t]]
                            /\ nrun[Home[t]] > 0 /\ nrun[t] > 0}

PickTree(t) ==
  /\ cpu = "swtch"
  /\ rt = << >> /\ cheated = << >> /\ nrun[Root] > 0
  /\ t \in Winners
  /\ down' = [down EXCEPT ![Home[t]] = @ \ {t}]
  /\ nrun' = [x \in Nodes |-> IF x \in Path(t) THEN nrun[x] - 1 ELSE nrun[x]]
  /\ OntoCpu(t, PriOf["TS"])
  /\ UNCHANGED <<rt, cheated, bg>>

PickBG ==
  /\ cpu = "swtch"
  /\ rt = << >> /\ cheated = << >> /\ nrun[Root] = 0 /\ bg # << >>
  /\ bg' = Tail(bg)
  /\ OntoCpu(Head(bg), PriOf["BG"])
  /\ UNCHANGED <<rt, cheated, down, nrun>>

\* Nobody to run: give up curthread and idle, without the lock.
GoIdle ==
  /\ cpu = "swtch"
  /\ rt = << >> /\ cheated = << >> /\ nrun[Root] = 0 /\ bg = << >>
  /\ cur' = None
  /\ cpu' = "idle"
  /\ UNCHANGED <<tstate, class, ticks, oink, leaving, child, queues, linked, numrun, pri, pre>>

\* idle() looks at num_run: back into the loop of swtch(), or on to its hlt.
IdleLook ==
  /\ cpu = "idle"
  /\ cpu' = IF numrun # 0 THEN "swtch" ELSE "hlt"
  /\ UNCHANGED <<tstate, class, ticks, oink, leaving, child, queues, linked, numrun,
                 cur, pri, pre>>

IdleHalt ==
  /\ cpu = "hlt"
  /\ cpu' = "halted"
  /\ UNCHANGED <<tstate, class, ticks, oink, leaving, child, queues, linked, numrun,
                 cur, pri, pre>>

\* What hardclock() does to the current thread: its quantum shrinks, and at
\* the end of it the processor is asked to change hands.
Tick ==
  /\ cpu # "swtch"
  /\ \/ cur = None /\ UNCHANGED <<ticks, oink, pre>>
     \/ /\ cur # None
        /\ ticks[cur] > 1
        /\ ticks' = [ticks EXCEPT ![cur] = @ - 1]
        /\ UNCHANGED <<oink, pre>>
     \/ /\ cur # None
        /\ ticks[cur] <= 1
        /\ ticks' = [ticks EXCEPT ![cur] = 0]
        /\ oink' = [oink EXCEPT ![cur] = IF @ < MaxOink THEN @ + 1 ELSE @]
        /\ pre' = TRUE
  /\ Unhalt
  /\ UNCHANGED <<tstate, class, leaving, child, queues, linked, numrun, cur, pri>>

-----------------------------------------------------------------------------
\* Priorities, and threads that come and go

\* SCHEDOP_SETPRIO: sched_prichg()
SetPrio(t, c) ==
  /\ AtLarge(t)
  /\ <<t, c>> \in Prios
  /\ class' = [class EXCEPT ![t] = c]
  /\ pre' = (pre \/ pri > PriOf[c])
  /\ pri' = PriOf[c]
  /\ UNCHANGED <<tstate, ticks, oink, leaving, child, queues, linked, numrun, cur, cpu>>

\* Threads of a process that are on its p_threads.
Members(p) == {x \in Threads : Exists(x) /\ Home[x] = p /\ leaving[x] = "no"}

\* fork_thread(): a leaf below the node of the process.
ForkThread(t, new) ==
  /\ AtLarge(t)
  /\ ~Exists(new) /\ Home[new] = Home[t]
  /\ tstate' = [tstate EXCEPT ![new] = "NEW"]
  /\ class' = [class EXCEPT ![new] = class[t]]
  /\ ticks' = [ticks EXCEPT ![new] = ticks[t]]
  /\ oink' = [oink EXCEPT ![new] = 0]
  /\ nrun' = [nrun EXCEPT ![new] = 0]
  /\ child' = [child EXCEPT ![t] = new]
  /\ UNCHANGED <<leaving, rt, cheated, bg, down, linked, numrun, cur, pri, pre, cpu>>

\* fork(): sched_node() and sched_thread().  The memory of a node is another
\* one than that of any node before: its name is taken again only when no
\* thread of the old process is left.
Fork(t, new) ==
  /\ AtLarge(t)
  /\ \A x \in Threads : Home[x] = Home[new] => ~Exists(x)
  /\ tstate' = [tstate EXCEPT ![new] = "NEW"]
  /\ class' = [class EXCEPT ![new] = class[t]]
  /\ ticks' = [ticks EXCEPT ![new] = 0]
  /\ oink' = [oink EXCEPT ![new] = 0]
  /\ nrun' = [nrun EXCEPT ![new] = 0, ![Home[new]] = 0]
  /\ down' = [down EXCEPT ![Home[new]] = {}]
  /\ linked' = linked \cup {Home[new]}
  /\ child' = [child EXCEPT ![t] = new]
  /\ UNCHANGED <<leaving, rt, cheated, bg, numrun, cur, pri, pre, cpu>>

\* Both end with the setrun() of the new thread.
ForkEnds(t) ==
  /\ Running(t)
  /\ child[t] # None
  /\ SetRun(child[t])
  /\ child' = [child EXCEPT ![t] = None]
  /\ UNCHANGED cpu

\* do_exit(), under p_sema: off p_threads, and is nobody left there?
ExitUnlink(t) ==
  /\ AtLarge(t)
  /\ t \in Exits
  /\ leaving' = [leaving EXCEPT
                   ![t] = IF Members(Home[t]) = {t} THEN "last" ELSE "exit"]
  /\ UNCHANGED <<tstate, class, ticks, oink, child, queues, linked, numrun, cur, pri, pre, cpu>>

\* Slip: any thread that exits takes the node of its process along.
LastToLeave(t) == leaving[t] # "no"

\* Did do_exit() find nobody else on p_threads?
IsLast(t) == leaving[t] = "last"

\* The end of do_exit(), without preemption: the leaf is freed, by the last
\* thread the node of the process too, and the processor goes to another.
ExitSwtch(t) ==
  /\ Running(t) /\ leaving[t] # "no"
  /\ linked' = IF IsLast(t) THEN linked \ {Home[t]} ELSE linked
  /\ tstate' = [tstate EXCEPT ![t] = "none"]
  /\ leaving' = [leaving EXCEPT ![t] = "no"]
  /\ class' = [class EXCEPT ![t] = "TS"]
  /\ ticks' = [ticks EXCEPT ![t] = 0]
  /\ oink' = [oink EXCEPT ![t] = 0]
  /\ numrun' = numrun - 1
  /\ cur' = None
  /\ pre' = FALSE
  /\ cpu' = "swtch"
  /\ UNCHANGED <<child, queues, pri>>

SchedStep ==
  \/ PickRT \/ PickCheated \/ PickBG \/ GoIdle \/ IdleLook \/ IdleHalt
  \/ \E t \in Threads : PickTree(t)

SchedNext ==
  \/ SchedStep \/ Tick
  \/ \E t \in Threads :
       \/ Wake(t) \/ Preempt(t) \/ Yield(t) \/ ForkEnds(t) \/ GoToSleep(t)
       \/ ExitUnlink(t) \/ ExitSwtch(t)
       \/ \E c \in Classes : SetPrio(t, c)
       \/ \E new \in Threads : ForkThread(t, new) \/ Fork(t, new)

SchedSpec == SchedInit /\ [][SchedNext]_schedVars

\* The clock keeps ticking, swtch() and idle() run on, and a preemption that
\* is asked for takes place: at the latest when the interrupt returns that
\* asked for it, or the next one.
SchedFairness ==
  /\ SF_schedVars(Tick)
  /\ WF_schedVars(SchedStep)
  /\ \A t \in Threads : WF_schedVars(Preempt(t))

FairSchedSpec == SchedSpec /\ SchedFairness

-----------------------------------------------------------------------------

InRing(q, t) == Contains(q, t)

\* A thread is on exactly one ring while it is runnable, the one of its
\* class, and on none while it runs or sleeps.
RunnableQueued ==
  /\ IsInjective(rt) /\ IsInjective(cheated) /\ IsInjective(bg)
  /\ \A t \in Threads :
       LET ready == tstate[t] = "RUN"
           tree == t \in down[Home[t]]
       IN /\ InRing(rt, t) <=> (ready /\ class[t] = "RT")
          /\ InRing(bg, t) <=> (ready /\ class[t] = "BG")
          /\ (InRing(cheated, t) \/ tree) <=> (ready /\ class[t] = "TS")
          /\ ~(InRing(cheated, t) /\ tree)
          /\ \A p \in Procs : t \in down[p] => p = Home[t]

\* "# processes runnable below this node", at leaves, nodes and root.
Ready == {t \in Threads : t \in down[Home[t]]}
NrunCounts ==
  \A x \in Nodes : nrun[x] = Cardinality({t \in Ready : x \in Path(t)})

\* num_run counts the threads that run or are ready to: idle() waits for no
\* other sign of work, and turns for ever if it sees work that is not there.
NumRunExact == numrun = Cardinality({t \in Threads : tstate[t] \in {"RUN", "ONPROC"}})

\* The thread on the processor is the one that is "ONPROC".
OneOnProc ==
  \A t \in Threads : tstate[t] = "ONPROC" <=> (cpu # "swtch" /\ cur = t)

\* pick_run()'s "pick_run: !nrun": when the root counts somebody the walk
\* down the tree finds a leaf, and no node without one wins the lottery.
PickFinds ==
  cpu = "swtch" /\ nrun[Root] > 0 =>
    \E p \in linked : nrun[p] > 0 /\ \E t \in down[p] : nrun[t] > 0

\* A real-time thread that is ready gets the processor, even from others of
\* its class, whatever wakes, sleeps, yields or exits in between.
RealtimeRuns ==
  \A t \in Threads :
    (tstate[t] = "RUN" /\ class[t] = "RT") ~> tstate[t] = "ONPROC"

=============================================================================
