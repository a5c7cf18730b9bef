------------------------------- MODULE Clock -------------------------------
(***************************************************************************)
(* The clock interrupt and timed sleeps of os/kern/xclock.c, put together  *)
(* with the semaphores they sleep on (FifoSema) and the scheduler that     *)
(* runs and preempts the threads (Sched): a step of a thread that sleeps   *)
(* or wakes somebody is a step of both.                                    *)
(*                                                                         *)
(* The interrupt handler may itself be interrupted by the next tick until  *)
(* alarm_wakeup() takes time_lock; no thread runs before it is done.  Time *)
(* is kept relative: left[t] is how many ticks are left to the e_time of   *)
(* the entry of t, until it leaves the list, so that the clock runs for    *)
(* ever in finitely many states.                                           *)
(***************************************************************************)
EXTENDS FifoSema, Sched

CONSTANTS
  Hz,         \* ticks in a second
  MaxPast, MaxAhead,   \* deadlines lie that many ticks behind or ahead
  MaxPend,    \* ticks that arrive while one is being handled
  Does        \* pairs <<t, c>>: thread t makes call c in this instance

\* The e_sema of the entry of thread t is named t.
ASSUME ClockAssumption ==
  /\ Threads \subseteq Semas
  /\ Hz \in Nat \ {0} /\ MaxPast \in Nat /\ MaxAhead \in Nat /\ MaxPend \in Nat

VARIABLES
  phase,    \* pc_time[0]: ticks since the second began
  pend,     \* pc_ticks: ticks not yet counted
  clk,      \* CPU_CLOCK: "off"; "on", sti() done; "alarm", holding time_lock
  eventq,   \* the list of sleepers, by owner
  left,     \* e_time, relative to now
  onlist,   \* e_onlist
  asks      \* is the thread in timed_sleep(), its entry allocated?

timeVars  == <<phase, pend, clk>>
entryVars == <<eventq, left, onlist, asks>>
semaVars  == vars
clockVars == <<semaVars, schedVars, timeVars, entryVars>>

Others == Semas \ Threads

ClockInit ==
  /\ Init /\ SchedInit
  /\ on = [t \in Threads |-> t]
  /\ \A t \in Threads : given[t] = 0
  /\ phase = 0 /\ pend = 0 /\ clk = "off"
  /\ eventq = << >>
  /\ left = [t \in Threads |-> 0]
  /\ onlist = [t \in Threads |-> FALSE]
  /\ asks = [t \in Threads |-> FALSE]

\* Thread t executes kernel or user code, outside of interrupts and of the
\* calls below.
Calls(t, what) ==
  /\ clk = "off" /\ AtLarge(t)
  /\ st[t] = "out" /\ ~asks[t]
  /\ <<t, what>> \in Does

-----------------------------------------------------------------------------
\* timed_sleep()

\* The list is ordered to the second, counted from the current one.
Second(d) == (phase + d) \div Hz

\* Slip: the newcomer goes to the head of the list.
PlaceFirst(d) == 1

\* Before the first entry that is due in the same second or later.
Place(d) ==
  LET later == {i \in 1..Len(eventq) : Second(d) <= Second(left[eventq[i]])}
  IN IF later = {} THEN Len(eventq) + 1 ELSE Min(later)

\* Enter the list and sleep on the entry's semaphore, all under time_lock.
\* d is how far away the deadline is; time_sleep() lets events end the sleep,
\* interval_sleep(), which counts in seconds, does not.
TimedSleep(t, d, c) ==
  /\ \/ Calls(t, "time_sleep") /\ c
     \/ Calls(t, "interval_sleep") /\ ~c /\ d >= 0 /\ d % Hz = 0
  /\ eventq' = InsertAt(eventq, Place(d), t)
  /\ left' = [left EXCEPT ![t] = d]
  /\ onlist' = [onlist EXCEPT ![t] = TRUE]
  /\ asks' = [asks EXCEPT ![t] = TRUE]
  /\ Wait(t, t, c)
  /\ GoToSleep(t)
  /\ UNCHANGED timeVars

\* p_sema_v_lock() comes back.
WakesUp(t) ==
  /\ clk = "off" /\ Running(t)
  /\ Return(t)
  /\ UNCHANGED <<schedVars, timeVars, entryVars>>

\* FREE(): the next entry of t, and its semaphore, are new.
FreeEntry(t) ==
  /\ asks' = [asks EXCEPT ![t] = FALSE]
  /\ onlist' = [onlist EXCEPT ![t] = FALSE]
  /\ left' = [left EXCEPT ![t] = 0]
  /\ sem' = [sem EXCEPT ![t] = NewSema(0)]
  /\ given' = [given EXCEPT ![t] = 0]
  /\ taken' = [taken EXCEPT ![t] = 0]
  /\ UNCHANGED <<st, on, catch, intr, schedVars, timeVars>>

\* Slip: an interrupted sleeper trusts that the alarm has not found it.
SleepEndsBlind(t) ==
  /\ clk = "off" /\ Running(t)
  /\ asks[t] /\ st[t] = "out"
  /\ UNCHANGED eventq
  /\ FreeEntry(t)

\* The rest of timed_sleep(): an interrupted sleeper takes its entry off the
\* list, if the alarm has not done so in the meantime.
SleepEnds(t) ==
  /\ clk = "off" /\ Running(t)
  /\ asks[t] /\ st[t] = "out"
  /\ eventq' = IF intr[t] /\ onlist[t] THEN RemoveFirst(eventq, t) ELSE eventq
  /\ FreeEntry(t)

-----------------------------------------------------------------------------
\* hardclock()

\* Time passes: the tick at hand and those that came during the last one.
ClockTick ==
  /\ clk = "off"
  /\ clk' = "on"
  /\ phase' = (phase + pend + 1) % Hz
  /\ left' = [t \in Threads |-> IF onlist[t] THEN left[t] - pend - 1 ELSE left[t]]
  /\ pend' = 0
  /\ Tick
  /\ UNCHANGED <<semaVars, eventq, onlist, asks>>

\* "If we re-entered, just log a tick and get out."
NestedTick ==
  /\ clk = "on"
  /\ pend < MaxPend
  /\ pend' = pend + 1
  /\ UNCHANGED <<semaVars, schedVars, phase, clk, entryVars>>

\* Entries whose time has come, as far as alarm_wakeup() looks.
Hits == {i \in 1..Len(eventq) :
           /\ left[eventq[i]] <= 0
           /\ \A j \in 1..i : Second(left[eventq[j]]) <= 0}

\* One turn of the loop of alarm_wakeup(): the next hit leaves the list and
\* is woken, unless an event has done that already.
AlarmTurn ==
  /\ clk # "off"
  /\ Hits # {}
  /\ clk' = "alarm"
  /\ LET i == Min(Hits) IN
      /\ eventq' = RemoveAt(eventq, i)
      /\ onlist' = [onlist EXCEPT ![eventq[i]] = FALSE]
      /\ Give(eventq[i])
      /\ IF sem[eventq[i]].q # << >> THEN Wake(eventq[i]) ELSE UNCHANGED schedVars
  /\ UNCHANGED <<phase, pend, left, asks>>

\* Slip: CPU_CLOCK stays set, and all later ticks are only logged.
ClockDoneNot ==
  /\ clk # "off"
  /\ Hits = {}
  /\ clk' = "on"
  /\ UNCHANGED <<semaVars, schedVars, phase, pend, entryVars>>

\* The handler is done: CPU_CLOCK is cleared, and threads may run.
ClockDone ==
  /\ clk # "off"
  /\ Hits = {}
  /\ clk' = "off"
  /\ UNCHANGED <<semaVars, schedVars, phase, pend, entryVars>>

-----------------------------------------------------------------------------
\* Everything else that threads do

\* signal_thread() of another thread, or of its own process.
Signal(t) ==
  /\ clk = "off" /\ cpu = "run"
  /\ Interrupt(t)
  /\ Wake(t)
  /\ UNCHANGED <<timeVars, entryVars>>

\* p_sema() and v_sema() on an ordinary semaphore, v_sema() by an interrupt
\* as well.
Lock(t, s) ==
  /\ Calls(t, "lock")
  /\ \/ Take(t, s) /\ UNCHANGED schedVars
     \/ \E c \in BOOLEAN : Wait(t, s, c) /\ GoToSleep(t)
  /\ UNCHANGED <<timeVars, entryVars>>

Unlock(s) ==
  /\ clk = "off" /\ cpu # "swtch"
  /\ Give(s)
  /\ IF sem[s].q # << >> THEN Wake(Head(sem[s].q)) ELSE UNCHANGED schedVars
  /\ UNCHANGED <<timeVars, entryVars>>

\* System calls about scheduling, fork() and exit().
Schedules(t) ==
  /\ \/ Calls(t, "yield") /\ Yield(t)
     \/ \E c \in Classes : Calls(t, "prio") /\ SetPrio(t, c)
     \/ \E new \in Threads : Calls(t, "fork") /\ (ForkThread(t, new) \/ Fork(t, new))
     \/ Calls(t, "exit") /\ ExitUnlink(t)
     \/ clk = "off" /\ ForkEnds(t)
     \/ clk = "off" /\ ExitSwtch(t)
     \/ clk = "off" /\ Preempt(t)
  /\ UNCHANGED <<semaVars, timeVars, entryVars>>

Switches ==
  /\ clk = "off"
  /\ SchedStep
  /\ UNCHANGED <<semaVars, timeVars, entryVars>>

ClockNext ==
  \/ ClockTick \/ NestedTick \/ AlarmTurn \/ ClockDone \/ Switches
  \/ \E s \in Others : Unlock(s)
  \/ \E t \in Threads :
       \/ \E d \in (-MaxPast)..MaxAhead, c \in BOOLEAN : TimedSleep(t, d, c)
       \/ WakesUp(t) \/ SleepEnds(t) \/ Signal(t) \/ Schedules(t)
       \/ \E s \in Others : Lock(t, s)

ClockSpec == ClockInit /\ [][ClockNext]_clockVars

\* The clock keeps ticking: swtch() holds interrupts back for a moment only,
\* and a pending one is taken as soon as they are enabled.  The handler and
\* swtch() run on.
Fairness ==
  /\ SF_clockVars(ClockTick)
  /\ WF_clockVars(AlarmTurn) /\ WF_clockVars(ClockDone) /\ WF_clockVars(Switches)

FairClockSpec == ClockSpec /\ Fairness

-----------------------------------------------------------------------------

\* The list holds each entry once and only while it is allocated: no alarm
\* touches a freed one.  e_onlist says so for the one who would free it.
ListHoldsEntries ==
  /\ IsInjective(eventq)
  /\ \A t \in Threads :
       /\ onlist[t] <=> Contains(eventq, t)
       /\ onlist[t] => asks[t]

\* "Our list is ordered to the second"
ListSorted ==
  \A i, j \in 1..Len(eventq) :
    i < j => Second(left[eventq[i]]) <= Second(left[eventq[j]])

\* "alarm_set: spurious wakeup": a sleep that no event has ended was ended by
\* the alarm, and not before its time.
WokenByAlarm ==
  \A t \in Threads :
    asks[t] /\ st[t] # "asleep" /\ ~intr[t] => ~onlist[t] /\ left[t] <= 0

EventqOK == ListHoldsEntries /\ ListSorted /\ WokenByAlarm

\* When the clock interrupt is over nobody is left behind whose time had come.
NobodyOverslept ==
  [][clk # "off" /\ clk' = "off" =>
       \A i \in 1..Len(eventq') : left'[eventq'[i]] > 0]_clockVars

\* A timed sleep ends.
SleepsEnd == \A t \in Threads : onlist[t] ~> tstate[t] # "SLEEP"

=============================================================================
