------------------------------ MODULE FifoSema ------------------------------
(***************************************************************************)
(* What the sleeping semaphores of the kernel promise to their callers:    *)
(* units are neither lost nor made up, sleepers are served in the order    *)
(* they came, a unit released while somebody sleeps is handed to the first *)
(* sleeper and cannot be taken by anybody else, and only an interruptible  *)
(* sleep ends without a unit.  Module Sema implements this with the ring   *)
(* of t_hd/t_tl pointers of os/mach/mutex.c.                               *)
(***************************************************************************)
EXTENDS SemaOps, Thread

CONSTANTS
  Semas,       \* semaphores
  MaxGiven     \* bound on the units ever put into one semaphore

ASSUME FifoSemaAssumption == MaxGiven \in Nat

VARIABLES
  sem,     \* the semaphores: count and queue
  st,      \* of a thread: "out" of p_sema(), "asleep", or "woken" inside it
  on,      \* the semaphore a thread is, or was last, inside p_sema() for
  catch,   \* did it ask for PRICATCH?
  intr,    \* t_intr: an event, not a unit, ended the sleep
  given,   \* units ever put into a semaphore (its first count included)
  taken    \* p_sema() calls that returned success

vars == <<sem, st, on, catch, intr, given, taken>>

\* Every thread is out of p_sema(), asleep in it or woken in it, and queues
\* and counters are what p_sema() and v_sema() can make of them.
TypeOK ==
  /\ sem \in [Semas -> SemaType(Threads)]
  /\ st \in [Threads -> {"out", "asleep", "woken"}]
  /\ on \in [Threads -> Semas]
  /\ catch \in [Threads -> BOOLEAN]
  /\ intr \in [Threads -> BOOLEAN]
  /\ given \in [Semas -> Nat]
  /\ taken \in [Semas -> Nat]

Init ==
  /\ given \in [Semas -> 0..1]
  /\ sem = [s \in Semas |-> NewSema(given[s])]
  /\ st = [t \in Threads |-> "out"]
  /\ on \in [Threads -> Semas]
  /\ catch = [t \in Threads |-> FALSE]
  /\ intr = [t \in Threads |-> FALSE]
  /\ taken = [s \in Semas |-> 0]

\* A unit is there: p_sema(), p_sema_v_lock() and cp_sema() return at once.
Take(t, s) ==
  /\ st[t] = "out"
  /\ Free(sem[s])
  /\ sem' = [sem EXCEPT ![s] = PSema(@, t)]
  /\ taken' = [taken EXCEPT ![s] = @ + 1]
  /\ UNCHANGED <<st, on, catch, intr, given>>

\* None is there: the thread falls asleep behind all that sleep already.
Wait(t, s, c) ==
  /\ st[t] = "out"
  /\ ~Free(sem[s])
  /\ sem' = [sem EXCEPT ![s] = PSema(@, t)]
  /\ st' = [st EXCEPT ![t] = "asleep"]
  /\ on' = [on EXCEPT ![t] = s]
  /\ catch' = [catch EXCEPT ![t] = c]
  /\ intr' = [intr EXCEPT ![t] = FALSE]
  /\ UNCHANGED <<given, taken>>

\* A unit is released; the first sleeper, if any, owns it from here on.
Give(s) ==
  /\ given[s] < MaxGiven
  /\ sem' = [sem EXCEPT ![s] = VSema(@)]
  /\ given' = [given EXCEPT ![s] = @ + 1]
  /\ st' = IF sem[s].q = << >> THEN st
           ELSE [st EXCEPT ![Head(sem[s].q)] = "woken"]
  /\ UNCHANGED <<on, catch, intr, taken>>

\* An event ends an interruptible sleep.
Interrupt(t) ==
  /\ st[t] = "asleep"
  /\ catch[t]
  /\ sem' = [sem EXCEPT ![on[t]] = Cunsleep(@, t)]
  /\ st' = [st EXCEPT ![t] = "woken"]
  /\ intr' = [intr EXCEPT ![t] = TRUE]
  /\ UNCHANGED <<on, catch, given, taken>>

\* The woken thread runs again and learns whether it has the unit.
Return(t) ==
  /\ st[t] = "woken"
  /\ st' = [st EXCEPT ![t] = "out"]
  /\ catch' = [catch EXCEPT ![t] = FALSE]
  /\ taken' = IF intr[t] THEN taken ELSE [taken EXCEPT ![on[t]] = @ + 1]
  /\ UNCHANGED <<sem, on, intr, given>>

Next ==
  \/ \E t \in Threads, s \in Semas : Take(t, s)
  \/ \E t \in Threads, s \in Semas, c \in BOOLEAN : Wait(t, s, c)
  \/ \E s \in Semas : Give(s)
  \/ \E t \in Threads : Interrupt(t) \/ Return(t)

Spec == Init /\ [][Next]_vars

-----------------------------------------------------------------------------

\* Every queue holds the threads asleep on that semaphore, each once, and
\* the count of the semaphore agrees with it.
QueuesOK ==
  \A s \in Semas :
    /\ QueueDistinct(sem[s])
    /\ CountIsQueue(sem[s])
    /\ \A t \in Threads : Queued(sem[s], t) <=> (st[t] = "asleep" /\ on[t] = s)

\* Threads that were handed a unit of s and have not run since.
Granted(s) == {t \in Threads : st[t] = "woken" /\ on[t] = s /\ ~intr[t]}

\* No unit is lost or made up: all that were given are taken, in the count,
\* or in the hands of a woken thread.
UnitsConserved ==
  \A s \in Semas :
    given[s] = taken[s] + (IF sem[s].cnt > 0 THEN sem[s].cnt ELSE 0)
                        + Cardinality(Granted(s))

\* Only an interruptible sleep ends without the unit.
OnlyCatchIsInterrupted ==
  \A t \in Threads : st[t] = "woken" /\ intr[t] => catch[t]

=============================================================================
