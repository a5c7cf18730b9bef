-------------------------------- MODULE Sema --------------------------------
(***************************************************************************)
(* os/mach/mutex.c: the sleeping semaphores, down to the ring of threads.  *)
(* A thread asleep on a semaphore is linked through t_hd (towards younger  *)
(* sleepers) and t_tl (towards older ones) into a ring that s_sleepq       *)
(* enters at the oldest sleeper.  signal_thread() of os/kern/event.c is    *)
(* here too: it is the one caller of cunsleep().                           *)
(*                                                                         *)
(* One processor: a routine that holds s_lock or runq_lock at SPLHI cannot *)
(* be interrupted, so each action below is one such region.  vall_sema()   *)
(* is a loop of two steps: it reads s_count without s_lock, and calls      *)
(* v_sema(), which takes the lock, when what it read may be out of date.   *)
(***************************************************************************)
EXTENDS Integers, Sequences, FiniteSets

CONSTANTS
  Threads,     \* struct thread addresses
  Semas,       \* sema_t addresses
  Null,        \* the null pointer
  MaxGiven     \* bound on the units ever put into one semaphore

ASSUME SemaAssumption ==
  /\ IsFiniteSet(Threads) /\ MaxGiven \in Nat
  /\ Null \notin Threads \cup Semas

VARIABLES
  s_count, s_sleepq,                   \* of a sema_t
  t_hd, t_tl, t_wchan, t_nointr, t_intr,  \* of a struct thread
  pc,      \* "out" of the routines, "sleep" (TS_SLEEP), "woken" (runnable
           \* again, inside p_sema()), at the test of the loop of
           \* "vall"_sema(), or behind it, on the way into v_sema() ("vcall")
  arg,     \* the semaphore last passed to p_sema()
  varg,    \* the semaphore passed to vall_sema()
  given,   \* history: units ever put into the semaphore
  taken,   \* history: p_sema() calls that returned 0
  mixed    \* history: semaphores on which an event has broken a sleep, or
           \* that had a unit from elsewhere than vall_sema()

semaVars   == <<s_count, s_sleepq>>
threadVars == <<t_hd, t_tl, t_wchan, t_nointr, t_intr>>
history    == <<given, taken, mixed>>
vars       == <<semaVars, threadVars, pc, arg, varg, history>>

\* A wait channel is a semaphore or nothing, and the links of the ring join
\* threads: q_sema() and the assignments of p_sema() mix neither up.
TypeOK ==
  /\ s_count \in [Semas -> Int]
  /\ s_sleepq \in [Semas -> Threads \cup {Null}]
  /\ t_hd \in [Threads -> Threads \cup {Null}]
  /\ t_tl \in [Threads -> Threads \cup {Null}]
  /\ t_wchan \in [Threads -> Semas \cup {Null}]
  /\ t_nointr \in [Threads -> BOOLEAN]
  /\ t_intr \in [Threads -> BOOLEAN]
  /\ pc \in [Threads -> {"out", "sleep", "woken", "vall", "vcall"}]
  /\ arg \in [Threads -> Semas]
  /\ varg \in [Threads -> Semas \cup {Null}]
  /\ given \in [Semas -> Nat]
  /\ taken \in [Semas -> Nat]
  /\ mixed \subseteq Semas

\* init_sema() gives a count of 1; the kernel's event semaphores are then
\* set_sema() to 0 before anybody can reach them.
Init ==
  /\ s_count \in [Semas -> 0..1]
  /\ s_sleepq = [s \in Semas |-> Null]
  /\ t_hd = [t \in Threads |-> Null]
  /\ t_tl = [t \in Threads |-> Null]
  /\ t_wchan = [t \in Threads |-> Null]
  /\ t_nointr = [t \in Threads |-> FALSE]
  /\ t_intr = [t \in Threads |-> FALSE]
  /\ pc = [t \in Threads |-> "out"]
  /\ arg \in [Threads -> Semas]
  /\ varg = [t \in Threads |-> Null]
  /\ given = s_count
  /\ taken = [s \in Semas |-> 0]
  /\ mixed = {s \in Semas : s_count[s] > 0}

-----------------------------------------------------------------------------
\* Slip: the youngest sleeper is not linked forward to the newcomer.
QSemaForgetsTail(s, t) ==
  LET head == s_sleepq[s] IN
  IF head = Null
  THEN /\ s_sleepq' = [s_sleepq EXCEPT ![s] = t]
       /\ t_hd' = [t_hd EXCEPT ![t] = t]
       /\ t_tl' = [t_tl EXCEPT ![t] = t]
  ELSE /\ t_hd' = [t_hd EXCEPT ![t] = head]
       /\ t_tl' = [t_tl EXCEPT ![t] = t_tl[head], ![head] = t]
       /\ UNCHANGED s_sleepq

\* Put t at the tail of the ring of s.
QSema(s, t) ==
  LET head == s_sleepq[s] IN
  IF head = Null
  THEN /\ s_sleepq' = [s_sleepq EXCEPT ![s] = t]
       /\ t_hd' = [t_hd EXCEPT ![t] = t]
       /\ t_tl' = [t_tl EXCEPT ![t] = t]
  ELSE /\ t_hd' = [t_hd EXCEPT ![t] = head, ![t_tl[head]] = t]
       /\ t_tl' = [t_tl EXCEPT ![t] = t_tl[head], ![head] = t]
       /\ UNCHANGED s_sleepq

\* Unlink t from the ring of s.  (The links of t itself go stale; nothing
\* reads them until QSema has set them again.)
DqSema(s, t) ==
  /\ s_count' = [s_count EXCEPT ![s] = @ + 1]
  /\ IF t_hd[t] = t
     THEN /\ s_sleepq' = [s_sleepq EXCEPT ![s] = Null]
          /\ UNCHANGED <<t_hd, t_tl>>
     ELSE /\ t_tl' = [t_tl EXCEPT ![t_hd[t]] = t_tl[t]]
          /\ t_hd' = [t_hd EXCEPT ![t_tl[t]] = t_hd[t]]
          /\ s_sleepq' = [s_sleepq EXCEPT ![s] = IF @ = t THEN t_hd[t] ELSE @]

\* Slip: t_intr keeps the verdict of an earlier, interrupted sleep.
BlockStaleIntr(t, s, hi) ==
  /\ t_wchan' = [t_wchan EXCEPT ![t] = s]
  /\ t_nointr' = [t_nointr EXCEPT ![t] = hi]
  /\ QSema(s, t)
  /\ pc' = [pc EXCEPT ![t] = "sleep"]
  /\ arg' = [arg EXCEPT ![t] = s]
  /\ UNCHANGED <<t_intr, varg, history>>

\* The part that p_sema() and p_sema_v_lock() share: there is no unit, so
\* queue up and leave the processor (the caller's lock is dropped with it).
Block(t, s, hi) ==
  /\ t_wchan' = [t_wchan EXCEPT ![t] = s]
  /\ t_nointr' = [t_nointr EXCEPT ![t] = hi]
  /\ t_intr' = [t_intr EXCEPT ![t] = FALSE]
  /\ QSema(s, t)
  /\ pc' = [pc EXCEPT ![t] = "sleep"]
  /\ arg' = [arg EXCEPT ![t] = s]
  /\ UNCHANGED <<varg, history>>

PSema(t, s, hi) ==
  /\ pc[t] = "out"
  /\ s_count' = [s_count EXCEPT ![s] = @ - 1]
  /\ \/ /\ s_count[s] - 1 >= 0
        /\ taken' = [taken EXCEPT ![s] = @ + 1]
        /\ UNCHANGED <<s_sleepq, threadVars, pc, arg, varg, given, mixed>>
     \/ s_count[s] - 1 < 0 /\ Block(t, s, hi)

\* Back on the processor: success unless an event ended the sleep.
PReturn(t) ==
  /\ pc[t] = "woken"
  /\ pc' = [pc EXCEPT ![t] = "out"]
  /\ t_nointr' = [t_nointr EXCEPT ![t] = FALSE]
  /\ taken' = IF t_intr[t] THEN taken ELSE [taken EXCEPT ![arg[t]] = @ + 1]
  /\ UNCHANGED <<semaVars, t_hd, t_tl, t_wchan, t_intr, arg, varg, given, mixed>>

CpSema(t, s) ==
  /\ pc[t] = "out"
  /\ s_count[s] > 0
  /\ s_count' = [s_count EXCEPT ![s] = @ - 1]
  /\ taken' = [taken EXCEPT ![s] = @ + 1]
  /\ UNCHANGED <<s_sleepq, threadVars, pc, arg, varg, given, mixed>>

\* Wake the oldest sleeper (lsetrun() makes it runnable), or count a unit.
\* The caller goes from where all threads are to where `at` has them.
Release(s, at) ==
  LET t == s_sleepq[s] IN
  /\ given[s] < MaxGiven
  /\ given' = [given EXCEPT ![s] = @ + 1]
  /\ IF t # Null
     THEN /\ DqSema(s, t)
          /\ t_wchan' = [t_wchan EXCEPT ![t] = Null]
          /\ pc' = [at EXCEPT ![t] = "woken"]
     ELSE /\ s_count' = [s_count EXCEPT ![s] = @ + 1]
          /\ pc' = at
          /\ UNCHANGED <<s_sleepq, t_hd, t_tl, t_wchan>>
  /\ UNCHANGED <<t_nointr, t_intr, arg, varg, taken>>

\* v_sema() never sleeps and may run in an interrupt handler: it needs no
\* thread of its own.
VSema(s) == Release(s, pc) /\ mixed' = mixed \cup {s}

\* vall_sema(): enter the loop, ...
VallSema(t, s) ==
  /\ pc[t] = "out"
  /\ pc' = [pc EXCEPT ![t] = "vall"]
  /\ varg' = [varg EXCEPT ![t] = s]
  /\ UNCHANGED <<semaVars, threadVars, arg, history>>

\* Slip: the loop ends with one sleeper left.
VallTestShort(t) ==
  /\ pc[t] = "vall"
  /\ IF s_count[varg[t]] < -1
     THEN pc' = [pc EXCEPT ![t] = "vcall"] /\ UNCHANGED varg
     ELSE pc' = [pc EXCEPT ![t] = "out"] /\ varg' = [varg EXCEPT ![t] = Null]
  /\ UNCHANGED <<semaVars, threadVars, arg, history>>

\* Slip: the loop goes on once more when nobody sleeps.
VallTestLong(t) ==
  /\ pc[t] = "vall"
  /\ IF s_count[varg[t]] <= 0
     THEN pc' = [pc EXCEPT ![t] = "vcall"] /\ UNCHANGED varg
     ELSE pc' = [pc EXCEPT ![t] = "out"] /\ varg' = [varg EXCEPT ![t] = Null]
  /\ UNCHANGED <<semaVars, threadVars, arg, history>>

\* ... its test, without the lock, ...
VallTest(t) ==
  /\ pc[t] = "vall"
  /\ IF s_count[varg[t]] < 0
     THEN pc' = [pc EXCEPT ![t] = "vcall"] /\ UNCHANGED varg
     ELSE pc' = [pc EXCEPT ![t] = "out"] /\ varg' = [varg EXCEPT ![t] = Null]
  /\ UNCHANGED <<semaVars, threadVars, arg, history>>

\* ... and v_sema(), whoever sleeps there by now.
VallGive(t) ==
  /\ pc[t] = "vcall"
  /\ Release(varg[t], [pc EXCEPT ![t] = "vall"])
  /\ UNCHANGED mixed

\* Slip: the interrupted thread still claims to wait on the semaphore.
CunsleepKeepsWchan(t) ==
  /\ DqSema(t_wchan[t], t)
  /\ t_intr' = [t_intr EXCEPT ![t] = TRUE]
  /\ UNCHANGED t_wchan

Cunsleep(t) ==
  /\ DqSema(t_wchan[t], t)
  /\ t_wchan' = [t_wchan EXCEPT ![t] = Null]
  /\ t_intr' = [t_intr EXCEPT ![t] = TRUE]

\* An event for a thread that sleeps interruptibly; threads in any other
\* state keep the event for their return to user mode.
SignalThread(t) ==
  /\ pc[t] = "sleep"
  /\ ~t_nointr[t]
  /\ Cunsleep(t)
  /\ pc' = [pc EXCEPT ![t] = "woken"]
  /\ mixed' = mixed \cup {t_wchan[t]}
  /\ UNCHANGED <<t_nointr, arg, varg, given, taken>>

Next ==
  \/ \E t \in Threads, s \in Semas, hi \in BOOLEAN : PSema(t, s, hi)
  \/ \E t \in Threads, s \in Semas : CpSema(t, s) \/ VallSema(t, s)
  \/ \E s \in Semas : VSema(s)
  \/ \E t \in Threads : PReturn(t) \/ VallTest(t) \/ VallGive(t) \/ SignalThread(t)

\* The scheduler runs every runnable thread in the end.
Fairness == \A t \in Threads : WF_vars(PReturn(t)) /\ WF_vars(VallTest(t)) /\ WF_vars(VallGive(t))

Spec == Init /\ [][Next]_vars /\ Fairness

-----------------------------------------------------------------------------
Sleepers(s) == {t \in Threads : t_wchan[t] = s}

\* t_hd followed i times from the oldest sleeper of s.
Walk(s) ==
  LET f[i \in 0..Cardinality(Threads)] ==
        IF i = 0 THEN s_sleepq[s] ELSE t_hd[f[i-1]]
  IN  f

\* The queue of s as the ring spells it, from s_sleepq on.
RingQueue(s) == [i \in 1..Cardinality(Sleepers(s)) |-> Walk(s)[i-1]]

\* The ring of s is one cycle through exactly the threads that sleep on s,
\* linked the same way in both directions, and s_count is negative by their
\* number: q_sema(), dq_sema() and cunsleep() from the middle of the ring
\* leave nobody stranded on it and nobody on it twice.
RingOK ==
  \A s \in Semas :
    LET n == Cardinality(Sleepers(s)) IN
    /\ s_count[s] < 0 => s_count[s] = -n
    /\ s_count[s] >= 0 => n = 0
    /\ IF n = 0 THEN s_sleepq[s] = Null
       ELSE /\ {Walk(s)[i] : i \in 0..n-1} = Sleepers(s)
            /\ Walk(s)[n] = s_sleepq[s]
            /\ \A t \in Sleepers(s) : t_tl[t_hd[t]] = t /\ t_hd[t_tl[t]] = t

\* The assertions of p_sema() on its way out: an interrupted sleep has left
\* its wait channel, and was not a PRIHI one.
WakeAsserts ==
  \A t \in Threads :
    pc[t] = "woken" => /\ t_wchan[t] = Null
                       /\ t_intr[t] => ~t_nointr[t]

Turning(s) == {t \in Threads : pc[t] \in {"vall", "vcall"} /\ varg[t] = s}

\* vall_sema() on a semaphore does not end before all that slept on it when
\* it was called have been woken: while it runs, nobody overtakes them, and
\* that it reads s_count without the lock never makes it give up early.
VallWakesAll ==
  \A t \in Threads, u \in Threads :
    (t \in Turning(arg[u]) /\ pc[u] = "sleep")
      ~> (pc[u] # "sleep" \/ given[arg[u]] = MaxGiven)

\* "XXX races on MP": a sleeper that vall_sema() has seen may be woken by
\* another caller before it calls v_sema(), which then leaves a unit for
\* nobody.  On a semaphore that nobody else releases, and on which no sleep is
\* broken (p_lockwait and swap_wait), these units do not pile up, whoever
\* comes and goes: there are fewer than threads that can race for the last
\* sleeper.
VallSurplus ==
  \A s \in Semas \ mixed : s_count[s] > 0 => s_count[s] <= Cardinality(Threads) - 2

\* The ring implements the FIFO queue of units.
Fifo == INSTANCE FifoSema WITH
  sem   <- [s \in Semas |-> [cnt |-> s_count[s], q |-> RingQueue(s)]],
  st    <- [t \in Threads |-> CASE pc[t] = "sleep" -> "asleep"
                                [] pc[t] = "woken" -> "woken"
                                [] OTHER -> "out"],
  on    <- arg,
  catch <- [t \in Threads |-> pc[t] \in {"sleep", "woken"} /\ ~t_nointr[t]],
  intr  <- t_intr

\* Every behaviour of the ring code is one of the abstract semaphores.
ImplementsFifo == Fifo!Spec

=============================================================================
