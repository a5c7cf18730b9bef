---------------------------- MODULE Clock_proofs ----------------------------
(***************************************************************************)
(* First the promises of the sleeping semaphores, for any threads,         *)
(* semaphores and units.  Then the scheduler's rings and counters, for any *)
(* threads, processes, quanta and order of wakes, preemptions, forks and   *)
(* exits; and timed sleeps over them, for any number of threads, any       *)
(* length of a second and any deadlines: the list of alarms stays whole    *)
(* and sorted, nobody oversleeps and nobody is woken early, and what holds *)
(* of the semaphores and of the scheduler on their own still holds when    *)
(* the clock drives them both.                                             *)
(***************************************************************************)
EXTENDS Clock, SemaOps_proofs, FiniteSetTheorems, WellFoundedInduction

-----------------------------------------------------------------------------
(* The semaphores by themselves.                                           *)

\* t_intr is clear while a thread sleeps: a verdict is always about this sleep.
FreshIntr == \A t \in Threads : st[t] = "asleep" => ~intr[t]

\* The invariant that the theorems below share.  The queues carry it: what
\* p_sema(), v_sema() and cunsleep() do to a count is only right because the
\* queue holds exactly the threads that are asleep.
IInv == TypeOK /\ QueuesOK /\ OnlyCatchIsInterrupted /\ FreshIntr

\* One semaphore changes from s to n and the sleepers of all others stay.
LEMMA QueuesStep ==
  ASSUME IInv, TypeOK', NEW s \in Semas,
         \A r \in Semas \ {s} : sem'[r] = sem[r],
         CountIsQueue(sem'[s]), QueueDistinct(sem'[s]),
         \A t \in Threads, r \in Semas \ {s} :
           (st'[t] = "asleep" /\ on'[t] = r) <=> (st[t] = "asleep" /\ on[t] = r),
         \A t \in Threads :
           Queued(sem'[s], t) <=> (st'[t] = "asleep" /\ on'[t] = s)
  PROVE  QueuesOK'
BY DEF IInv, QueuesOK

\* No step of the semaphores leaves the invariant.
LEMMA IInvStep == IInv /\ [Next]_vars => IInv'
<1> SUFFICES ASSUME IInv, [Next]_vars
             PROVE  IInv'
  OBVIOUS
<1> USE DEF IInv
<1>1. ASSUME NEW t \in Threads, NEW s \in Semas, Take(t, s)
      PROVE  IInv'
  <2>1. /\ PSema(sem[s], t) \in SemaType(Threads)
        /\ CountIsQueue(PSema(sem[s], t)) /\ QueueDistinct(PSema(sem[s], t))
        /\ \A u \in Threads : Queued(PSema(sem[s], t), u) <=> Queued(sem[s], u)
    BY <1>1, TakeOK DEF Take, TypeOK, QueuesOK
  <2>2. TypeOK'
    BY <1>1, <2>1 DEF Take, TypeOK
  <2>3. QueuesOK'
    BY <1>1, <2>1, <2>2, QueuesStep DEF Take, TypeOK, QueuesOK
  <2>4. OnlyCatchIsInterrupted' /\ FreshIntr'
    BY <1>1 DEF Take, OnlyCatchIsInterrupted, FreshIntr
  <2> QED  BY <2>2, <2>3, <2>4
<1>2. ASSUME NEW t \in Threads, NEW s \in Semas, NEW c \in BOOLEAN, Wait(t, s, c)
      PROVE  IInv'
  <2>0. ~Queued(sem[s], t)
    BY <1>2 DEF Wait, QueuesOK
  <2>1. /\ PSema(sem[s], t) \in SemaType(Threads)
        /\ CountIsQueue(PSema(sem[s], t)) /\ QueueDistinct(PSema(sem[s], t))
        /\ \A u \in Threads :
             Queued(PSema(sem[s], t), u) <=> Queued(sem[s], u) \/ u = t
    BY <1>2, <2>0, WaitOK DEF Wait, TypeOK, QueuesOK
  <2>2. TypeOK'
    BY <1>2, <2>1 DEF Wait, TypeOK
  <2>3. QueuesOK'
    BY <1>2, <2>1, <2>2, QueuesStep DEF Wait, TypeOK, QueuesOK
  <2>4. OnlyCatchIsInterrupted' /\ FreshIntr'
    BY <1>2 DEF Wait, OnlyCatchIsInterrupted, FreshIntr, TypeOK
  <2> QED  BY <2>2, <2>3, <2>4
<1>3. ASSUME NEW s \in Semas, Give(s)
      PROVE  IInv'
  <2>1. CASE sem[s].q = << >>
    <3>1. /\ VSema(sem[s]) \in SemaType(Threads)
          /\ CountIsQueue(VSema(sem[s])) /\ QueueDistinct(VSema(sem[s]))
          /\ \A u \in Threads : Queued(VSema(sem[s]), u) <=> Queued(sem[s], u)
      BY <2>1, GiveFreeOK DEF TypeOK, QueuesOK
    <3>2. TypeOK'
      BY <1>3, <2>1, <3>1 DEF Give, TypeOK
    <3>3. QueuesOK'
      BY <1>3, <2>1, <3>1, <3>2, QueuesStep DEF Give, TypeOK, QueuesOK
    <3>4. OnlyCatchIsInterrupted' /\ FreshIntr'
      BY <1>3, <2>1 DEF Give, OnlyCatchIsInterrupted, FreshIntr
    <3> QED  BY <3>2, <3>3, <3>4
  <2>2. CASE sem[s].q # << >>
    <3> DEFINE h == Head(sem[s].q)
    <3>1. /\ VSema(sem[s]) \in SemaType(Threads)
          /\ CountIsQueue(VSema(sem[s])) /\ QueueDistinct(VSema(sem[s]))
          /\ h \in Threads
          /\ Queued(sem[s], h)
          /\ \A u \in Threads :
               Queued(VSema(sem[s]), u) <=> Queued(sem[s], u) /\ u # h
      BY <2>2, GiveOK DEF TypeOK, QueuesOK
    <3> HIDE DEF h
    <3>2. st[h] = "asleep" /\ on[h] = s
      BY <3>1 DEF QueuesOK
    <3>3. /\ sem' = [sem EXCEPT ![s] = VSema(@)]
          /\ given' = [given EXCEPT ![s] = @ + 1]
          /\ st' = [st EXCEPT ![h] = "woken"]
          /\ UNCHANGED <<on, catch, intr, taken>>
      BY <1>3, <2>2 DEF Give, h
    <3>4. TypeOK'
      BY <3>1, <3>3 DEF TypeOK
    <3>5. QueuesOK'
      <4>1. \A t \in Threads, r \in Semas :
              (st'[t] = "asleep" /\ on'[t] = r)
                <=> (st[t] = "asleep" /\ on[t] = r /\ t # h)
        BY <3>1, <3>3 DEF TypeOK
      <4>2. \A t \in Threads : Queued(sem'[s], t) <=> (st'[t] = "asleep" /\ on'[t] = s)
        BY <3>1, <3>3, <4>1 DEF TypeOK, QueuesOK
      <4> QED  BY <3>1, <3>2, <3>3, <3>4, <4>1, <4>2, QueuesStep DEF TypeOK
    <3>6. OnlyCatchIsInterrupted' /\ FreshIntr'
      BY <3>2, <3>3 DEF OnlyCatchIsInterrupted, FreshIntr, TypeOK
    <3> QED  BY <3>4, <3>5, <3>6
  <2> QED  BY <2>1, <2>2
<1>4. ASSUME NEW t \in Threads, Interrupt(t)
      PROVE  IInv'
  <2> DEFINE s == on[t]
  <2>0. s \in Semas /\ Queued(sem[s], t)
    BY <1>4 DEF Interrupt, TypeOK, QueuesOK
  <2>1. /\ Cunsleep(sem[s], t) \in SemaType(Threads)
        /\ CountIsQueue(Cunsleep(sem[s], t))
        /\ QueueDistinct(Cunsleep(sem[s], t))
        /\ \A u \in Threads :
             Queued(Cunsleep(sem[s], t), u) <=> Queued(sem[s], u) /\ u # t
    BY <2>0, CunsleepOK DEF TypeOK, QueuesOK
  <2>2. TypeOK'
    BY <1>4, <2>0, <2>1 DEF Interrupt, TypeOK
  <2>3. QueuesOK'
    BY <1>4, <2>0, <2>1, <2>2, QueuesStep DEF Interrupt, TypeOK, QueuesOK
  <2>4. OnlyCatchIsInterrupted' /\ FreshIntr'
    BY <1>4 DEF Interrupt, OnlyCatchIsInterrupted, FreshIntr, TypeOK
  <2> QED  BY <2>2, <2>3, <2>4
<1>5. ASSUME NEW t \in Threads, Return(t)
      PROVE  IInv'
  <2>1. TypeOK'
    BY <1>5 DEF Return, TypeOK
  <2>2. QueuesOK'
    BY <1>5 DEF Return, TypeOK, QueuesOK
  <2>3. OnlyCatchIsInterrupted' /\ FreshIntr'
    BY <1>5 DEF Return, OnlyCatchIsInterrupted, FreshIntr, TypeOK
  <2> QED  BY <2>1, <2>2, <2>3
<1>6. CASE UNCHANGED vars
  BY <1>6 DEF vars, TypeOK, QueuesOK, OnlyCatchIsInterrupted, FreshIntr
<1> QED  BY <1>1, <1>2, <1>3, <1>4, <1>5, <1>6 DEF Next

LEMMA IInvInit == Init => IInv
<1> SUFFICES ASSUME Init
             PROVE  IInv
  OBVIOUS
<1>1. \A s \in Semas : given[s] \in Nat
  BY DEF Init
<1>2. TypeOK
  BY <1>1, NewSemaOK DEF Init, TypeOK
<1>3. QueuesOK
  BY <1>1, NewSemaOK DEF Init, QueuesOK
<1>4. OnlyCatchIsInterrupted /\ FreshIntr
  BY DEF Init, OnlyCatchIsInterrupted, FreshIntr
<1> QED  BY <1>2, <1>3, <1>4 DEF IInv

\* The queue of every semaphore holds exactly its sleepers, each once, and
\* s_count is negative by their number, whatever mix of p_sema(), v_sema()
\* and cunsleep() the kernel runs.
THEOREM QueuesAlwaysOK == Spec => [](TypeOK /\ QueuesOK)
<1>1. Spec => []IInv
  BY IInvInit, IInvStep, PTL DEF Spec
<1>2. IInv => TypeOK /\ QueuesOK
  BY DEF IInv
<1> QED  BY <1>1, <1>2, PTL

\* p_sema(..., PRIHI) never returns interrupted (the assertions of p_sema()
\* and p_sema_v_lock() on their way out).
THEOREM PrihiNeverInterrupted == Spec => []OnlyCatchIsInterrupted
<1>1. Spec => []IInv
  BY IInvInit, IInvStep, PTL DEF Spec
<1>2. IInv => OnlyCatchIsInterrupted
  BY DEF IInv
<1> QED  BY <1>1, <1>2, PTL

-----------------------------------------------------------------------------
\* Threads of a finite set, one more or one less of them.
LEMMA GrantedFinite ==
  ASSUME NEW s \in Semas
  PROVE  IsFiniteSet(Granted(s)) /\ Cardinality(Granted(s)) \in Nat
BY ThreadAssumption, FS_Subset, FS_CardinalityType DEF Granted

\* The units of one semaphore balance.
Balance(s) ==
  given[s] = taken[s] + (IF sem[s].cnt > 0 THEN sem[s].cnt ELSE 0)
                      + Cardinality(Granted(s))

LEMMA BalanceIsConserved == UnitsConserved <=> \A s \in Semas : Balance(s)
BY DEF UnitsConserved, Balance

\* A step that leaves a semaphore and the threads it woke alone.
LEMMA BalanceFrame ==
  ASSUME NEW s \in Semas, Balance(s), sem'[s] = sem[s], given'[s] = given[s],
         taken'[s] = taken[s], Granted(s)' = Granted(s)
  PROVE  Balance(s)'
BY DEF Balance

\* No step makes or loses a unit.
LEMMA UnitsStep == IInv /\ UnitsConserved /\ [Next]_vars => UnitsConserved'
<1> SUFFICES ASSUME IInv, UnitsConserved, [Next]_vars, NEW r \in Semas
             PROVE  Balance(r)'
  BY DEF UnitsConserved, Balance
<1>0. Balance(r) /\ TypeOK /\ QueuesOK
  BY BalanceIsConserved DEF IInv
<1>a. \A q \in Semas :
        /\ sem[q] \in SemaType(Threads)
        /\ sem[q].cnt \in Int
        /\ CountIsQueue(sem[q]) /\ QueueDistinct(sem[q])
        /\ given[q] \in Nat /\ taken[q] \in Nat
        /\ Cardinality(Granted(q)) \in Nat
  BY <1>0, GrantedFinite DEF TypeOK, QueuesOK, SemaType
<1>1. ASSUME NEW t \in Threads, NEW s \in Semas, Take(t, s)
      PROVE  Balance(r)'
  <2>1. Granted(r)' = Granted(r)
    BY <1>1 DEF Take, Granted
  <2>2. PSema(sem[s], t).cnt = sem[s].cnt - 1 /\ sem[s].cnt > 0
    BY <1>0, <1>1, TakeOK DEF Take, TypeOK, QueuesOK
  <2>3. CASE r = s
    <3>1. /\ sem'[r].cnt = sem[r].cnt - 1
          /\ taken'[r] = taken[r] + 1
          /\ given'[r] = given[r]
      BY <1>0, <1>1, <2>2, <2>3 DEF Take, TypeOK
    <3> QED  BY <1>0, <1>a, <2>1, <2>2, <2>3, <3>1 DEF Balance
  <2>4. CASE r # s
    BY <1>0, <1>1, <2>1, <2>4, BalanceFrame DEF Take, TypeOK
  <2> QED  BY <2>3, <2>4
<1>2. ASSUME NEW t \in Threads, NEW s \in Semas, NEW c \in BOOLEAN, Wait(t, s, c)
      PROVE  Balance(r)'
  <2>1. Granted(r)' = Granted(r)
    BY <1>0, <1>2 DEF Wait, Granted, TypeOK
  <2>2. PSema(sem[s], t).cnt = sem[s].cnt - 1 /\ ~(sem[s].cnt > 0)
    BY <1>0, <1>2, WaitOK DEF Wait, TypeOK, QueuesOK, Free
  <2>3. CASE r = s
    <3>1. /\ sem'[r].cnt = sem[r].cnt - 1
          /\ taken'[r] = taken[r]
          /\ given'[r] = given[r]
      BY <1>0, <1>2, <2>2, <2>3 DEF Wait, TypeOK
    <3> QED  BY <1>0, <1>a, <2>1, <2>2, <2>3, <3>1 DEF Balance
  <2>4. CASE r # s
    BY <1>0, <1>2, <2>1, <2>4, BalanceFrame DEF Wait, TypeOK
  <2> QED  BY <2>3, <2>4
<1>3. ASSUME NEW s \in Semas, Give(s)
      PROVE  Balance(r)'
  <2>1. CASE sem[s].q = << >>
    <3>1. VSema(sem[s]).cnt = sem[s].cnt + 1 /\ sem[s].cnt >= 0
      BY <1>a, <2>1, GiveFreeOK
    <3>2. Granted(r)' = Granted(r)
      BY <1>3, <2>1 DEF Give, Granted
    <3>3. CASE r = s
      <4>1. /\ sem'[r].cnt = sem[r].cnt + 1
            /\ taken'[r] = taken[r]
            /\ given'[r] = given[r] + 1
        BY <1>0, <1>3, <3>1, <3>3 DEF Give, TypeOK
      <4> QED  BY <1>0, <1>a, <3>1, <3>2, <3>3, <4>1 DEF Balance
    <3>4. CASE r # s
      BY <1>0, <1>3, <3>2, <3>4, BalanceFrame DEF Give, TypeOK
    <3> QED  BY <3>3, <3>4
  <2>2. CASE sem[s].q # << >>
    <3> DEFINE h == Head(sem[s].q)
    <3>1. /\ VSema(sem[s]).cnt = sem[s].cnt + 1 /\ sem[s].cnt < 0
          /\ h \in Threads /\ Queued(sem[s], h)
      BY <1>a, <2>2, GiveOK
    <3> HIDE DEF h
    <3>2. st[h] = "asleep" /\ on[h] = s
      BY <1>0, <3>1 DEF QueuesOK
    <3>3. /\ sem' = [sem EXCEPT ![s] = VSema(@)]
          /\ given' = [given EXCEPT ![s] = @ + 1]
          /\ st' = [st EXCEPT ![h] = "woken"]
          /\ UNCHANGED <<on, catch, intr, taken>>
      BY <1>3, <2>2 DEF Give, h
    <3>4. ~intr[h]
      BY <3>1, <3>2 DEF IInv, FreshIntr
    <3>5. CASE r = s
      <4>1. Granted(r)' = Granted(r) \cup {h} /\ h \notin Granted(r)
        BY <1>0, <3>1, <3>2, <3>3, <3>4, <3>5 DEF Granted, TypeOK
      <4>2. Cardinality(Granted(r)') = Cardinality(Granted(r)) + 1
        BY <4>1, GrantedFinite, FS_AddElement
      <4>3. /\ sem'[r].cnt = sem[r].cnt + 1
            /\ taken'[r] = taken[r]
            /\ given'[r] = given[r] + 1
        BY <1>0, <3>1, <3>3, <3>5 DEF TypeOK
      <4> QED  BY <1>0, <1>a, <3>1, <3>5, <4>2, <4>3 DEF Balance
    <3>6. CASE r # s
      <4>1. Granted(r)' = Granted(r)
        BY <1>0, <3>1, <3>2, <3>3, <3>6 DEF Granted, TypeOK
      <4> QED  BY <1>0, <3>3, <3>6, <4>1, BalanceFrame DEF TypeOK
    <3> QED  BY <3>5, <3>6
  <2> QED  BY <2>1, <2>2
<1>4. ASSUME NEW t \in Threads, Interrupt(t)
      PROVE  Balance(r)'
  <2>0. on[t] \in Semas /\ Queued(sem[on[t]], t)
    BY <1>0, <1>4 DEF Interrupt, TypeOK, QueuesOK
  <2>1. Granted(r)' = Granted(r)
    BY <1>0, <1>4 DEF Interrupt, Granted, TypeOK
  <2>2. Cunsleep(sem[on[t]], t).cnt = sem[on[t]].cnt + 1 /\ sem[on[t]].cnt < 0
    BY <1>a, <2>0, CunsleepOK
  <2>3. CASE r = on[t]
    <3>1. /\ sem'[r].cnt = sem[r].cnt + 1
          /\ taken'[r] = taken[r]
          /\ given'[r] = given[r]
      BY <1>0, <1>4, <2>0, <2>2, <2>3 DEF Interrupt, TypeOK
    <3> QED  BY <1>0, <1>a, <2>1, <2>2, <2>3, <3>1 DEF Balance
  <2>4. CASE r # on[t]
    BY <1>0, <1>4, <2>0, <2>1, <2>4, BalanceFrame DEF Interrupt, TypeOK
  <2> QED  BY <2>3, <2>4
<1>5. ASSUME NEW t \in Threads, Return(t)
      PROVE  Balance(r)'
  <2>1. CASE on[t] = r /\ ~intr[t]
    <3>1. Granted(r)' = Granted(r) \ {t} /\ t \in Granted(r)
      BY <1>0, <1>5, <2>1 DEF Return, Granted, TypeOK
    <3>2. Cardinality(Granted(r)') = Cardinality(Granted(r)) - 1
      BY <3>1, GrantedFinite, FS_RemoveElement
    <3>3. /\ sem'[r].cnt = sem[r].cnt
          /\ taken'[r] = taken[r] + 1
          /\ given'[r] = given[r]
      BY <1>0, <1>5, <2>1 DEF Return, TypeOK
    <3> QED  BY <1>0, <1>a, <3>2, <3>3 DEF Balance
  <2>2. CASE on[t] # r \/ intr[t]
    <3>1. Granted(r)' = Granted(r)
      BY <1>0, <1>5, <2>2 DEF Return, Granted, TypeOK
    <3> QED  BY <1>0, <1>5, <2>2, <3>1, BalanceFrame DEF Return, TypeOK
  <2> QED  BY <2>1, <2>2
<1>6. CASE UNCHANGED vars
  BY <1>0, <1>6 DEF vars, Balance, Granted
<1> QED  BY <1>1, <1>2, <1>3, <1>4, <1>5, <1>6 DEF Next

LEMMA UnitsInit == Init => UnitsConserved
<1> SUFFICES ASSUME Init, NEW s \in Semas
             PROVE  Balance(s)
  BY BalanceIsConserved
<1>1. Granted(s) = {}
  BY DEF Init, Granted
<1>2. Cardinality(Granted(s)) = 0
  BY <1>1, FS_EmptySet
<1> QED  BY <1>2 DEF Init, Balance, NewSema

\* Every unit that v_sema() or init_sema() ever put into a semaphore has been
\* taken by one p_sema(), is counted, or is in the hands of one woken thread.
THEOREM UnitsAlwaysConserved == Spec => []UnitsConserved
<1>1. Init => IInv /\ UnitsConserved
  BY IInvInit, UnitsInit
<1>2. IInv /\ UnitsConserved /\ [Next]_vars => (IInv /\ UnitsConserved)'
  BY IInvStep, UnitsStep
<1> QED  BY <1>1, <1>2, PTL DEF Spec


-----------------------------------------------------------------------------
(* The scheduler by itself.                                                *)

USE SchedAssumption, ThreadAssumption

\* fork_thread() and fork() set running a thread that nobody else knows of.
NewAreChildren ==
  /\ \A t \in Threads : child[t] # None => tstate[child[t]] = "NEW"
  /\ \A t, u \in Threads : child[t] # None /\ child[t] = child[u] => t = u

\* While it idles the processor belongs to nobody.
IdleIsNobody == cpu \in {"idle", "hlt", "halted"} => cur = None

\* The invariant that the theorems share.  What lsetrun() and swtch() do to
\* a ring is only right because the thread on the processor is on none, and
\* num_run can only be counted down because the leaver was counted.
SInv ==
  /\ SchedTypeOK
  /\ OneOnProc
  /\ IdleIsNobody
  /\ NewAreChildren
  /\ RunnableQueued
  /\ NrunCounts
  /\ NumRunExact

\* The threads that num_run counts.
Counted == {t \in Threads : tstate[t] \in {"RUN", "ONPROC"}}

\* The ready leaves below a node.
Below(x) == {t \in Ready : x \in Path(t)}

-----------------------------------------------------------------------------
(* Counting.                                                               *)

LEMMA SubsetsFinite == \A S \in SUBSET Threads :
                         IsFiniteSet(S) /\ Cardinality(S) \in Nat
BY FS_Subset, FS_CardinalityType

LEMMA CountIn ==
  ASSUME NEW S \in SUBSET Threads, NEW t \in Threads, t \notin S
  PROVE  Cardinality(S \cup {t}) = Cardinality(S) + 1
BY SubsetsFinite, FS_AddElement

LEMMA CountOut ==
  ASSUME NEW S \in SUBSET Threads, NEW t \in S
  PROVE  /\ Cardinality(S \ {t}) = Cardinality(S) - 1
         /\ Cardinality(S) - 1 \in Nat
<1>1. Cardinality(S \ {t}) = Cardinality(S) - 1
  BY SubsetsFinite, FS_RemoveElement
<1>2. S \ {t} \in SUBSET Threads
  OBVIOUS
<1> QED  BY <1>1, <1>2, SubsetsFinite

\* A thread becomes runnable.
LEMMA NumRunUp ==
  ASSUME SchedTypeOK, NumRunExact, NEW t \in Threads,
         t \notin Counted, Counted' = Counted \cup {t}, numrun' = numrun + 1
  PROVE  NumRunExact'
BY CountIn, Counted \in SUBSET Threads DEF Counted, NumRunExact, SchedTypeOK

\* A thread stops being runnable.
LEMMA NumRunDown ==
  ASSUME SchedTypeOK, NumRunExact, NEW t \in Counted,
         Counted' = Counted \ {t}, numrun' = numrun - 1
  PROVE  NumRunExact' /\ numrun' \in Nat
BY CountOut, Counted \in SUBSET Threads DEF Counted, NumRunExact, SchedTypeOK

\* The same threads stay runnable.
LEMMA NumRunSame ==
  ASSUME NumRunExact, Counted' = Counted, numrun' = numrun
  PROVE  NumRunExact'
BY DEF Counted, NumRunExact

-----------------------------------------------------------------------------
(* The tree of leaves and nodes.                                           *)

LEMMA NodesApart ==
  ASSUME NEW t \in Threads
  PROVE  /\ Path(t) \subseteq Nodes
         /\ Home[t] \in Procs /\ Home[t] \notin Threads
         /\ Root \notin Threads /\ Root \notin Procs
BY DEF Path, Nodes

\* A leaf joins its ring, and it and the nodes above count one more.
LEMMA EnterTreeCounts ==
  ASSUME SchedTypeOK, NrunCounts, NEW t \in Threads, t \notin Ready, EnterTree(t)
  PROVE  /\ down' \in [Procs -> SUBSET Threads]
         /\ nrun' \in [Nodes -> Nat]
         /\ Ready' = Ready \cup {t}
         /\ NrunCounts'
<1>1. down' \in [Procs -> SUBSET Threads] /\ nrun' \in [Nodes -> Nat]
  BY NodesApart DEF EnterTree, SchedTypeOK
<1>2. Ready' = Ready \cup {t}
  BY NodesApart DEF EnterTree, SchedTypeOK, Ready
<1>3. ASSUME NEW x \in Nodes
      PROVE  nrun'[x] = Cardinality({u \in Ready' : x \in Path(u)})
  <2>1. nrun[x] = Cardinality(Below(x)) /\ Below(x) \in SUBSET Threads
    BY <1>3 DEF NrunCounts, Below, Ready
  <2>2. CASE x \in Path(t)
    <3>1. {u \in Ready' : x \in Path(u)} = Below(x) \cup {t}
      BY <1>2, <2>2 DEF Below
    <3>2. t \notin Below(x)
      BY DEF Below
    <3>3. nrun'[x] = nrun[x] + 1
      BY <1>3, <2>2 DEF EnterTree
    <3> QED  BY <2>1, <3>1, <3>2, <3>3, CountIn
  <2>3. CASE x \notin Path(t)
    <3>1. {u \in Ready' : x \in Path(u)} = Below(x)
      BY <1>2, <2>3 DEF Below
    <3>2. nrun'[x] = nrun[x]
      BY <1>3, <2>3 DEF EnterTree
    <3> QED  BY <2>1, <3>1, <3>2
  <2> QED  BY <2>2, <2>3
<1>4. NrunCounts'
  BY <1>3 DEF NrunCounts
<1> QED  BY <1>1, <1>2, <1>4

\* The leaf that wins the lottery leaves, and all count one less.
LEMMA LeaveTreeCounts ==
  ASSUME SchedTypeOK, NrunCounts, NEW t \in Threads, t \in Ready,
         down' = [down EXCEPT ![Home[t]] = @ \ {t}],
         nrun' = [x \in Nodes |-> IF x \in Path(t) THEN nrun[x] - 1 ELSE nrun[x]]
  PROVE  /\ down' \in [Procs -> SUBSET Threads]
         /\ nrun' \in [Nodes -> Nat]
         /\ Ready' = Ready \ {t}
         /\ NrunCounts'
<1>1. down' \in [Procs -> SUBSET Threads]
  BY NodesApart DEF SchedTypeOK
<1>2. Ready' = Ready \ {t}
  BY NodesApart DEF SchedTypeOK, Ready
<1>3. ASSUME NEW x \in Nodes
      PROVE  /\ nrun'[x] = Cardinality({u \in Ready' : x \in Path(u)})
             /\ nrun'[x] \in Nat
  <2>1. nrun[x] = Cardinality(Below(x)) /\ Below(x) \in SUBSET Threads
    BY <1>3 DEF NrunCounts, Below, Ready
  <2>2. CASE x \in Path(t)
    <3>1. {u \in Ready' : x \in Path(u)} = Below(x) \ {t}
      BY <1>2, <2>2 DEF Below
    <3>2. t \in Below(x)
      BY <2>2 DEF Below
    <3>3. nrun'[x] = nrun[x] - 1
      BY <1>3, <2>2
    <3> QED  BY <2>1, <3>1, <3>2, <3>3, CountOut
  <2>3. CASE x \notin Path(t)
    <3>1. {u \in Ready' : x \in Path(u)} = Below(x)
      BY <1>2, <2>3 DEF Below
    <3>2. nrun'[x] = nrun[x]
      BY <1>3, <2>3
    <3> QED  BY <2>1, <3>1, <3>2, SubsetsFinite
  <2> QED  BY <2>2, <2>3
<1>4. NrunCounts' /\ nrun' \in [Nodes -> Nat]
  BY <1>3 DEF NrunCounts
<1> QED  BY <1>1, <1>2, <1>4

\* Nothing joins or leaves the tree.
LEMMA TreeSame ==
  ASSUME NrunCounts, down' = down, nrun' = nrun
  PROVE  NrunCounts'
BY DEF NrunCounts, Ready

-----------------------------------------------------------------------------
(* Where a thread is queued.                                               *)

\* A thread that is not yet ready is on no ring, and not in the tree.
LEMMA NowhereUnlessRun ==
  ASSUME RunnableQueued, NEW t \in Threads, tstate[t] # "RUN"
  PROVE  ~InRing(rt, t) /\ ~InRing(bg, t) /\ ~InRing(cheated, t) /\ t \notin Ready
BY DEF RunnableQueued, Ready

\* lsetrun() and timeslice(): a thread that was not ready is, and joins one ring.
LEMMA EnqueueKeeps ==
  ASSUME SchedTypeOK, RunnableQueued, NrunCounts, NEW t \in Threads,
         tstate[t] # "RUN", tstate' = [tstate EXCEPT ![t] = "RUN"],
         class' = class, Enqueue(t)
  PROVE  /\ rt' \in Seq(Threads) /\ cheated' \in Seq(Threads) /\ bg' \in Seq(Threads)
         /\ down' \in [Procs -> SUBSET Threads]
         /\ nrun' \in [Nodes -> Nat]
         /\ RunnableQueued'
         /\ NrunCounts'
<1> USE NowhereUnlessRun
<1>1. /\ rt \in Seq(Threads) /\ cheated \in Seq(Threads) /\ bg \in Seq(Threads)
      /\ down \in [Procs -> SUBSET Threads] /\ nrun \in [Nodes -> Nat]
      /\ class \in [Threads -> Classes]
      /\ tstate' \in [Threads -> {"none", "NEW", "SLEEP", "RUN", "ONPROC"}]
  BY DEF SchedTypeOK
<1>2. \A u \in Threads : tstate'[u] = "RUN" <=> tstate[u] = "RUN" \/ u = t
  BY DEF SchedTypeOK
<1>3. CASE class[t] = "RT" /\ rt' = Append(rt, t)
           /\ UNCHANGED <<cheated, bg, down, nrun>>
  <2>1. /\ rt' \in Seq(Threads) /\ IsInjective(rt')
        /\ \A u \in Threads : InRing(rt', u) <=> InRing(rt, u) \/ u = t
    BY <1>1, <1>3, AppendQueue DEF RunnableQueued, InRing
  <2>2. RunnableQueued'
    BY <1>1, <1>2, <1>3, <2>1 DEF RunnableQueued, Ready, InRing
  <2> QED  BY <1>1, <1>3, <2>1, <2>2, TreeSame
<1>4. CASE class[t] = "BG" /\ bg' = Append(bg, t)
           /\ UNCHANGED <<rt, cheated, down, nrun>>
  <2>1. /\ bg' \in Seq(Threads) /\ IsInjective(bg')
        /\ \A u \in Threads : InRing(bg', u) <=> InRing(bg, u) \/ u = t
    BY <1>1, <1>4, AppendQueue DEF RunnableQueued, InRing
  <2>2. RunnableQueued'
    BY <1>1, <1>2, <1>4, <2>1 DEF RunnableQueued, Ready, InRing
  <2> QED  BY <1>1, <1>4, <2>1, <2>2, TreeSame
<1>5. CASE class[t] = "TS" /\ cheated' = Append(cheated, t)
           /\ UNCHANGED <<rt, bg, down, nrun>>
  <2>1. /\ cheated' \in Seq(Threads) /\ IsInjective(cheated')
        /\ \A u \in Threads : InRing(cheated', u) <=> InRing(cheated, u) \/ u = t
    BY <1>1, <1>5, AppendQueue DEF RunnableQueued, InRing
  <2>2. RunnableQueued'
    BY <1>1, <1>2, <1>5, <2>1 DEF RunnableQueued, Ready, InRing
  <2> QED  BY <1>1, <1>5, <2>1, <2>2, TreeSame
<1>6. CASE class[t] = "TS" /\ EnterTree(t) /\ UNCHANGED <<rt, cheated, bg>>
  <2>1. /\ down' \in [Procs -> SUBSET Threads]
        /\ nrun' \in [Nodes -> Nat]
        /\ NrunCounts'
    BY <1>6, EnterTreeCounts
  <2>2. down' = [down EXCEPT ![Home[t]] = @ \cup {t}]
    BY <1>6 DEF EnterTree
  <2>3. RunnableQueued'
    BY <1>1, <1>2, <1>6, <2>2, NodesApart DEF RunnableQueued, Ready, InRing
  <2> QED  BY <1>1, <1>6, <2>1, <2>3
<1> QED  BY <1>3, <1>4, <1>5, <1>6 DEF Enqueue

\* The head of a ring is ready, and is on it once.
LEMMA HeadLeaves ==
  ASSUME NEW q \in Seq(Threads), q # << >>, IsInjective(q)
  PROVE  /\ Tail(q) \in Seq(Threads) /\ IsInjective(Tail(q))
         /\ Head(q) \in Threads /\ InRing(q, Head(q))
         /\ \A u \in Threads : InRing(Tail(q), u) <=> InRing(q, u) /\ u # Head(q)
BY TailQueue DEF InRing

\* The thread t was ready, and leaves its ring for the processor.
Dequeue(t) ==
  /\ t \in Threads /\ tstate[t] = "RUN"
  /\ rt' \in Seq(Threads) /\ cheated' \in Seq(Threads) /\ bg' \in Seq(Threads)
  /\ down' \in [Procs -> SUBSET Threads]
  /\ nrun' \in [Nodes -> Nat]
  /\ RunnableQueued'
  /\ NrunCounts'

LEMMA RTDequeues ==
  ASSUME SchedTypeOK, RunnableQueued, NrunCounts, PickRT
  PROVE  Dequeue(Head(rt))
<1>1. PICK t : t = Head(rt)
  OBVIOUS
<1>2. /\ rt \in Seq(Threads) /\ cheated \in Seq(Threads) /\ bg \in Seq(Threads)
      /\ down \in [Procs -> SUBSET Threads] /\ nrun \in [Nodes -> Nat]
  BY DEF SchedTypeOK
<1>3. /\ rt' \in Seq(Threads) /\ IsInjective(rt')
      /\ t \in Threads /\ InRing(rt, t)
      /\ \A u \in Threads : InRing(rt', u) <=> InRing(rt, u) /\ u # t
  BY <1>1, <1>2, HeadLeaves DEF PickRT, RunnableQueued
<1>4. tstate[t] = "RUN"
  BY <1>3 DEF RunnableQueued
<1>5. /\ \A u \in Threads : tstate'[u] = "RUN" <=> tstate[u] = "RUN" /\ u # t
      /\ UNCHANGED <<cheated, bg, down, nrun, class>>
  BY <1>1, <1>3 DEF PickRT, OntoCpu, SchedTypeOK
<1>6. RunnableQueued'
  BY <1>3, <1>4, <1>5 DEF RunnableQueued, InRing
<1> QED  BY <1>1, <1>2, <1>3, <1>4, <1>5, <1>6, TreeSame DEF Dequeue

LEMMA CheatedDequeues ==
  ASSUME SchedTypeOK, RunnableQueued, NrunCounts, PickCheated
  PROVE  Dequeue(Head(cheated))
<1>1. PICK t : t = Head(cheated)
  OBVIOUS
<1>2. /\ rt \in Seq(Threads) /\ cheated \in Seq(Threads) /\ bg \in Seq(Threads)
      /\ down \in [Procs -> SUBSET Threads] /\ nrun \in [Nodes -> Nat]
  BY DEF SchedTypeOK
<1>3. /\ cheated' \in Seq(Threads) /\ IsInjective(cheated')
      /\ t \in Threads /\ InRing(cheated, t)
      /\ \A u \in Threads : InRing(cheated', u) <=> InRing(cheated, u) /\ u # t
  BY <1>1, <1>2, HeadLeaves DEF PickCheated, RunnableQueued
<1>4. tstate[t] = "RUN"
  BY <1>3 DEF RunnableQueued
<1>5. /\ \A u \in Threads : tstate'[u] = "RUN" <=> tstate[u] = "RUN" /\ u # t
      /\ UNCHANGED <<rt, bg, down, nrun, class>>
  BY <1>1, <1>3 DEF PickCheated, OntoCpu, SchedTypeOK
<1>6. RunnableQueued'
  BY <1>3, <1>4, <1>5 DEF RunnableQueued, InRing
<1> QED  BY <1>1, <1>2, <1>3, <1>4, <1>5, <1>6, TreeSame DEF Dequeue

LEMMA BGDequeues ==
  ASSUME SchedTypeOK, RunnableQueued, NrunCounts, PickBG
  PROVE  Dequeue(Head(bg))
<1>1. PICK t : t = Head(bg)
  OBVIOUS
<1>2. /\ rt \in Seq(Threads) /\ cheated \in Seq(Threads) /\ bg \in Seq(Threads)
      /\ down \in [Procs -> SUBSET Threads] /\ nrun \in [Nodes -> Nat]
  BY DEF SchedTypeOK
<1>3. /\ bg' \in Seq(Threads) /\ IsInjective(bg')
      /\ t \in Threads /\ InRing(bg, t)
      /\ \A u \in Threads : InRing(bg', u) <=> InRing(bg, u) /\ u # t
  BY <1>1, <1>2, HeadLeaves DEF PickBG, RunnableQueued
<1>4. tstate[t] = "RUN"
  BY <1>3 DEF RunnableQueued
<1>5. /\ \A u \in Threads : tstate'[u] = "RUN" <=> tstate[u] = "RUN" /\ u # t
      /\ UNCHANGED <<rt, cheated, down, nrun, class>>
  BY <1>1, <1>3 DEF PickBG, OntoCpu, SchedTypeOK
<1>6. RunnableQueued'
  BY <1>3, <1>4, <1>5 DEF RunnableQueued, InRing
<1> QED  BY <1>1, <1>2, <1>3, <1>4, <1>5, <1>6, TreeSame DEF Dequeue

LEMMA TreeDequeues ==
  ASSUME SchedTypeOK, RunnableQueued, NrunCounts, NEW t \in Threads, PickTree(t)
  PROVE  Dequeue(t)
<1>1. /\ rt \in Seq(Threads) /\ cheated \in Seq(Threads) /\ bg \in Seq(Threads)
      /\ t \in Ready
      /\ down' = [down EXCEPT ![Home[t]] = @ \ {t}]
      /\ UNCHANGED <<rt, cheated, bg, class>>
  BY DEF SchedTypeOK, PickTree, OntoCpu, Winners, Ready
<1>2. /\ down' \in [Procs -> SUBSET Threads]
      /\ nrun' \in [Nodes -> Nat]
      /\ NrunCounts'
  BY <1>1, LeaveTreeCounts DEF PickTree
<1>3. tstate[t] = "RUN"
  BY <1>1 DEF RunnableQueued, Ready
<1>4. \A u \in Threads : tstate'[u] = "RUN" <=> tstate[u] = "RUN" /\ u # t
  BY DEF PickTree, OntoCpu, SchedTypeOK
<1>5. \A u \in Threads, p \in Procs :
        u \in down'[p] <=> u \in down[p] /\ ~(p = Home[t] /\ u = t)
  BY <1>1, NodesApart DEF SchedTypeOK
<1>6. RunnableQueued'
  BY <1>1, <1>3, <1>4, <1>5, NodesApart DEF RunnableQueued, InRing, Ready
<1> QED  BY <1>1, <1>2, <1>3, <1>6 DEF Dequeue

\* Nothing moves on a ring: no thread becomes ready or stops being so, and
\* none that is ready changes its class.
LEMMA RingsSame ==
  ASSUME SchedTypeOK, RunnableQueued, UNCHANGED <<rt, cheated, bg, down>>,
         \A t \in Threads : tstate'[t] = "RUN" <=> tstate[t] = "RUN",
         \A t \in Threads : tstate[t] = "RUN" => class'[t] = class[t]
  PROVE  RunnableQueued'
BY DEF RunnableQueued, InRing

-----------------------------------------------------------------------------
(* The steps.                                                              *)

\* setrun() of a thread that is neither ready nor on the processor.
LEMMA SetRunKeeps ==
  ASSUME SInv, NEW t \in Threads, tstate[t] \in {"SLEEP", "NEW"}, SetRun(t),
         \/ child' = child /\ tstate[t] = "SLEEP" /\ Unhalt /\ cpu # "swtch"
         \/ /\ UNCHANGED cpu /\ cpu = "run"
            /\ \E u \in Threads : /\ child[u] = t
                                  /\ child' = [child EXCEPT ![u] = None]
  PROVE  SInv'
<1>1. /\ tstate' = [tstate EXCEPT ![t] = "RUN"]
      /\ UNCHANGED <<class, ticks, oink, leaving, linked, cur, pri>>
      /\ Enqueue(t) /\ numrun' = numrun + 1
  BY DEF SetRun
<1>2. /\ rt' \in Seq(Threads) /\ cheated' \in Seq(Threads) /\ bg' \in Seq(Threads)
      /\ down' \in [Procs -> SUBSET Threads]
      /\ nrun' \in [Nodes -> Nat]
      /\ RunnableQueued'
      /\ NrunCounts'
  BY <1>1, EnqueueKeeps DEF SInv
<1>3. cpu' \in {"run", "idle", "hlt", "halted"} /\ (cpu' = "run" <=> cpu = "run")
  BY DEF Unhalt, SInv, SchedTypeOK
<1>4. child' \in [Threads -> Threads \cup {None}]
  BY DEF SInv, SchedTypeOK
<1>5. pre' \in BOOLEAN
  BY DEF SetRun, NudgeFor, SInv, SchedTypeOK
<1>6. SchedTypeOK'
  <2>1. /\ tstate' \in [Threads -> {"none", "NEW", "SLEEP", "RUN", "ONPROC"}]
        /\ numrun' \in Nat
    BY <1>1 DEF SInv, SchedTypeOK
  <2>2. cpu' \in {"run", "swtch", "idle", "hlt", "halted"}
    BY <1>3
  <2> QED  BY <1>1, <1>2, <1>4, <1>5, <2>1, <2>2 DEF SInv, SchedTypeOK
<1>7. OneOnProc' /\ IdleIsNobody'
  BY <1>1, <1>3 DEF SInv, SchedTypeOK, OneOnProc, IdleIsNobody
<1>8. NewAreChildren'
  <2>1. \A u \in Threads : child'[u] # None => child'[u] = child[u] /\ child[u] # t
    BY DEF SInv, SchedTypeOK, NewAreChildren
  <2> QED  BY <1>1, <1>4, <2>1 DEF SInv, SchedTypeOK, NewAreChildren
<1>9. NumRunExact'
  <2>1. t \notin Counted /\ Counted' = Counted \cup {t}
    BY <1>1 DEF Counted, SInv, SchedTypeOK
  <2> QED  BY <1>1, <2>1, NumRunUp DEF SInv
<1> QED  BY <1>2, <1>6, <1>7, <1>8, <1>9 DEF SInv

LEMMA WakeKeeps == ASSUME SInv, NEW t \in Threads, Wake(t) PROVE SInv'
BY SetRunKeeps DEF Wake

LEMMA ForkEndsKeeps == ASSUME SInv, NEW t \in Threads, ForkEnds(t) PROVE SInv'
<1>1. child[t] \in Threads /\ tstate[child[t]] = "NEW" /\ cpu = "run"
  BY DEF ForkEnds, Running, SInv, SchedTypeOK, NewAreChildren
<1> QED  BY <1>1, SetRunKeeps DEF ForkEnds

LEMMA TimesliceKeeps == ASSUME SInv, NEW t \in Threads, Timeslice(t) PROVE SInv'
<1>1. /\ tstate[t] = "ONPROC" /\ cpu = "run" /\ cur = t
      /\ tstate' = [tstate EXCEPT ![t] = "RUN"]
      /\ pre' = FALSE /\ cpu' = "swtch"
      /\ UNCHANGED <<class, ticks, oink, leaving, child, linked, numrun, cur, pri>>
      /\ Enqueue(t)
  BY DEF Timeslice, Running, SInv, OneOnProc
<1>2. /\ rt' \in Seq(Threads) /\ cheated' \in Seq(Threads) /\ bg' \in Seq(Threads)
      /\ down' \in [Procs -> SUBSET Threads]
      /\ nrun' \in [Nodes -> Nat]
      /\ RunnableQueued'
      /\ NrunCounts'
  BY <1>1, EnqueueKeeps DEF SInv
<1>3. SchedTypeOK'
  BY <1>1, <1>2 DEF SInv, SchedTypeOK
<1>4. OneOnProc' /\ IdleIsNobody' /\ NewAreChildren'
  BY <1>1 DEF SInv, SchedTypeOK, OneOnProc, IdleIsNobody, NewAreChildren
<1>5. NumRunExact'
  <2>1. Counted' = Counted
    BY <1>1 DEF Counted, SInv, SchedTypeOK
  <2> QED  BY <1>1, <2>1, NumRunSame DEF SInv
<1> QED  BY <1>2, <1>3, <1>4, <1>5 DEF SInv

LEMMA GoToSleepKeeps == ASSUME SInv, NEW t \in Threads, GoToSleep(t) PROVE SInv'
<1>1. tstate[t] = "ONPROC" /\ cpu = "run" /\ cur = t
  BY DEF GoToSleep, Running, SInv, OneOnProc
<1>2. NumRunExact' /\ numrun' \in Nat
  <2>1. t \in Counted /\ Counted' = Counted \ {t}
    BY <1>1 DEF GoToSleep, Counted, SInv, SchedTypeOK
  <2> QED  BY <2>1, NumRunDown DEF GoToSleep, SInv
<1>3. SchedTypeOK'
  <2>1. oink' \in [Threads -> 0..MaxOink]
    BY DEF GoToSleep, SInv, SchedTypeOK
  <2> QED  BY <1>2, <2>1 DEF GoToSleep, queues, SInv, SchedTypeOK
<1>4. OneOnProc' /\ IdleIsNobody' /\ NewAreChildren'
  BY <1>1 DEF GoToSleep, SInv, SchedTypeOK, OneOnProc, IdleIsNobody, NewAreChildren
<1>5. RunnableQueued' /\ NrunCounts'
  BY <1>1, RingsSame, TreeSame DEF GoToSleep, queues, SInv, SchedTypeOK
<1> QED  BY <1>2, <1>3, <1>4, <1>5 DEF SInv

\* swtch() puts on the processor a thread that it took off a ring.
LEMMA OntoCpuKeeps ==
  ASSUME SInv, NEW t, NEW p \in 0..4, cpu = "swtch", Dequeue(t), OntoCpu(t, p)
  PROVE  SInv'
<1>1. t \in Threads /\ tstate[t] = "RUN" /\ RunnableQueued' /\ NrunCounts'
  BY DEF Dequeue
<1>2. ticks' \in [Threads -> 0..RunTicks]
  <2>1. ticks \in [Threads -> 0..RunTicks] /\ RunTicks \in 0..RunTicks
    BY DEF SInv, SchedTypeOK
  <2>2. ticks' = ticks \/ ticks' = [ticks EXCEPT ![t] = RunTicks]
    BY DEF OntoCpu
  <2> QED  BY <2>1, <2>2
<1>3. SchedTypeOK'
  BY <1>1, <1>2 DEF OntoCpu, Dequeue, SInv, SchedTypeOK
<1>4. OneOnProc' /\ IdleIsNobody'
  BY <1>1 DEF OntoCpu, SInv, SchedTypeOK, OneOnProc, IdleIsNobody
<1>5. NewAreChildren'
  BY <1>1 DEF OntoCpu, SInv, SchedTypeOK, NewAreChildren
<1>6. NumRunExact'
  <2>1. Counted' = Counted
    BY <1>1 DEF OntoCpu, Counted, SInv, SchedTypeOK
  <2> QED  BY <2>1, NumRunSame DEF OntoCpu, SInv
<1> QED  BY <1>1, <1>3, <1>4, <1>5, <1>6 DEF SInv

LEMMA SchedStepKeeps == ASSUME SInv, SchedStep PROVE SInv'
<1>1. CASE PickRT
  BY <1>1, RTDequeues, OntoCpuKeeps DEF PickRT, PriOf, SInv
<1>2. CASE PickCheated
  BY <1>2, CheatedDequeues, OntoCpuKeeps DEF PickCheated, PriOf, SInv
<1>3. CASE PickBG
  BY <1>3, BGDequeues, OntoCpuKeeps DEF PickBG, PriOf, SInv
<1>4. ASSUME NEW t \in Threads, PickTree(t)
      PROVE  SInv'
  <2>1. Dequeue(t)
    BY <1>4, TreeDequeues DEF SInv
  <2> QED  BY <1>4, <2>1, OntoCpuKeeps DEF PickTree, PriOf
<1>5. CASE GoIdle \/ IdleLook \/ IdleHalt
  <2>1. /\ UNCHANGED <<tstate, class, ticks, oink, leaving, child, queues, linked,
                       numrun, pri, pre>>
        /\ cpu' \in {"swtch", "idle", "hlt", "halted"} /\ cpu # "run"
        /\ cur' = None
    BY <1>5 DEF GoIdle, IdleLook, IdleHalt, SInv, IdleIsNobody
  <2>2. SchedTypeOK'
    BY <2>1 DEF queues, SInv, SchedTypeOK
  <2>3. OneOnProc'
    <3>1. \A t \in Threads : tstate[t] # "ONPROC"
      BY <1>5 DEF GoIdle, IdleLook, IdleHalt, SInv, IdleIsNobody, OneOnProc
    <3> QED  BY <2>1, <3>1 DEF OneOnProc
  <2>4. IdleIsNobody' /\ NewAreChildren'
    BY <2>1 DEF SInv, IdleIsNobody, NewAreChildren
  <2>5. RunnableQueued' /\ NrunCounts'
    BY <2>1, RingsSame, TreeSame DEF queues, SInv
  <2>6. NumRunExact'
    BY <2>1, NumRunSame DEF Counted, SInv
  <2> QED  BY <2>2, <2>3, <2>4, <2>5, <2>6 DEF SInv
<1> QED  BY <1>1, <1>2, <1>3, <1>4, <1>5 DEF SchedStep

LEMMA TickKeeps == ASSUME SInv, Tick PROVE SInv'
<1>1. /\ UNCHANGED <<tstate, class, leaving, child, queues, linked, numrun, cur, pri>>
      /\ cpu' \in {"run", "idle", "hlt", "halted"} /\ (cpu' = "run" <=> cpu = "run")
      /\ cpu # "swtch"
  BY DEF Tick, Unhalt, SInv, SchedTypeOK
<1>2. /\ ticks' \in [Threads -> 0..RunTicks]
      /\ oink' \in [Threads -> 0..MaxOink]
      /\ pre' \in BOOLEAN
  <2>1. /\ ticks \in [Threads -> 0..RunTicks] /\ oink \in [Threads -> 0..MaxOink]
        /\ cur \in Threads \cup {None} /\ pre \in BOOLEAN
    BY DEF SInv, SchedTypeOK
  <2>2. CASE UNCHANGED <<ticks, oink, pre>>
    BY <2>1, <2>2
  <2>3. CASE cur # None /\ ticks[cur] > 1
             /\ ticks' = [ticks EXCEPT ![cur] = @ - 1] /\ UNCHANGED <<oink, pre>>
    BY <2>1, <2>3
  <2>4. CASE cur # None /\ ticks' = [ticks EXCEPT ![cur] = 0]
             /\ oink' = [oink EXCEPT ![cur] = IF @ < MaxOink THEN @ + 1 ELSE @]
             /\ pre' = TRUE
    <3>1. 0 \in 0..RunTicks
      OBVIOUS
    <3>2. oink' \in [Threads -> 0..MaxOink]
      BY <2>1, <2>4
    <3> QED  BY <2>1, <2>4, <3>1, <3>2
  <2> QED  BY <2>2, <2>3, <2>4 DEF Tick
<1>3. SchedTypeOK'
  BY <1>1, <1>2 DEF queues, SInv, SchedTypeOK
<1>4. OneOnProc' /\ IdleIsNobody' /\ NewAreChildren'
  BY <1>1 DEF SInv, SchedTypeOK, OneOnProc, IdleIsNobody, NewAreChildren
<1>5. RunnableQueued' /\ NrunCounts' /\ NumRunExact'
  BY <1>1, RingsSame, TreeSame, NumRunSame DEF queues, Counted, SInv
<1> QED  BY <1>3, <1>4, <1>5 DEF SInv

LEMMA SetPrioKeeps ==
  ASSUME SInv, NEW t \in Threads, NEW c \in Classes, SetPrio(t, c)
  PROVE  SInv'
<1>1. /\ tstate[t] = "ONPROC"
      /\ UNCHANGED <<tstate, ticks, oink, leaving, child, queues, linked, numrun,
                     cur, cpu>>
  BY DEF SetPrio, AtLarge, Running, SInv, OneOnProc
<1>2. class' = [class EXCEPT ![t] = c] /\ pri' \in 0..4
  BY DEF SetPrio, Classes, PriOf
<1>3. pre' \in BOOLEAN
  BY DEF SetPrio, SInv, SchedTypeOK
<1>4. SchedTypeOK'
  BY <1>1, <1>2, <1>3 DEF queues, SInv, SchedTypeOK
<1>5. OneOnProc' /\ IdleIsNobody' /\ NewAreChildren'
  BY <1>1 DEF SInv, OneOnProc, IdleIsNobody, NewAreChildren
<1>6. RunnableQueued' /\ NrunCounts' /\ NumRunExact'
  BY <1>1, <1>2, RingsSame, TreeSame, NumRunSame DEF queues, Counted, SInv, SchedTypeOK
<1> QED  BY <1>4, <1>5, <1>6 DEF SInv

\* The parts of the invariant that a new thread touches, for either fork.
LEMMA NewThread ==
  ASSUME SInv, NEW t \in Threads, NEW new \in Threads,
         AtLarge(t), ~Exists(new),
         tstate' = [tstate EXCEPT ![new] = "NEW"],
         class' = [class EXCEPT ![new] = class[t]],
         child' = [child EXCEPT ![t] = new],
         UNCHANGED <<numrun, cur, cpu>>
  PROVE  OneOnProc' /\ IdleIsNobody' /\ NewAreChildren' /\ NumRunExact'
<1>1. tstate[new] = "none" /\ child[t] = None
  BY DEF Exists, AtLarge
<1>2. OneOnProc' /\ IdleIsNobody'
  BY <1>1 DEF SInv, SchedTypeOK, OneOnProc, IdleIsNobody
<1>3. NewAreChildren'
  <2>1. \A u \in Threads : child[u] # new
    BY <1>1 DEF SInv, NewAreChildren
  <2> QED  BY <1>1, <2>1 DEF SInv, SchedTypeOK, NewAreChildren
<1>4. NumRunExact'
  BY <1>1, NumRunSame DEF SInv, SchedTypeOK, Counted
<1> QED  BY <1>2, <1>3, <1>4

LEMMA ForkThreadKeeps ==
  ASSUME SInv, NEW t \in Threads, NEW new \in Threads, ForkThread(t, new)
  PROVE  SInv'
<1>1. tstate[new] = "none" /\ new \notin Ready
  BY NowhereUnlessRun DEF ForkThread, Exists, SInv
<1>2. OneOnProc' /\ IdleIsNobody' /\ NewAreChildren' /\ NumRunExact'
  BY NewThread DEF ForkThread
<1>3. SchedTypeOK'
  BY DEF ForkThread, SInv, SchedTypeOK, Nodes
<1>4. RunnableQueued'
  BY <1>1, RingsSame DEF ForkThread, SInv, SchedTypeOK
<1>5. nrun' = nrun /\ down' = down
  <2>1. {u \in Ready : new \in Path(u)} = {}
    BY <1>1, NodesApart DEF Ready, Path
  <2>2. nrun[new] = 0
    BY <2>1, FS_EmptySet DEF SInv, NrunCounts, Nodes
  <2> QED  BY <2>2 DEF ForkThread, SInv, SchedTypeOK
<1>6. NrunCounts'
  BY <1>5, TreeSame DEF SInv
<1> QED  BY <1>2, <1>3, <1>4, <1>6 DEF SInv

LEMMA ForkKeeps ==
  ASSUME SInv, NEW t \in Threads, NEW new \in Threads, Fork(t, new)
  PROVE  SInv'
<1>1. /\ \A x \in Threads : Home[x] = Home[new] => tstate[x] = "none" /\ x \notin Ready
      /\ tstate[new] = "none"
  BY NowhereUnlessRun DEF Fork, Exists, SInv
<1>2. OneOnProc' /\ IdleIsNobody' /\ NewAreChildren' /\ NumRunExact'
  BY NewThread DEF Fork
<1>3. down[Home[new]] = {} /\ down' = down
  <2>1. \A x \in Threads : x \notin down[Home[new]]
    BY <1>1, NodesApart DEF SInv, RunnableQueued, Ready
  <2> QED  BY <2>1, NodesApart DEF Fork, SInv, SchedTypeOK
<1>4. nrun' = nrun
  <2>1. {u \in Ready : new \in Path(u)} = {}
    BY <1>1, NodesApart DEF Ready, Path
  <2>2. {u \in Ready : Home[new] \in Path(u)} = {}
    BY <1>1, NodesApart DEF Ready, Path
  <2>3. nrun[new] = 0 /\ nrun[Home[new]] = 0
    BY <2>1, <2>2, FS_EmptySet, NodesApart DEF SInv, NrunCounts, Nodes
  <2> QED  BY <2>3 DEF Fork, SInv, SchedTypeOK
<1>5. SchedTypeOK'
  <2>1. /\ tstate' \in [Threads -> {"none", "NEW", "SLEEP", "RUN", "ONPROC"}]
        /\ class' \in [Threads -> Classes]
        /\ child' \in [Threads -> Threads \cup {None}]
        /\ linked' \subseteq Procs
    BY NodesApart DEF Fork, SInv, SchedTypeOK
  <2>2. /\ ticks' \in [Threads -> 0..RunTicks]
        /\ oink' \in [Threads -> 0..MaxOink]
    BY DEF Fork, SInv, SchedTypeOK
  <2> QED  BY <1>3, <1>4, <2>1, <2>2 DEF Fork, SInv, SchedTypeOK
<1>6. RunnableQueued' /\ NrunCounts'
  BY <1>1, <1>3, <1>4, RingsSame, TreeSame DEF Fork, SInv, SchedTypeOK
<1> QED  BY <1>2, <1>5, <1>6 DEF SInv

LEMMA ExitUnlinkKeeps == ASSUME SInv, NEW t \in Threads, ExitUnlink(t) PROVE SInv'
<1>1. UNCHANGED <<tstate, class, ticks, oink, child, queues, linked, numrun, cur,
                  pri, pre, cpu>>
  BY DEF ExitUnlink
<1>2. SchedTypeOK'
  BY <1>1 DEF ExitUnlink, queues, SInv, SchedTypeOK
<1>3. OneOnProc' /\ IdleIsNobody' /\ NewAreChildren'
  BY <1>1 DEF SInv, OneOnProc, IdleIsNobody, NewAreChildren
<1>4. RunnableQueued' /\ NrunCounts' /\ NumRunExact'
  BY <1>1, RingsSame, TreeSame, NumRunSame DEF queues, Counted, SInv
<1> QED  BY <1>2, <1>3, <1>4 DEF SInv

LEMMA ExitSwtchKeeps == ASSUME SInv, NEW t \in Threads, ExitSwtch(t) PROVE SInv'
<1>1. tstate[t] = "ONPROC" /\ cpu = "run" /\ cur = t
  BY DEF ExitSwtch, Running, SInv, OneOnProc
<1>2. NumRunExact' /\ numrun' \in Nat
  <2>1. t \in Counted /\ Counted' = Counted \ {t}
    BY <1>1 DEF ExitSwtch, Counted, SInv, SchedTypeOK
  <2> QED  BY <2>1, NumRunDown DEF ExitSwtch, SInv
<1>3. SchedTypeOK'
  <2>1. /\ oink' \in [Threads -> 0..MaxOink] /\ ticks' \in [Threads -> 0..RunTicks]
        /\ class' \in [Threads -> Classes] /\ linked' \subseteq Procs
    BY DEF ExitSwtch, SInv, SchedTypeOK, Classes
  <2> QED  BY <1>2, <2>1 DEF ExitSwtch, queues, SInv, SchedTypeOK
<1>4. OneOnProc' /\ IdleIsNobody' /\ NewAreChildren'
  BY <1>1 DEF ExitSwtch, SInv, SchedTypeOK, OneOnProc, IdleIsNobody, NewAreChildren
<1>5. RunnableQueued' /\ NrunCounts'
  BY <1>1, RingsSame, TreeSame DEF ExitSwtch, queues, SInv, SchedTypeOK
<1> QED  BY <1>2, <1>3, <1>4, <1>5 DEF SInv

-----------------------------------------------------------------------------
(* The invariant.                                                          *)

LEMMA SInvInit == SchedInit => SInv
<1> SUFFICES ASSUME SchedInit PROVE SInv
  OBVIOUS
<1> USE DEF SchedInit
<1>1. SchedTypeOK
  <2>1. down \in [Procs -> SUBSET Threads] /\ linked \subseteq Procs
    BY NodesApart
  <2>2. nrun \in [Nodes -> Nat] /\ class \in [Threads -> Classes]
    BY DEF Classes
  <2>3. rt \in Seq(Threads) /\ cheated \in Seq(Threads) /\ bg \in Seq(Threads)
    OBVIOUS
  <2>4. tstate \in [Threads -> {"none", "NEW", "SLEEP", "RUN", "ONPROC"}]
    OBVIOUS
  <2>5. ticks \in [Threads -> 0..RunTicks] /\ oink \in [Threads -> 0..MaxOink]
    OBVIOUS
  <2>6. /\ leaving \in [Threads -> {"no", "exit", "last"}]
        /\ child \in [Threads -> Threads \cup {None}]
        /\ cpu \in {"run", "swtch", "idle", "hlt", "halted"}
    OBVIOUS
  <2>7. numrun \in Nat /\ pri \in 0..4 /\ cur \in Threads \cup {None}
    OBVIOUS
  <2>8. pre \in BOOLEAN
    OBVIOUS
  <2> QED  BY <2>1, <2>2, <2>3, <2>4, <2>5, <2>6, <2>7, <2>8 DEF SchedTypeOK
<1>2. OneOnProc /\ IdleIsNobody /\ NewAreChildren
  BY DEF OneOnProc, IdleIsNobody, NewAreChildren
<1>3. RunnableQueued
  BY NodesApart DEF RunnableQueued, InRing, Contains, IsInjective
<1>4. NumRunExact
  <2>1. {t \in Threads : tstate[t] \in {"RUN", "ONPROC"}} = {Boot}
    OBVIOUS
  <2> QED  BY <2>1, FS_Singleton DEF NumRunExact
<1>5. NrunCounts
  <2>1. Ready = {Boot}
    BY NodesApart DEF Ready
  <2>2. ASSUME NEW x \in Nodes
        PROVE  nrun[x] = Cardinality({t \in Ready : x \in Path(t)})
    <3>1. {t \in Ready : x \in Path(t)} = IF x \in Path(Boot) THEN {Boot} ELSE {}
      BY <2>1
    <3> QED  BY <3>1, FS_Singleton, FS_EmptySet
  <2> QED  BY <2>2 DEF NrunCounts
<1> QED  BY <1>1, <1>2, <1>3, <1>4, <1>5 DEF SInv

LEMMA SInvStep == SInv /\ [SchedNext]_schedVars => SInv'
<1> SUFFICES ASSUME SInv, [SchedNext]_schedVars PROVE SInv'
  OBVIOUS
<1>1. CASE SchedStep \/ Tick
  BY <1>1, SchedStepKeeps, TickKeeps
<1>2. ASSUME NEW t \in Threads, Wake(t) \/ ForkEnds(t) \/ GoToSleep(t)
      PROVE  SInv'
  BY <1>2, WakeKeeps, ForkEndsKeeps, GoToSleepKeeps
<1>3. ASSUME NEW t \in Threads, Preempt(t) \/ Yield(t)
      PROVE  SInv'
  BY <1>3, TimesliceKeeps DEF Preempt, Yield
<1>4. ASSUME NEW t \in Threads, ExitUnlink(t) \/ ExitSwtch(t)
      PROVE  SInv'
  BY <1>4, ExitUnlinkKeeps, ExitSwtchKeeps
<1>5. ASSUME NEW t \in Threads, NEW c \in Classes, SetPrio(t, c)
      PROVE  SInv'
  BY <1>5, SetPrioKeeps
<1>6. ASSUME NEW t \in Threads, NEW new \in Threads, ForkThread(t, new) \/ Fork(t, new)
      PROVE  SInv'
  BY <1>6, ForkThreadKeeps, ForkKeeps
<1>7. CASE UNCHANGED schedVars
  BY <1>7 DEF schedVars, queues, SInv, SchedTypeOK, OneOnProc, IdleIsNobody,
              NewAreChildren, RunnableQueued, NrunCounts, NumRunExact, Ready
<1> QED  BY <1>1, <1>2, <1>3, <1>4, <1>5, <1>6, <1>7 DEF SchedNext

\* Whatever order threads are woken, picked, preempted, created and gone in,
\* the rings, the counts above them, num_run and curthread of sched.c agree
\* with the states of the threads: the inductive invariant of the results
\* below.
THEOREM SchedInvariant == SchedSpec => []SInv
BY SInvInit, SInvStep, PTL DEF SchedSpec

-----------------------------------------------------------------------------
(* What it gives.                                                          *)

\* Counters never go below zero, quanta stay within RUN_TICKS, and t_oink
\* within T_MAX_OINK, whatever sched.c, mutex.c and xclock.c do to them.
THEOREM SchedTypeCorrect == SchedSpec => []SchedTypeOK
<1>1. SInv => SchedTypeOK
  BY DEF SInv
<1> QED  BY <1>1, SchedInvariant, PTL

\* The rings of lsetrun() and swtch() hold each ready thread once, and no
\* thread that runs or sleeps.
THEOREM RingsHoldReady == SchedSpec => []RunnableQueued
<1>1. SInv => RunnableQueued
  BY DEF SInv
<1> QED  BY <1>1, SchedInvariant, PTL

\* s_nrun of every leaf, node and of sched_root is the number of ready leaves.
THEOREM NodesCountReady == SchedSpec => []NrunCounts
<1>1. SInv => NrunCounts
  BY DEF SInv
<1> QED  BY <1>1, SchedInvariant, PTL

\* num_run, by which idle() decides to halt, counts exactly the threads that
\* run or are ready to.
THEOREM IdleCountsWork == SchedSpec => []NumRunExact
<1>1. SInv => NumRunExact
  BY DEF SInv
<1> QED  BY <1>1, SchedInvariant, PTL

-----------------------------------------------------------------------------
(* What the lottery finds.                                                 *)

\* No two threads of a process are in do_exit() at once.
ExitsApart ==
  \A t, u \in Threads : leaving[t] # "no" /\ leaving[u] # "no" /\ Home[t] = Home[u] => t = u

\* The node of a process is there while a thread is; and once the last thread
\* is off p_threads, only others that leave are.
NodesLinked ==
  /\ \A t \in Threads : Exists(t) => Home[t] \in linked
  /\ \A t \in Threads : ~Exists(t) => leaving[t] = "no"
  /\ \A t, u \in Threads : IsLast(t) /\ Exists(u) /\ Home[u] = Home[t] => leaving[u] # "no"

\* Steps that create no thread and free none.
LEMMA SameThreads ==
  ASSUME NodesLinked, linked' = linked, leaving' = leaving,
         \A u \in Threads : Exists(u)' <=> Exists(u)
  PROVE  NodesLinked'
BY DEF NodesLinked, IsLast

LEMMA SameThreadsBut ==
  ASSUME SInv, NodesLinked, linked' = linked, leaving' = leaving, NEW t \in Threads, Exists(t),
         NEW s \in {"SLEEP", "RUN", "ONPROC"}, tstate' = [tstate EXCEPT ![t] = s]
  PROVE  NodesLinked'
BY SameThreads DEF Exists, SInv, SchedTypeOK

LEMMA SwtchLinks == ASSUME SInv, NodesLinked, SchedStep PROVE NodesLinked'
<1>1. ASSUME NEW t \in Threads, NEW p, OntoCpu(t, p), tstate[t] = "RUN" PROVE NodesLinked'
  BY <1>1, SameThreadsBut DEF OntoCpu, Exists
<1>2. ASSUME NEW t, Dequeue(t) PROVE t \in Threads /\ tstate[t] = "RUN"
  BY <1>2 DEF Dequeue
<1>3. CASE PickRT
  BY <1>1, <1>2, <1>3, RTDequeues DEF PickRT, SInv
<1>4. CASE PickCheated
  BY <1>1, <1>2, <1>4, CheatedDequeues DEF PickCheated, SInv
<1>5. CASE PickBG
  BY <1>1, <1>2, <1>5, BGDequeues DEF PickBG, SInv
<1>6. ASSUME NEW t \in Threads, PickTree(t) PROVE NodesLinked'
  BY <1>1, <1>2, <1>6, TreeDequeues DEF PickTree, SInv
<1>7. CASE GoIdle \/ IdleLook \/ IdleHalt
  BY <1>7, SameThreads DEF GoIdle, IdleLook, IdleHalt, Exists
<1> QED BY <1>3, <1>4, <1>5, <1>6, <1>7 DEF SchedStep

LEMMA ForkLinks ==
  ASSUME SInv, NodesLinked, NEW t \in Threads, NEW new \in Threads, ForkThread(t, new) \/ Fork(t, new)
  PROVE  NodesLinked'
<1>1. tstate[t] = "ONPROC" /\ leaving[t] = "no"
  BY DEF ForkThread, Fork, AtLarge, Running, SInv, OneOnProc
<1>2. /\ leaving' = leaving /\ tstate' = [tstate EXCEPT ![new] = "NEW"]
      /\ ~Exists(new) /\ linked \subseteq linked' /\ Home[new] \in linked'
      /\ \A u \in Threads : IsLast(u) => Home[u] # Home[new]
  <2>1. CASE ForkThread(t, new)
    BY <1>1, <2>1 DEF ForkThread, NodesLinked, Exists
  <2>2. CASE Fork(t, new)
    BY <1>1, <2>2 DEF Fork, NodesLinked, Exists, IsLast
  <2> QED BY <2>1, <2>2
<1>3. \A u \in Threads : Exists(u)' <=> Exists(u) \/ u = new
  BY <1>2 DEF Exists, SInv, SchedTypeOK
<1> QED BY <1>2, <1>3 DEF NodesLinked, IsLast

LEMMA ExitUnlinkLinks ==
  ASSUME SInv, NodesLinked, NEW t \in Threads, ExitUnlink(t)
  PROVE  NodesLinked'
<1>1. Exists(t)
  BY DEF ExitUnlink, AtLarge, Running, SInv, OneOnProc, Exists
<1>2. /\ linked' = linked /\ tstate' = tstate
      /\ \A u \in Threads : u # t => leaving'[u] = leaving[u]
      /\ leaving'[t] # "no"
      /\ leaving'[t] = "last" => Members(Home[t]) = {t}
  BY DEF ExitUnlink, SInv, SchedTypeOK
<1> QED BY <1>1, <1>2 DEF NodesLinked, IsLast, Exists, Members

LEMMA ExitSwtchLinks ==
  ASSUME SInv, NodesLinked, ExitsApart, NEW t \in Threads, ExitSwtch(t)
  PROVE  NodesLinked'
<1>1. \A u \in Threads : /\ leaving'[u] = IF u = t THEN "no" ELSE leaving[u]
                         /\ Exists(u)' <=> Exists(u) /\ u # t
  BY DEF ExitSwtch, Exists, SInv, SchedTypeOK
<1>2. CASE IsLast(t)
  <2>1. \A u \in Threads : Exists(u) /\ Home[u] = Home[t] => u = t
    BY <1>2 DEF NodesLinked, ExitsApart, IsLast
  <2>2. linked' = linked \ {Home[t]}
    BY <1>2 DEF ExitSwtch
  <2> QED BY <1>1, <2>1, <2>2 DEF NodesLinked, IsLast
<1>3. CASE ~IsLast(t)
  <2>1. linked' = linked
    BY <1>3 DEF ExitSwtch
  <2> QED BY <1>1, <2>1 DEF NodesLinked, IsLast
<1> QED BY <1>2, <1>3

LEMMA LinksStep == SInv /\ NodesLinked /\ ExitsApart /\ [SchedNext]_schedVars => NodesLinked'
<1> SUFFICES ASSUME SInv, NodesLinked, ExitsApart, [SchedNext]_schedVars PROVE NodesLinked'
  OBVIOUS
<1>1. ASSUME NEW t \in Threads, Wake(t) \/ ForkEnds(t) PROVE NodesLinked'
  <2>1. CASE Wake(t)
    BY <2>1, SameThreadsBut DEF Wake, SetRun, Exists
  <2>2. CASE ForkEnds(t)
    BY <2>2, SameThreadsBut DEF ForkEnds, SetRun, Exists, SInv, SchedTypeOK, NewAreChildren
  <2> QED BY <1>1, <2>1, <2>2
<1>2. ASSUME NEW t \in Threads, Preempt(t) \/ Yield(t) \/ GoToSleep(t) PROVE NodesLinked'
  BY <1>2, SameThreadsBut DEF Preempt, Yield, Timeslice, GoToSleep, Running, Exists, SInv, OneOnProc
<1>3. ASSUME NEW t \in Threads, NEW c \in Classes, SetPrio(t, c) PROVE NodesLinked'
  BY <1>3, SameThreads DEF SetPrio, Exists
<1>4. CASE Tick \/ UNCHANGED schedVars
  BY <1>4, SameThreads DEF Tick, schedVars, Exists
<1> QED BY <1>1, <1>2, <1>3, <1>4, SwtchLinks, ForkLinks, ExitUnlinkLinks, ExitSwtchLinks
        DEF SchedNext

\* A leaf that the root counts is ready, is counted at its own node, and that
\* node is in the ring of the root.
LEMMA LinksFind == SInv /\ NodesLinked => PickFinds
<1> SUFFICES ASSUME SInv, NodesLinked, nrun[Root] > 0
             PROVE  \E p \in linked : nrun[p] > 0 /\ \E t \in down[p] : nrun[t] > 0
  BY DEF PickFinds
<1>1. /\ \A x \in Nodes : nrun[x] = Cardinality(Below(x))
      /\ Root \in Nodes /\ \A t \in Threads : Path(t) \subseteq Nodes
  BY NodesApart DEF SInv, NrunCounts, Below, Nodes
<1>2. PICK t : t \in Below(Root)
  <2>1. Cardinality(Below(Root)) > 0
    BY <1>1
  <2>2. Cardinality({}) = 0
    BY FS_EmptySet
  <2>3. Below(Root) # {}
    BY <2>1, <2>2
  <2> QED BY <2>3
<1>3. /\ t \in Threads /\ t \in Ready /\ t \in down[Home[t]] /\ t \in Path(t) /\ Home[t] \in Path(t)
  BY <1>2 DEF Below, Ready, Path
<1>4. \A x \in Path(t) : nrun[x] > 0
  <2> SUFFICES ASSUME NEW x \in Path(t) PROVE nrun[x] > 0
    OBVIOUS
  <2>1. t \in Below(x) /\ Below(x) \in SUBSET Threads
    BY <1>3 DEF Below, Ready
  <2>2. IsFiniteSet(Below(x)) /\ Cardinality(Below(x)) \in Nat /\ Cardinality(Below(x)) # 0
    BY <2>1, SubsetsFinite, FS_EmptySet
  <2> QED BY <1>1, <1>3, <2>2
<1>5. Home[t] \in linked
  BY <1>3, NowhereUnlessRun DEF NodesLinked, Exists, SInv
<1> QED BY <1>3, <1>4, <1>5

\* pick_run()'s "pick_run: !nrun": unless two threads of a process are in
\* do_exit() at once, the lottery finds a leaf whenever sched_root counts one,
\* whatever else forks, exits, wakes and is preempted.
THEOREM LotteryFinds == SchedSpec /\ []ExitsApart => []PickFinds
<1>1. SchedInit => NodesLinked
  BY DEF SchedInit, NodesLinked, Exists, IsLast
<1> QED BY <1>1, LinksStep, LinksFind, SchedInvariant, PTL DEF SchedSpec

\* do_exit(): as long as the threads of a process that exit are at most one,
\* no two are there at once, so that the lottery always finds a leaf.
THEOREM LotteryAlwaysFinds ==
  ASSUME \A t, u \in Exits \cap Threads : Home[t] = Home[u] => t = u
  PROVE  SchedSpec => []PickFinds
<1> DEFINE Leavers == \A t \in Threads : leaving[t] # "no" => t \in Exits
<1>1. SchedInit => Leavers
  BY DEF SchedInit
<1>2. SInv /\ Leavers /\ [SchedNext]_schedVars => Leavers'
  <2> SUFFICES ASSUME SInv, Leavers, [SchedNext]_schedVars PROVE Leavers'
    OBVIOUS
  <2>1. ASSUME leaving' = leaving PROVE Leavers'
    BY <2>1
  <2>2. ASSUME NEW t \in Threads, ExitUnlink(t) \/ ExitSwtch(t) PROVE Leavers'
    BY <2>2 DEF ExitUnlink, ExitSwtch, SInv, SchedTypeOK
  <2>3. CASE SchedStep \/ Tick \/ UNCHANGED schedVars
    BY <2>3, <2>1 DEF SchedStep, PickRT, PickCheated, PickBG, PickTree, OntoCpu, GoIdle, IdleLook,
                      IdleHalt, Tick, schedVars
  <2>4. ASSUME NEW t \in Threads, Wake(t) \/ ForkEnds(t) \/ Preempt(t) \/ Yield(t) \/ GoToSleep(t)
        PROVE  Leavers'
    BY <2>4, <2>1 DEF Wake, ForkEnds, SetRun, Preempt, Yield, Timeslice, GoToSleep
  <2>5. ASSUME NEW t \in Threads, NEW c \in Classes, SetPrio(t, c) PROVE Leavers'
    BY <2>5, <2>1 DEF SetPrio
  <2>6. ASSUME NEW t \in Threads, NEW new \in Threads, ForkThread(t, new) \/ Fork(t, new) PROVE Leavers'
    BY <2>6, <2>1 DEF ForkThread, Fork
  <2> QED BY <2>2, <2>3, <2>4, <2>5, <2>6 DEF SchedNext
<1>3. Leavers => ExitsApart
  BY DEF ExitsApart
<1> QED BY <1>1, <1>2, <1>3, SchedInvariant, LotteryFinds, PTL DEF SchedSpec

HIDE ThreadAssumption
HIDE SchedAssumption

-----------------------------------------------------------------------------
(* The clock.                                                              *)

\* The variables of the clock have their types.
ClockTypeOK ==
  /\ phase \in 0..(Hz - 1) /\ pend \in Nat /\ clk \in {"off", "on", "alarm"}
  /\ eventq \in Seq(Threads)
  /\ left \in [Threads -> Int]
  /\ onlist \in [Threads -> BOOLEAN] /\ asks \in [Threads -> BOOLEAN]

\* Only its owner sleeps on the semaphore of an entry, while the entry is
\* allocated: the entry can be freed without a look at the semaphore.
OwnEntries ==
  \A t \in Threads :
    /\ asks[t] => on[t] = t
    /\ st[t] # "out" /\ on[t] \in Threads => on[t] = t /\ asks[t]

\* The semaphores and the scheduler agree on who sleeps: whoever mutex.c takes
\* off a ring of sleepers is set running, by v_sema(), an event or the alarm,
\* and lsetrun() never finds that somebody else has done so before.
SleepersAgree == \A t \in Threads : st[t] = "asleep" <=> tstate[t] = "SLEEP"

-----------------------------------------------------------------------------
(* Lists.                                                                  *)

\* The list p is q, and t at the k-th place.
Entered(p, q, k, t) ==
  /\ Len(p) = Len(q) + 1
  /\ \A i \in 1..(Len(q) + 1) :
       p[i] = IF i < k THEN q[i] ELSE IF i = k THEN t ELSE q[i - 1]

\* What entering at the k-th place does to the places behind it.
LEMMA InsertAtIs ==
  ASSUME NEW T, NEW q \in Seq(T), NEW k \in 1..(Len(q) + 1), NEW t \in T
  PROVE  InsertAt(q, k, t) \in Seq(T) /\ Entered(InsertAt(q, k, t), q, k, t)
<1>1. PICK n \in Nat : n = Len(q) /\ k \in 1..(n + 1)
  OBVIOUS
<1>2. PICK a, b, c : a = SubSeq(q, 1, k - 1) /\ b = SubSeq(q, k, n) /\ c = <<t>>
  OBVIOUS
<1>3. /\ a \in Seq(T) /\ Len(a) = k - 1
      /\ \A i \in 1..(k - 1) : a[i] = q[i]
  <2>1. 1 \in Int /\ k - 1 \in Int /\ \A i \in 1..(k - 1) : q[i] \in T
    BY <1>1
  <2>2. /\ a \in Seq(T) /\ Len(a) = IF 1 <= k - 1 THEN (k - 1) - 1 + 1 ELSE 0
        /\ \A i \in 1..((k - 1) - 1 + 1) : a[i] = q[1 + i - 1]
    BY <1>2, <2>1, SubSeqProperties
  <2> QED  BY <1>1, <2>2
<1>4. /\ b \in Seq(T) /\ Len(b) = n - (k - 1)
      /\ \A i \in 1..(n - (k - 1)) : b[i] = q[k + i - 1]
  <2>1. k \in Int /\ n \in Int /\ \A i \in k..n : q[i] \in T
    BY <1>1
  <2>2. /\ b \in Seq(T) /\ Len(b) = IF k <= n THEN n - k + 1 ELSE 0
        /\ \A i \in 1..(n - k + 1) : b[i] = q[k + i - 1]
    BY <1>2, <2>1, SubSeqProperties
  <2> QED  BY <1>1, <2>2
<1>5. c \in Seq(T) /\ Len(c) = 1 /\ c[1] = t
  BY <1>2
<1>6. PICK d : d = a \o c
  OBVIOUS
<1>7. /\ d \in Seq(T) /\ Len(d) = k
      /\ \A i \in 1..k : d[i] = IF i < k THEN q[i] ELSE t
  <2>1. /\ d \in Seq(T) /\ Len(d) = Len(a) + Len(c)
        /\ \A i \in 1..(Len(a) + Len(c)) : d[i] = IF i <= Len(a) THEN a[i] ELSE c[i - Len(a)]
    BY <1>3, <1>5, <1>6, ConcatProperties, Zenon
  <2>2. /\ Len(d) = (k - 1) + 1
        /\ \A i \in 1..((k - 1) + 1) : d[i] = IF i <= k - 1 THEN a[i] ELSE c[i - (k - 1)]
    BY <1>3, <1>5, <2>1, Zenon
  <2>3. ASSUME NEW i \in 1..k
        PROVE  d[i] = IF i < k THEN q[i] ELSE t
    <3>1. CASE i < k
      <4>1. i \in 1..(k - 1) /\ d[i] = a[i]
        BY <1>1, <2>2, <3>1
      <4> QED  BY <1>3, <3>1, <4>1
    <3>2. CASE i = k
      <4>1. d[i] = c[1]
        BY <1>1, <2>2, <3>2
      <4> QED  BY <1>1, <1>5, <3>2, <4>1
    <3> QED  BY <1>1, <3>1, <3>2
  <2> QED  BY <1>1, <2>1, <2>2, <2>3
<1>8. PICK p : p = d \o b
  OBVIOUS
<1>9. /\ p \in Seq(T) /\ Len(p) = n + 1
      /\ \A i \in 1..(n + 1) : p[i] = IF i < k THEN q[i] ELSE IF i = k THEN t ELSE q[i - 1]
  <2>1. /\ p \in Seq(T) /\ Len(p) = Len(d) + Len(b)
        /\ \A i \in 1..(Len(d) + Len(b)) : p[i] = IF i <= Len(d) THEN d[i] ELSE b[i - Len(d)]
    BY <1>4, <1>7, <1>8, ConcatProperties, Zenon
  <2>2. /\ Len(p) = k + (n - (k - 1))
        /\ \A i \in 1..(k + (n - (k - 1))) : p[i] = IF i <= k THEN d[i] ELSE b[i - k]
    BY <1>4, <1>7, <2>1, Zenon
  <2>3. k + (n - (k - 1)) = n + 1
    BY <1>1
  <2>4. ASSUME NEW i \in 1..(n + 1)
        PROVE  p[i] = IF i < k THEN q[i] ELSE IF i = k THEN t ELSE q[i - 1]
    <3>1. CASE i <= k
      <4>1. i \in 1..k /\ p[i] = d[i]
        BY <1>1, <2>2, <2>3, <3>1
      <4> QED  BY <1>1, <1>7, <4>1
    <3>2. CASE i > k
      <4>1. p[i] = b[i - k] /\ i - k \in 1..(n - (k - 1)) /\ k + (i - k) - 1 = i - 1
        BY <1>1, <2>2, <2>3, <3>2
      <4>2. b[i - k] = q[k + (i - k) - 1]
        BY <1>4, <4>1, Zenon
      <4>3. p[i] = q[i - 1]
        BY <4>1, <4>2, Zenon
      <4> QED  BY <1>1, <3>2, <4>3
    <3>3. i <= k \/ i > k
      BY <1>1
    <3> QED  BY <3>1, <3>2, <3>3, Zenon
  <2> QED  BY <2>1, <2>2, <2>3, <2>4
<1>10. Entered(p, q, k, t)
  BY <1>1, <1>9 DEF Entered
<1> QED  BY <1>1, <1>2, <1>6, <1>8, <1>9, <1>10 DEF InsertAt

\* The list q is in the order of the keys f.
InOrder(q, f) == \A i, j \in 1..Len(q) : i < j => f[q[i]] <= f[q[j]]

\* Keys that differ from the old ones by the same amount, for all on the list.
LEMMA OrderShifts ==
  ASSUME NEW q \in Seq(Threads), NEW f \in [Threads -> Int], NEW g \in [Threads -> Int],
         NEW c \in Int, \A i \in 1..Len(q) : g[q[i]] = f[q[i]] - c, InOrder(q, f)
  PROVE  InOrder(q, g)
<1> SUFFICES ASSUME NEW i \in 1..Len(q), NEW j \in 1..Len(q), i < j
             PROVE  g[q[i]] <= g[q[j]]
  BY DEF InOrder
<1>1. f[q[i]] <= f[q[j]]
  BY DEF InOrder
<1>2. PICK a \in Int, b \in Int : a = f[q[i]] /\ b = f[q[j]]
  OBVIOUS
<1>3. g[q[i]] = a - c /\ g[q[j]] = b - c /\ a <= b
  BY <1>1, <1>2
<1> QED  BY <1>3

\* Whoever leaves, those that stay are still in order.
LEMMA OrderWithout ==
  ASSUME NEW q \in Seq(Threads), NEW f \in [Threads -> Int], NEW k \in 1..Len(q),
         InOrder(q, f)
  PROVE  InOrder(RemoveAt(q, k), f)
<1>1. PICK n \in Nat : n = Len(q) /\ k \in 1..n
  OBVIOUS
<1>2. PICK p : p = RemoveAt(q, k)
  OBVIOUS
<1>3. /\ Len(p) = n - 1
      /\ \A i \in 1..(n - 1) : p[i] = IF i < k THEN q[i] ELSE q[i + 1]
  BY <1>1, <1>2, RemoveAtIs, Zenon
<1> SUFFICES ASSUME NEW i \in 1..(n - 1), NEW j \in 1..(n - 1), i < j
             PROVE  f[p[i]] <= f[p[j]]
  BY <1>2, <1>3 DEF InOrder
<1>4. PICK a \in 1..n : a = (IF i < k THEN i ELSE i + 1) /\ p[i] = q[a]
  <2>1. (IF i < k THEN i ELSE i + 1) \in 1..n
    BY <1>1
  <2> QED  BY <1>3, <2>1
<1>5. PICK b \in 1..n : b = (IF j < k THEN j ELSE j + 1) /\ p[j] = q[b]
  <2>1. (IF j < k THEN j ELSE j + 1) \in 1..n
    BY <1>1
  <2> QED  BY <1>3, <2>1
<1>6. a < b
  <2>1. a = (IF i < k THEN i ELSE i + 1) /\ b = (IF j < k THEN j ELSE j + 1)
    BY <1>4, <1>5, Zenon
  <2> QED  BY <1>1, <2>1
<1>7. \A x, y \in 1..n : x < y => f[q[x]] <= f[q[y]]
  BY <1>1 DEF InOrder
<1>8. f[q[a]] <= f[q[b]]
  BY <1>6, <1>7, Zenon
<1> QED  BY <1>4, <1>5, <1>8, Zenon

\* A newcomer that stands behind the earlier ones and before all others.
LEMMA OrderWith ==
  ASSUME NEW q \in Seq(Threads), NEW f \in [Threads -> Int], NEW t \in Threads,
         NEW k \in 1..(Len(q) + 1), InOrder(q, f),
         \A i \in 1..Len(q) : IF i < k THEN f[q[i]] <= f[t] ELSE f[t] <= f[q[i]]
  PROVE  InOrder(InsertAt(q, k, t), f)
<1>1. PICK n \in Nat : n = Len(q) /\ k \in 1..(n + 1)
  OBVIOUS
<1>2. PICK p : p = InsertAt(q, k, t)
  OBVIOUS
<1>3. /\ Len(p) = n + 1
      /\ \A i \in 1..(n + 1) : p[i] = IF i < k THEN q[i] ELSE IF i = k THEN t ELSE q[i - 1]
  <2>1. Entered(p, q, k, t)
    BY <1>2, InsertAtIs, Zenon
  <2> QED  BY <1>1, <2>1 DEF Entered
<1>4. \A i \in 1..n : /\ i < k => f[q[i]] <= f[t]
                      /\ ~(i < k) => f[t] <= f[q[i]]
  BY <1>1
<1>5. \A i, j \in 1..n : i < j => f[q[i]] <= f[q[j]]
  BY <1>1 DEF InOrder
<1> SUFFICES ASSUME NEW i \in 1..(n + 1), NEW j \in 1..(n + 1), i < j
             PROVE  f[p[i]] <= f[p[j]]
  BY <1>2, <1>3 DEF InOrder
<1>6. CASE j < k
  <2>1. i \in 1..n /\ j \in 1..n /\ p[i] = q[i] /\ p[j] = q[j]
    BY <1>1, <1>3, <1>6
  <2> QED  BY <1>5, <2>1
<1>7. CASE j = k
  <2>1. i \in 1..n /\ i < k /\ p[i] = q[i] /\ p[j] = t
    BY <1>1, <1>3, <1>7
  <2> QED  BY <1>4, <2>1
<1>8. CASE j > k /\ i < k
  <2>1. /\ i \in 1..n /\ j - 1 \in 1..n /\ i < j - 1
        /\ p[i] = q[i] /\ p[j] = q[j - 1]
    BY <1>1, <1>3, <1>8
  <2> QED  BY <1>5, <2>1
<1>9. CASE j > k /\ i = k
  <2>1. j - 1 \in 1..n /\ ~(j - 1 < k) /\ p[i] = t /\ p[j] = q[j - 1]
    BY <1>1, <1>3, <1>9
  <2> QED  BY <1>4, <2>1
<1>10. CASE j > k /\ i > k
  <2>1. /\ i - 1 \in 1..n /\ j - 1 \in 1..n /\ i - 1 < j - 1
        /\ p[i] = q[i - 1] /\ p[j] = q[j - 1]
    BY <1>1, <1>3, <1>10
  <2> QED  BY <1>5, <2>1
<1> QED  BY <1>1, <1>6, <1>7, <1>8, <1>9, <1>10

-----------------------------------------------------------------------------
(* Numbers.                                                                *)

\* A set of numbers has a least one.
LEMMA MinIs ==
  ASSUME NEW S \in SUBSET Nat, S # {}
  PROVE  Min(S) \in S /\ \A y \in S : Min(S) <= y
<1>1. PICK R : R = {p \in Nat \X Nat : p[1] < p[2]}
  OBVIOUS
<1>2. IsWellFoundedOn(R, Nat)
  BY <1>1, NatLessThanWellFounded DEF OpToRel
<1>3. \E x \in S : \A y \in S : ~ (<<y, x>> \in R)
  BY <1>2, WFMin
<1>4. PICK x \in S : \A y \in S : ~ (y < x)
  BY <1>1, <1>3
<1>5. \A y \in S : x <= y
  BY <1>4
<1> QED  BY <1>5 DEF Min

\* Integer division by n splits a number into n times the result and a rest.
LEMMA DivRest ==
  ASSUME NEW n \in Nat \ {0}, NEW x \in Int
  PROVE  /\ x \div n \in Int /\ x % n \in 0..(n - 1)
         /\ x = n * (x \div n) + (x % n)
OBVIOUS

\* It is the only such split.
LEMMA DivIs ==
  ASSUME NEW n \in Nat \ {0}, NEW x \in Int, NEW q \in Int, NEW r \in 0..(n - 1),
         x = n * q + r
  PROVE  x \div n = q
<1>1. PICK p \in Int, s \in 0..(n - 1) : p = x \div n /\ x = n * p + s
  BY DivRest
<1>2. n * p + s = n * q + r
  BY <1>1
<1>3. n * (p - q) = r - s
  BY <1>2
<1>4. CASE p - q >= 1
  <2>1. n * (p - q) >= n
    BY <1>4
  <2> QED  BY <1>3, <2>1
<1>5. CASE p - q <= -1
  <2>1. n * (p - q) <= -n
    BY <1>5
  <2> QED  BY <1>3, <2>1
<1> QED  BY <1>1, <1>4, <1>5

\* Whole numbers of n pass through the division.
LEMMA DivShift ==
  ASSUME NEW n \in Nat \ {0}, NEW x \in Int, NEW c \in Int
  PROVE  (x - n * c) \div n = (x \div n) - c
<1>1. PICK p \in Int, s \in 0..(n - 1) : p = x \div n /\ x = n * p + s
  BY DivRest
<1>2. n * c \in Int /\ n * p \in Int /\ n * (p - c) = n * p - n * c
  OBVIOUS
<1>3. PICK y \in Int : y = x - n * c
  BY <1>2
<1>4. y = n * (p - c) + s
  BY <1>1, <1>2, <1>3
<1>5. y \div n = p - c
  BY <1>4, DivIs
<1> QED  BY <1>1, <1>3, <1>5

\* Division keeps the order.
LEMMA DivMono ==
  ASSUME NEW n \in Nat \ {0}, NEW x \in Int, NEW y \in Int, x <= y
  PROVE  x \div n <= y \div n
<1>1. PICK p \in Int, s \in 0..(n - 1) : p = x \div n /\ x = n * p + s
  BY DivRest
<1>2. PICK q \in Int, r \in 0..(n - 1) : q = y \div n /\ y = n * q + r
  BY DivRest
<1>3. CASE p - q >= 1
  <2>1. n * (p - q) >= n /\ n * (p - q) = n * p - n * q
    BY <1>3
  <2>2. n * p \in Int /\ n * q \in Int
    OBVIOUS
  <2> QED  BY <1>1, <1>2, <2>1, <2>2
<1> QED  BY <1>1, <1>2, <1>3

\* Of an element that stands in a list once, the first is the only one.
LEMMA RemoveFirstIs ==
  ASSUME NEW T, NEW q \in Seq(T), NEW t \in T, IsInjective(q), Contains(q, t)
  PROVE  \E k \in 1..Len(q) : q[k] = t /\ RemoveFirst(q, t) = RemoveAt(q, k)
<1>1. PICK k \in 1..Len(q) : q[k] = t
  BY DEF Contains
<1>2. {i \in 1..Len(q) : q[i] = t} = {k}
  BY <1>1 DEF IsInjective
<1>3. Min({k}) = k
  <2>1. {k} \in SUBSET Nat /\ {k} # {}
    OBVIOUS
  <2>2. Min({k}) \in {k}
    BY <2>1, MinIs, Zenon
  <2> QED  BY <2>2
<1>4. SelectInSeq(q, LAMBDA v : v = t) = k
  BY <1>2, <1>3 DEF SelectInSeq
<1> QED  BY <1>1, <1>4 DEF RemoveFirst

-----------------------------------------------------------------------------
(* Steps of the whole are steps of the parts.                              *)

\* An entry that alarm_wakeup() finds is on the list, and due.
LEMMA HitIs ==
  ASSUME ClockTypeOK, Hits # {}
  PROVE  /\ Min(Hits) \in 1..Len(eventq)
         /\ eventq[Min(Hits)] \in Threads
         /\ left[eventq[Min(Hits)]] <= 0
<1>1. Hits \in SUBSET Nat /\ Min(Hits) \in Hits
  <2>1. Hits \in SUBSET Nat
    BY DEF Hits, ClockTypeOK
  <2> QED  BY <2>1, MinIs, Zenon
<1>2. eventq \in Seq(Threads)
  BY DEF ClockTypeOK
<1> QED  BY <1>1, <1>2 DEF Hits

\* v_sema() wakes the first sleeper, and nobody else.
LEMMA GiveWakes ==
  ASSUME IInv, NEW s \in Semas, Give(s), sem[s].q # << >>
  PROVE  \E h \in Threads : /\ h = Head(sem[s].q)
                            /\ st[h] = "asleep" /\ on[h] = s
                            /\ st' = [st EXCEPT ![h] = "woken"]
<1>1. /\ sem[s] \in SemaType(Threads)
      /\ CountIsQueue(sem[s]) /\ QueueDistinct(sem[s])
  BY DEF IInv, TypeOK, QueuesOK
<1>2. PICK h \in Threads : h = Head(sem[s].q) /\ Queued(sem[s], h)
  BY <1>1, GiveOK
<1>3. st[h] = "asleep" /\ on[h] = s
  BY <1>2 DEF IInv, QueuesOK
<1>4. st' = [st EXCEPT ![h] = "woken"]
  BY <1>2 DEF Give
<1> QED  BY <1>2, <1>3, <1>4

\* What the clock, the scheduler and the threads do to the semaphores is what
\* anybody may do; only freeing an entry is not.
LEMMA StepsOfSemas ==
  ASSUME ClockTypeOK, ClockNext
  PROVE  [Next]_vars \/ \E t \in Threads : SleepEnds(t)
<1>0. Threads \subseteq Semas /\ Others \subseteq Semas
  BY ClockAssumption DEF Others
<1>1. CASE ClockTick \/ NestedTick \/ ClockDone \/ Switches
  BY <1>1, Zenon DEF ClockTick, NestedTick, ClockDone, Switches, semaVars
<1>2. CASE AlarmTurn
  <2>1. eventq[Min(Hits)] \in Semas /\ Give(eventq[Min(Hits)])
    BY <1>0, <1>2, HitIs DEF AlarmTurn
  <2> QED  BY <2>1, Zenon DEF Next
<1>3. ASSUME NEW s \in Others, Unlock(s)
      PROVE  [Next]_vars
  BY <1>0, <1>3 DEF Unlock, Next
<1>4. ASSUME NEW t \in Threads, NEW d, NEW c \in BOOLEAN, TimedSleep(t, d, c)
      PROVE  [Next]_vars
  BY <1>0, <1>4, Zenon DEF TimedSleep, Next
<1>5. ASSUME NEW t \in Threads, WakesUp(t) \/ Signal(t)
      PROVE  [Next]_vars
  BY <1>5, Zenon DEF WakesUp, Signal, Next
<1>6. ASSUME NEW t \in Threads, Schedules(t)
      PROVE  [Next]_vars
  BY <1>6, Zenon DEF Schedules, semaVars
<1>7. ASSUME NEW t \in Threads, NEW s \in Others, Lock(t, s)
      PROVE  [Next]_vars
  BY <1>0, <1>7, Zenon DEF Lock, Next
<1> QED  BY <1>1, <1>2, <1>3, <1>4, <1>5, <1>6, <1>7, Zenon DEF ClockNext

\* What the clock, the semaphores and the threads do to the scheduler is what
\* the scheduler expects: only those that sleep are woken, and only the
\* current thread goes to sleep.
LEMMA StepsOfSched ==
  ASSUME IInv, ClockTypeOK, ClockNext
  PROVE  [SchedNext]_schedVars
<1>0. Threads \subseteq Semas /\ Others \subseteq Semas
  BY ClockAssumption DEF Others
<1>1. CASE ClockTick
  BY <1>1, Zenon DEF ClockTick, SchedNext
<1>2. CASE NestedTick \/ ClockDone
  BY <1>2, Zenon DEF NestedTick, ClockDone
<1>3. CASE Switches
  BY <1>3, Zenon DEF Switches, SchedNext
<1>4. CASE AlarmTurn
  <2>1. eventq[Min(Hits)] \in Threads
    BY <1>4, HitIs DEF AlarmTurn
  <2> QED  BY <1>4, <2>1, Zenon DEF AlarmTurn, SchedNext
<1>5. ASSUME NEW s \in Others, Unlock(s)
      PROVE  [SchedNext]_schedVars
  <2>1. Give(s) /\ s \in Semas
    BY <1>0, <1>5 DEF Unlock
  <2>2. CASE sem[s].q = << >>
    BY <1>5, <2>2, Zenon DEF Unlock
  <2>3. CASE sem[s].q # << >>
    <3>1. Head(sem[s].q) \in Threads
      BY <2>1, <2>3, GiveWakes
    <3> QED  BY <1>5, <2>3, <3>1, Zenon DEF Unlock, SchedNext
  <2> QED  BY <2>2, <2>3
<1>6. ASSUME NEW t \in Threads, NEW d, NEW c \in BOOLEAN, TimedSleep(t, d, c)
      PROVE  [SchedNext]_schedVars
  BY <1>6, Zenon DEF TimedSleep, SchedNext
<1>7. ASSUME NEW t \in Threads, WakesUp(t) \/ SleepEnds(t)
      PROVE  [SchedNext]_schedVars
  BY <1>7, Zenon DEF WakesUp, SleepEnds, FreeEntry
<1>8. ASSUME NEW t \in Threads, Signal(t)
      PROVE  [SchedNext]_schedVars
  BY <1>8, Zenon DEF Signal, SchedNext
<1>9. ASSUME NEW t \in Threads, Schedules(t)
      PROVE  [SchedNext]_schedVars
  BY <1>9, Zenon DEF Schedules, SchedNext
<1>10. ASSUME NEW t \in Threads, NEW s \in Others, Lock(t, s)
       PROVE  [SchedNext]_schedVars
  BY <1>10, Zenon DEF Lock, SchedNext
<1> QED  BY <1>1, <1>2, <1>3, <1>4, <1>5, <1>6, <1>7, <1>8, <1>9, <1>10, Zenon DEF ClockNext

-----------------------------------------------------------------------------
(* The semaphores.                                                         *)

\* When an entry is freed nobody sleeps on its semaphore and nobody has been
\* handed a unit of it.
LEMMA FreedIsIdle ==
  ASSUME OwnEntries, NEW t \in Threads, st[t] = "out"
  PROVE  \A u \in Threads : on[u] = t => st[u] = "out"
BY DEF OwnEntries

\* A new entry is a new semaphore.
LEMMA FreeKeepsSemas ==
  ASSUME IInv, UnitsConserved, OwnEntries, NEW t \in Threads, SleepEnds(t)
  PROVE  IInv' /\ UnitsConserved'
<1> USE DEF IInv
<1>0. t \in Semas
  BY ClockAssumption
<1>1. /\ sem' = [sem EXCEPT ![t] = NewSema(0)]
      /\ given' = [given EXCEPT ![t] = 0]
      /\ taken' = [taken EXCEPT ![t] = 0]
      /\ UNCHANGED <<st, on, catch, intr>>
  BY DEF SleepEnds, FreeEntry
<1>2. /\ NewSema(0) \in SemaType(Threads)
      /\ QueueDistinct(NewSema(0)) /\ CountIsQueue(NewSema(0))
      /\ \A u \in Threads : ~Queued(NewSema(0), u)
  BY NewSemaOK
<1>3. \A u \in Threads : on[u] = t => st[u] = "out"
  BY FreedIsIdle DEF SleepEnds
<1>4. TypeOK'
  BY <1>0, <1>1, <1>2 DEF TypeOK
<1>5. QueuesOK'
  <2>1. \A u \in Threads : Queued(sem'[t], u) <=> (st'[u] = "asleep" /\ on'[u] = t)
    BY <1>0, <1>1, <1>2, <1>3 DEF TypeOK
  <2>2. CountIsQueue(sem'[t]) /\ QueueDistinct(sem'[t])
    BY <1>0, <1>1, <1>2 DEF TypeOK
  <2>3. \A r \in Semas \ {t} : sem'[r] = sem[r]
    BY <1>0, <1>1 DEF TypeOK
  <2> QED  BY <1>0, <1>1, <1>4, <2>1, <2>2, <2>3, QueuesStep
<1>6. OnlyCatchIsInterrupted' /\ FreshIntr'
  BY <1>1 DEF OnlyCatchIsInterrupted, FreshIntr
<1>7. ASSUME NEW r \in Semas
      PROVE  Balance(r)'
  <2>1. Granted(r)' = Granted(r)
    BY <1>1 DEF Granted
  <2>2. CASE r = t
    <3>1. Granted(r) = {}
      BY <1>3, <2>2 DEF Granted
    <3>2. Cardinality(Granted(r)') = 0
      BY <2>1, <3>1, FS_EmptySet
    <3>3. sem'[r].cnt = 0 /\ given'[r] = 0 /\ taken'[r] = 0
      BY <1>1, <2>2 DEF TypeOK, NewSema
    <3> QED  BY <3>2, <3>3 DEF Balance
  <2>3. CASE r # t
    BY <1>0, <1>1, <2>1, <2>3, BalanceFrame, BalanceIsConserved DEF TypeOK
  <2> QED  BY <2>2, <2>3
<1> QED  BY <1>4, <1>5, <1>6, <1>7 DEF UnitsConserved, Balance

\* No step of the whole disturbs the semaphores.
LEMMA SemasStep ==
  ASSUME IInv, UnitsConserved, ClockTypeOK, OwnEntries, ClockNext
  PROVE  IInv' /\ UnitsConserved'
<1>1. CASE [Next]_vars
  BY <1>1, IInvStep, UnitsStep
<1>2. CASE \E t \in Threads : SleepEnds(t)
  BY <1>2, FreeKeepsSemas
<1> QED  BY <1>1, <1>2, StepsOfSemas

\* Who may wake up or come to sleep, and on what.
LEMMA OwnEntriesStep ==
  ASSUME IInv, ClockTypeOK, OwnEntries, ClockNext
  PROVE  OwnEntries'
<1> USE DEF OwnEntries
<1>0. /\ st \in [Threads -> {"out", "asleep", "woken"}] /\ on \in [Threads -> Semas]
      /\ asks \in [Threads -> BOOLEAN]
      /\ Threads \subseteq Semas /\ Others \subseteq Semas /\ Others \cap Threads = {}
  BY ClockAssumption DEF IInv, TypeOK, ClockTypeOK, Others
<1>1. CASE /\ UNCHANGED <<on, asks>>
           /\ \A t \in Threads : st[t] = "out" => st'[t] = "out"
  BY <1>1
<1>2. CASE ClockTick \/ NestedTick \/ ClockDone \/ Switches \/ \E t \in Threads : Schedules(t)
  <2>1. UNCHANGED <<on, asks, st>>
    BY <1>2 DEF ClockTick, NestedTick, ClockDone, Switches, Schedules, semaVars, vars, entryVars
  <2> QED  BY <1>1, <2>1
<1>3. ASSUME NEW s \in Semas, Give(s), UNCHANGED asks
      PROVE  OwnEntries'
  <2>1. UNCHANGED on
    BY <1>3 DEF Give
  <2>2. CASE sem[s].q = << >>
    BY <1>1, <1>3, <2>1, <2>2 DEF Give
  <2>3. CASE sem[s].q # << >>
    <3>1. PICK h \in Threads : st[h] = "asleep" /\ st' = [st EXCEPT ![h] = "woken"]
      BY <1>3, <2>3, GiveWakes
    <3> QED  BY <1>0, <1>1, <1>3, <2>1, <3>1
  <2> QED  BY <2>2, <2>3
<1>4. CASE AlarmTurn
  <2>1. eventq[Min(Hits)] \in Semas /\ Give(eventq[Min(Hits)]) /\ UNCHANGED asks
    BY <1>0, <1>4, HitIs DEF AlarmTurn
  <2> QED  BY <1>3, <2>1
<1>5. ASSUME NEW s \in Others, Unlock(s)
      PROVE  OwnEntries'
  BY <1>0, <1>3, <1>5 DEF Unlock, entryVars
<1>6. ASSUME NEW t \in Threads, NEW d, NEW c \in BOOLEAN, TimedSleep(t, d, c)
      PROVE  OwnEntries'
  <2>1. /\ asks' = [asks EXCEPT ![t] = TRUE] /\ on' = [on EXCEPT ![t] = t]
        /\ st' = [st EXCEPT ![t] = "asleep"]
    BY <1>6 DEF TimedSleep, Wait
  <2> QED  BY <1>0, <2>1
<1>7. ASSUME NEW t \in Threads, WakesUp(t) \/ Signal(t)
      PROVE  OwnEntries'
  <2>1. /\ st[t] # "out" /\ UNCHANGED <<on, asks>>
        /\ st' = [st EXCEPT ![t] = "out"] \/ st' = [st EXCEPT ![t] = "woken"]
    BY <1>7 DEF WakesUp, Signal, Return, Interrupt, entryVars
  <2> QED  BY <1>0, <2>1
<1>8. ASSUME NEW t \in Threads, SleepEnds(t)
      PROVE  OwnEntries'
  <2>1. st[t] = "out" /\ asks' = [asks EXCEPT ![t] = FALSE] /\ UNCHANGED <<st, on>>
    BY <1>8 DEF SleepEnds, FreeEntry
  <2> QED  BY <1>0, <2>1
<1>9. ASSUME NEW t \in Threads, NEW s \in Others, Lock(t, s)
      PROVE  OwnEntries'
  <2>1. ~asks[t] /\ UNCHANGED asks
    BY <1>9 DEF Lock, Calls, entryVars
  <2>2. CASE Take(t, s)
    BY <1>1, <2>1, <2>2 DEF Take
  <2>3. CASE \E c \in BOOLEAN : Wait(t, s, c)
    <3>1. st' = [st EXCEPT ![t] = "asleep"] /\ on' = [on EXCEPT ![t] = s]
      BY <2>3 DEF Wait
    <3> QED  BY <1>0, <2>1, <3>1
  <2> QED  BY <1>9, <2>2, <2>3 DEF Lock
<1> QED  BY <1>2, <1>4, <1>5, <1>6, <1>7, <1>8, <1>9, Zenon DEF ClockNext

-----------------------------------------------------------------------------
(* The list of alarms.                                                     *)

\* A newcomer stands in the list once, and so do all others.
LEMMA InsertQueue ==
  ASSUME NEW T, NEW q \in Seq(T), NEW k \in 1..(Len(q) + 1), NEW t \in T,
         IsInjective(q), ~Contains(q, t)
  PROVE  /\ InsertAt(q, k, t) \in Seq(T)
         /\ IsInjective(InsertAt(q, k, t))
         /\ \A u \in T : Contains(InsertAt(q, k, t), u) <=> Contains(q, u) \/ u = t
<1>1. PICK n \in Nat : n = Len(q) /\ k \in 1..(n + 1)
  OBVIOUS
<1>2. PICK p : p = InsertAt(q, k, t)
  OBVIOUS
<1>3. p \in Seq(T) /\ Entered(p, q, k, t)
  BY <1>2, InsertAtIs, Zenon
<1>4. /\ Len(p) = n + 1
      /\ \A i \in 1..(n + 1) : p[i] = IF i < k THEN q[i] ELSE IF i = k THEN t ELSE q[i - 1]
  BY <1>1, <1>3 DEF Entered
<1>5. /\ \A i, j \in 1..n : q[i] = q[j] => i = j
      /\ \A i \in 1..n : q[i] # t
  BY <1>1 DEF IsInjective, Contains
<1>6. \A i \in 1..(n + 1) : i = k \/ \E a \in 1..n : /\ a = (IF i < k THEN i ELSE i - 1)
                                                     /\ p[i] = q[a]
  BY <1>1, <1>4
<1>7. p[k] = t
  BY <1>1, <1>4
<1>8. IsInjective(p)
  <2>1. DOMAIN p = 1..(n + 1)
    BY <1>3, <1>4
  <2> SUFFICES ASSUME NEW i \in 1..(n + 1), NEW j \in 1..(n + 1), p[i] = p[j]
               PROVE  i = j
    BY <2>1 DEF IsInjective
  <2>2. CASE i = k \/ j = k
    BY <1>5, <1>6, <1>7, <2>2
  <2>3. CASE i # k /\ j # k
    <3>1. PICK a \in 1..n : a = (IF i < k THEN i ELSE i - 1) /\ p[i] = q[a]
      BY <1>6, <2>3
    <3>2. PICK b \in 1..n : b = (IF j < k THEN j ELSE j - 1) /\ p[j] = q[b]
      BY <1>6, <2>3
    <3>3. a = b
      BY <1>5, <3>1, <3>2
    <3> QED  BY <1>1, <2>3, <3>1, <3>2, <3>3
  <2> QED  BY <2>2, <2>3
<1>9. ASSUME NEW u \in T
      PROVE  Contains(p, u) <=> Contains(q, u) \/ u = t
  <2>1. ASSUME Contains(p, u), u # t
        PROVE  Contains(q, u)
    <3>1. PICK i \in 1..(n + 1) : p[i] = u
      BY <1>4, <2>1 DEF Contains
    <3>2. PICK a \in 1..n : p[i] = q[a]
      BY <1>6, <1>7, <2>1, <3>1
    <3> QED  BY <1>1, <3>1, <3>2 DEF Contains
  <2>2. ASSUME Contains(q, u)
        PROVE  Contains(p, u)
    <3>1. PICK a \in 1..n : q[a] = u
      BY <1>1, <2>2 DEF Contains
    <3>2. CASE a < k
      <4>1. a \in 1..(n + 1) /\ p[a] = u
        BY <1>1, <1>4, <3>1, <3>2
      <4> QED  BY <1>4, <4>1 DEF Contains
    <3>3. CASE a >= k
      <4>1. a + 1 \in 1..(n + 1) /\ p[a + 1] = u
        BY <1>1, <1>4, <3>1, <3>3
      <4> QED  BY <1>4, <4>1 DEF Contains
    <3> QED  BY <1>1, <3>2, <3>3
  <2>3. Contains(p, t)
    BY <1>1, <1>4, <1>7 DEF Contains
  <2> QED  BY <2>1, <2>2, <2>3
<1> QED  BY <1>2, <1>3, <1>8, <1>9

\* The seconds that the alarms are set to.
Alarms == [u \in Threads |-> Second(left[u])]

LEMMA AlarmsType == ClockTypeOK => Alarms \in [Threads -> Int]
<1> SUFFICES ASSUME ClockTypeOK, NEW u \in Threads
             PROVE  Second(left[u]) \in Int
  BY DEF Alarms
<1>1. phase + left[u] \in Int /\ Hz \in Nat \ {0}
  BY ClockAssumption DEF ClockTypeOK
<1> QED  BY <1>1, DivRest DEF Second

LEMMA SortedIs == ClockTypeOK => (ListSorted <=> InOrder(eventq, Alarms))
<1> SUFFICES ASSUME ClockTypeOK
             PROVE  ListSorted <=> InOrder(eventq, Alarms)
  OBVIOUS
<1>1. \A i \in 1..Len(eventq) : eventq[i] \in Threads
  BY DEF ClockTypeOK
<1>2. \A i \in 1..Len(eventq) : Alarms[eventq[i]] = Second(left[eventq[i]])
  BY <1>1 DEF Alarms
<1> QED  BY <1>2, Zenon DEF ListSorted, InOrder

\* What holds of the list between any two steps.
ListOK == ClockTypeOK /\ ListHoldsEntries /\ ListSorted /\ WokenByAlarm

\* Seconds go by for all on the list alike.
LEMMA TickKeepsList ==
  ASSUME ListOK, ClockTick
  PROVE  ListOK'
<1>0. /\ ClockTypeOK /\ ListHoldsEntries /\ ListSorted /\ WokenByAlarm
      /\ Hz \in Nat \ {0}
  BY ClockAssumption DEF ListOK
<1>1. /\ phase' = (phase + pend + 1) % Hz
      /\ left' = [t \in Threads |-> IF onlist[t] THEN left[t] - pend - 1 ELSE left[t]]
      /\ UNCHANGED <<eventq, onlist, asks, st, intr>>
  BY DEF ClockTick, semaVars, vars
<1>2. PICK m \in Int : m = phase + pend + 1
  BY <1>0 DEF ClockTypeOK
<1>3. PICK c \in Int : m = Hz * c + phase' /\ phase' \in 0..(Hz - 1)
  BY <1>0, <1>1, <1>2, DivRest
<1>4. ClockTypeOK'
  <2>1. left' \in [Threads -> Int]
    BY <1>0, <1>1 DEF ClockTypeOK
  <2>2. pend' = 0 /\ clk' = "on"
    BY DEF ClockTick
  <2> QED  BY <1>0, <1>1, <1>3, <2>1, <2>2 DEF ClockTypeOK
<1>5. ListHoldsEntries'
  BY <1>0, <1>1 DEF ListHoldsEntries
<1>6. WokenByAlarm'
  BY <1>0, <1>1 DEF WokenByAlarm
<1>7. ASSUME NEW u \in Threads, onlist[u]
      PROVE  Alarms'[u] = Alarms[u] - c
  <2>1. PICK d \in Int : d = left[u]
    BY <1>0 DEF ClockTypeOK
  <2>2. left'[u] = d - pend - 1
    BY <1>1, <1>7, <2>1
  <2>3. PICK x \in Int : x = phase + d
    BY <1>0, <2>1 DEF ClockTypeOK
  <2>4. Hz * c \in Int
    BY <1>0
  <2>5. phase' + left'[u] = x - Hz * c
    <3>1. PICK p \in Int, n \in Int, p2 \in Int, l2 \in Int, y \in Int :
            p = phase /\ n = pend /\ p2 = phase' /\ l2 = left'[u] /\ y = Hz * c
      <4>1. phase \in Int /\ pend \in Int
        BY <1>0 DEF ClockTypeOK
      <4> QED  BY <1>3, <2>2, <2>4, <4>1
    <3>2. m = p + n + 1 /\ m = y + p2 /\ l2 = d - n - 1 /\ x = p + d
      BY <1>2, <1>3, <2>2, <2>3, <3>1, Zenon
    <3>3. p2 + l2 = x - y
      BY <3>2
    <3> QED  BY <3>1, <3>3, Zenon
  <2>6. (x - Hz * c) \div Hz = (x \div Hz) - c
    BY <1>0, DivShift
  <2>7. Alarms[u] = x \div Hz
    BY <2>1, <2>3 DEF Alarms, Second
  <2>8. Alarms'[u] = (x - Hz * c) \div Hz
    BY <2>5 DEF Alarms, Second
  <2> QED  BY <2>6, <2>7, <2>8
<1>8. ListSorted'
  <2>1. PICK f, g : f = Alarms /\ g = Alarms'
    OBVIOUS
  <2>2. f \in [Threads -> Int]
    BY <1>0, <2>1, AlarmsType
  <2>3. g \in [Threads -> Int]
    <3>1. (ClockTypeOK => Alarms \in [Threads -> Int])'
      BY AlarmsType, PTL
    <3> QED  BY <1>4, <2>1, <3>1
  <2>4. eventq \in Seq(Threads) /\ \A i \in 1..Len(eventq) : eventq[i] \in Threads
    BY <1>0 DEF ClockTypeOK
  <2>5. \A i \in 1..Len(eventq) : onlist[eventq[i]]
    BY <1>0, <2>4 DEF ListHoldsEntries, Contains
  <2>6. \A i \in 1..Len(eventq) : g[eventq[i]] = f[eventq[i]] - c
    BY <1>7, <2>1, <2>4, <2>5
  <2>7. InOrder(eventq, f)
    BY <1>0, <2>1, SortedIs
  <2>8. InOrder(eventq, g)
    BY <1>3, <2>2, <2>3, <2>4, <2>6, <2>7, OrderShifts
  <2>9. (ClockTypeOK => (ListSorted <=> InOrder(eventq, Alarms)))'
    BY SortedIs, PTL
  <2>10. InOrder(eventq, Alarms)' <=> InOrder(eventq, g)
    BY <1>1, <2>1 DEF InOrder
  <2> QED  BY <1>4, <2>8, <2>9, <2>10
<1> QED  BY <1>4, <1>5, <1>6, <1>8 DEF ListOK

\* timed_sleep() finds the place where the order stays.
LEMMA PlaceIs ==
  ASSUME ClockTypeOK, ListSorted, NEW d \in Int
  PROVE  /\ Place(d) \in 1..(Len(eventq) + 1)
         /\ \A i \in 1..Len(eventq) :
              IF i < Place(d) THEN Second(left[eventq[i]]) <= Second(d)
                              ELSE Second(d) <= Second(left[eventq[i]])
<1>1. PICK n \in Nat : n = Len(eventq)
  BY DEF ClockTypeOK
<1>2. Second(d) \in Int /\ \A i \in 1..n : Second(left[eventq[i]]) \in Int
  <2>1. Hz \in Nat \ {0} /\ phase \in Int /\ \A i \in 1..n : left[eventq[i]] \in Int
    BY <1>1, ClockAssumption DEF ClockTypeOK
  <2>2. \A x \in Int : Second(x) \in Int
    <3>1. \A x \in Int : phase + x \in Int
      BY <2>1
    <3> QED  BY <2>1, <3>1, DivRest DEF Second
  <2> QED  BY <2>1, <2>2, Zenon
<1>3. PICK later : later = {i \in 1..n : Second(d) <= Second(left[eventq[i]])}
  OBVIOUS
<1>4. Place(d) = IF later = {} THEN n + 1 ELSE Min(later)
  BY <1>1, <1>3 DEF Place
<1>5. CASE later = {}
  <2>1. Place(d) = n + 1 /\ \A i \in 1..n : i < n + 1 /\ ~(Second(d) <= Second(left[eventq[i]]))
    BY <1>3, <1>4, <1>5
  <2> QED  BY <1>1, <1>2, <2>1
<1>6. CASE later # {}
  <2>1. PICK k : k = Min(later) /\ k \in later /\ \A i \in later : k <= i
    <3>1. later \in SUBSET Nat
      BY <1>3
    <3> QED  BY <1>6, <3>1, MinIs, Zenon
  <2>2. Place(d) = k /\ k \in 1..n /\ Second(d) <= Second(left[eventq[k]])
    BY <1>3, <1>4, <1>6, <2>1
  <2>3. ASSUME NEW i \in 1..n, i < k
        PROVE  Second(left[eventq[i]]) <= Second(d)
    <3>1. i \notin later
      BY <2>1, <2>2, <2>3
    <3> QED  BY <1>2, <1>3, <3>1
  <2>4. ASSUME NEW i \in 1..n, ~(i < k)
        PROVE  Second(d) <= Second(left[eventq[i]])
    <3>1. i = k \/ Second(left[eventq[k]]) <= Second(left[eventq[i]])
      BY <1>1, <2>2, <2>4 DEF ListSorted
    <3> QED  BY <1>2, <2>2, <3>1
  <2> QED  BY <1>1, <2>2, <2>3, <2>4
<1> QED  BY <1>5, <1>6

\* A sleeper enters the list with an entry that was not on it.
LEMMA SleepKeepsList ==
  ASSUME ListOK, IInv, NEW t \in Threads, NEW d \in Int, NEW c \in BOOLEAN, TimedSleep(t, d, c)
  PROVE  ListOK'
<1>0. ClockTypeOK /\ ListHoldsEntries /\ ListSorted /\ WokenByAlarm
  BY DEF ListOK
<1>1. PICK k : k = Place(d)
  OBVIOUS
<1>2. PICK q : q = eventq
  OBVIOUS
<1>3. /\ eventq' = InsertAt(q, k, t)
      /\ left' = [left EXCEPT ![t] = d]
      /\ onlist' = [onlist EXCEPT ![t] = TRUE]
      /\ asks' = [asks EXCEPT ![t] = TRUE]
      /\ st' = [st EXCEPT ![t] = "asleep"]
      /\ intr' = [intr EXCEPT ![t] = FALSE]
      /\ UNCHANGED timeVars /\ ~asks[t]
  BY <1>1, <1>2 DEF TimedSleep, Wait, Calls
<1>4. /\ q \in Seq(Threads) /\ k \in 1..(Len(q) + 1)
      /\ \A i \in 1..Len(q) : q[i] \in Threads
  BY <1>0, <1>1, <1>2, PlaceIs DEF ClockTypeOK
<1>5. ~Contains(q, t) /\ IsInjective(q)
  BY <1>0, <1>2, <1>3 DEF ListHoldsEntries
<1>6. /\ eventq' \in Seq(Threads) /\ IsInjective(eventq')
      /\ \A u \in Threads : Contains(eventq', u) <=> Contains(q, u) \/ u = t
  BY <1>3, <1>4, <1>5, InsertQueue, Zenon
<1>7. ClockTypeOK'
  BY <1>0, <1>3, <1>6 DEF ClockTypeOK, timeVars
<1>8. ListHoldsEntries'
  <2>1. ASSUME NEW u \in Threads
        PROVE  (onlist'[u] <=> Contains(eventq', u)) /\ (onlist'[u] => asks'[u])
    BY <1>0, <1>2, <1>3, <1>6 DEF ListHoldsEntries, ClockTypeOK
  <2> QED  BY <1>6, <2>1 DEF ListHoldsEntries
<1>9. WokenByAlarm'
  <2>1. st'[t] = "asleep" /\ \A u \in Threads \ {t} :
          /\ st'[u] = st[u] /\ intr'[u] = intr[u] /\ asks'[u] = asks[u]
          /\ left'[u] = left[u] /\ onlist'[u] = onlist[u]
    BY <1>0, <1>3 DEF ClockTypeOK, IInv, TypeOK
  <2> QED  BY <1>0, <2>1 DEF WokenByAlarm
<1>10. ListSorted'
  <2>1. PICK f, g : f = Alarms /\ g = Alarms'
    OBVIOUS
  <2>2. f \in [Threads -> Int]
    BY <1>0, <2>1, AlarmsType
  <2>3. g \in [Threads -> Int]
    <3>1. (ClockTypeOK => Alarms \in [Threads -> Int])'
      BY AlarmsType, PTL
    <3> QED  BY <1>7, <2>1, <3>1
  <2>4. \A u \in Threads \ {t} : g[u] = f[u]
    BY <1>0, <1>3, <2>1 DEF Alarms, Second, timeVars, ClockTypeOK
  <2>5. g[t] = Second(d)
    BY <1>0, <1>3, <2>1 DEF Alarms, Second, timeVars, ClockTypeOK
  <2>6. \A i \in 1..Len(q) : q[i] # t /\ q[i] \in Threads
    BY <1>4, <1>5 DEF Contains
  <2>7. \A i \in 1..Len(q) : g[q[i]] = f[q[i]] /\ f[q[i]] = Second(left[q[i]])
    BY <2>1, <2>4, <2>6 DEF Alarms
  <2>8. InOrder(q, g)
    <3>1. InOrder(q, f)
      BY <1>0, <1>2, <2>1, SortedIs
    <3> QED  BY <2>7, <3>1, Zenon DEF InOrder
  <2>9. \A i \in 1..Len(q) : IF i < k THEN g[q[i]] <= g[t] ELSE g[t] <= g[q[i]]
    <3>1. \A i \in 1..Len(q) : IF i < k THEN Second(left[q[i]]) <= Second(d)
                                       ELSE Second(d) <= Second(left[q[i]])
      BY <1>0, <1>1, <1>2, PlaceIs, Zenon
    <3> QED  BY <2>5, <2>7, <3>1, Zenon
  <2>10. InOrder(InsertAt(q, k, t), g)
    BY <1>4, <2>3, <2>8, <2>9, OrderWith, Zenon
  <2>11. (ClockTypeOK => (ListSorted <=> InOrder(eventq, Alarms)))'
    BY SortedIs, PTL
  <2>12. InOrder(eventq, Alarms)' <=> InOrder(InsertAt(q, k, t), g)
    BY <1>3, <2>1, Zenon DEF InOrder
  <2> QED  BY <1>7, <2>10, <2>11, <2>12
<1> QED  BY <1>7, <1>8, <1>9, <1>10 DEF ListOK

\* Somebody leaves the list at the k-th place.
LEMMA LeaveList ==
  ASSUME ListOK, NEW k \in 1..Len(eventq), NEW t \in Threads, t = eventq[k],
         eventq' = RemoveAt(eventq, k),
         onlist' = [onlist EXCEPT ![t] = FALSE],
         \A u \in Threads \ {t} : left'[u] = left[u] /\ asks'[u] = asks[u],
         UNCHANGED phase, ClockTypeOK'
  PROVE  ListHoldsEntries' /\ ListSorted'
<1>0. ClockTypeOK /\ ListHoldsEntries /\ ListSorted
  BY DEF ListOK
<1>1. PICK q : q = eventq
  OBVIOUS
<1>2. q \in Seq(Threads) /\ k \in 1..Len(q) /\ IsInjective(q) /\ q[k] = t
  BY <1>0, <1>1 DEF ClockTypeOK, ListHoldsEntries
<1>3. PICK p : p = RemoveAt(q, k)
  OBVIOUS
<1>4. /\ p \in Seq(Threads) /\ IsInjective(p)
      /\ \A u \in Threads : Contains(p, u) <=> Contains(q, u) /\ u # q[k]
  <2>1. ASSUME NEW r, r = RemoveAt(q, k)
        PROVE  /\ r \in Seq(Threads) /\ IsInjective(r)
               /\ \A u \in Threads : Contains(r, u) <=> Contains(q, u) /\ u # q[k]
    BY <1>2, <2>1, RemoveQueue, SMTT(40)
  <2> QED  BY <1>3, <2>1, Zenon
<1>5. eventq' = p
  BY <1>1, <1>3
<1>6. ListHoldsEntries'
  <2>1. ASSUME NEW u \in Threads
        PROVE  (onlist'[u] <=> Contains(p, u)) /\ (onlist'[u] => asks'[u])
    BY <1>0, <1>1, <1>2, <1>4 DEF ListHoldsEntries, ClockTypeOK
  <2> QED  BY <1>4, <1>5, <2>1 DEF ListHoldsEntries
<1>7. ListSorted'
  <2>1. PICK f, g : f = Alarms /\ g = Alarms'
    OBVIOUS
  <2>2. f \in [Threads -> Int]
    BY <1>0, <2>1, AlarmsType
  <2>3. \A u \in Threads \ {t} : g[u] = f[u]
    BY <2>1 DEF Alarms, Second
  <2>4. \A i \in 1..Len(p) : p[i] \in Threads \ {t}
    BY <1>2, <1>4 DEF Contains
  <2>5. InOrder(q, f)
    BY <1>0, <1>1, <2>1, SortedIs
  <2>6. InOrder(RemoveAt(q, k), f)
    BY <1>2, <2>2, <2>5, OrderWithout, Zenon
  <2>7. InOrder(p, f)
    BY <1>3, <2>6
  <2>8. InOrder(p, g)
    <3>1. \A i \in 1..Len(p) : g[p[i]] = f[p[i]]
      BY <2>3, <2>4
    <3> QED  BY <2>7, <3>1, Zenon DEF InOrder
  <2>9. (ClockTypeOK => (ListSorted <=> InOrder(eventq, Alarms)))'
    BY SortedIs, PTL
  <2>10. InOrder(eventq, Alarms)' <=> InOrder(p, g)
    BY <1>5, <2>1, Zenon DEF InOrder
  <2> QED  BY <2>8, <2>9, <2>10
<1> QED  BY <1>6, <1>7

\* alarm_wakeup() takes off the list what is due, and wakes its owner only.
LEMMA AlarmKeepsList ==
  ASSUME ListOK, IInv, OwnEntries, AlarmTurn
  PROVE  ListOK'
<1>0. /\ ClockTypeOK /\ ListHoldsEntries /\ ListSorted /\ WokenByAlarm
      /\ Threads \subseteq Semas
  BY ClockAssumption DEF ListOK
<1>1. PICK k \in 1..Len(eventq), t \in Threads :
        k = Min(Hits) /\ t = eventq[k] /\ left[t] <= 0
  BY <1>0, HitIs DEF AlarmTurn
<1>2. /\ eventq' = RemoveAt(eventq, k)
      /\ onlist' = [onlist EXCEPT ![t] = FALSE]
      /\ Give(t)
      /\ clk' = "alarm" /\ UNCHANGED <<phase, pend, left, asks>>
  BY <1>1 DEF AlarmTurn
<1>3. eventq' \in Seq(Threads)
  BY <1>0, <1>2, RemoveAtIs DEF ClockTypeOK
<1>4. ClockTypeOK'
  BY <1>0, <1>2, <1>3 DEF ClockTypeOK
<1>5. ListHoldsEntries' /\ ListSorted'
  BY <1>1, <1>2, <1>4, LeaveList
<1>6. \A u \in Threads \ {t} : asks[u] => st'[u] = st[u]
  <2>1. CASE sem[t].q = << >>
    BY <1>2, <2>1 DEF Give
  <2>2. CASE sem[t].q # << >>
    <3>1. PICK h \in Threads : on[h] = t /\ st[h] = "asleep" /\ st' = [st EXCEPT ![h] = "woken"]
      BY <1>0, <1>2, <2>2, GiveWakes
    <3>2. h = t
      BY <3>1 DEF OwnEntries
    <3> QED  BY <3>1, <3>2 DEF IInv, TypeOK
  <2> QED  BY <2>1, <2>2
<1>7. WokenByAlarm'
  <2>1. intr' = intr
    BY <1>2 DEF Give
  <2>2. ~onlist'[t] /\ left'[t] <= 0
    BY <1>0, <1>1, <1>2 DEF ClockTypeOK
  <2>3. \A u \in Threads \ {t} : onlist'[u] = onlist[u]
    BY <1>0, <1>2 DEF ClockTypeOK
  <2> QED  BY <1>0, <1>2, <1>6, <2>1, <2>2, <2>3 DEF WokenByAlarm
<1> QED  BY <1>4, <1>5, <1>7 DEF ListOK

\* An entry that is freed is off the list: the alarm has taken it off, or its
\* owner does, who has been interrupted.
LEMMA FreeKeepsList ==
  ASSUME ListOK, IInv, NEW t \in Threads, SleepEnds(t)
  PROVE  ListOK'
<1>0. ClockTypeOK /\ ListHoldsEntries /\ ListSorted /\ WokenByAlarm
  BY DEF ListOK
<1>1. /\ asks[t] /\ st[t] = "out"
      /\ asks' = [asks EXCEPT ![t] = FALSE]
      /\ onlist' = [onlist EXCEPT ![t] = FALSE]
      /\ left' = [left EXCEPT ![t] = 0]
      /\ UNCHANGED <<st, intr, phase, pend, clk>>
  BY DEF SleepEnds, FreeEntry, timeVars
<1>2. WokenByAlarm'
  <2>1. ~asks'[t] /\ \A u \in Threads \ {t} :
          asks'[u] = asks[u] /\ left'[u] = left[u] /\ onlist'[u] = onlist[u]
    BY <1>0, <1>1 DEF ClockTypeOK
  <2> QED  BY <1>0, <1>1, <2>1 DEF WokenByAlarm
<1>3. CASE onlist[t]
  <2>1. eventq' = RemoveFirst(eventq, t)
    BY <1>0, <1>1, <1>3 DEF SleepEnds, WokenByAlarm
  <2>2. PICK k \in 1..Len(eventq) : eventq[k] = t /\ eventq' = RemoveAt(eventq, k)
    <3>1. eventq \in Seq(Threads) /\ IsInjective(eventq) /\ Contains(eventq, t)
      BY <1>0, <1>3 DEF ClockTypeOK, ListHoldsEntries
    <3> QED  BY <2>1, <3>1, RemoveFirstIs
  <2>3. eventq' \in Seq(Threads)
    BY <1>0, <2>2, RemoveAtIs DEF ClockTypeOK
  <2>4. ClockTypeOK'
    BY <1>0, <1>1, <2>3 DEF ClockTypeOK
  <2>5. \A u \in Threads \ {t} : left'[u] = left[u] /\ asks'[u] = asks[u]
    BY <1>0, <1>1 DEF ClockTypeOK
  <2>6. ListHoldsEntries' /\ ListSorted'
    BY <1>1, <2>2, <2>4, <2>5, LeaveList
  <2> QED  BY <1>2, <2>4, <2>6 DEF ListOK
<1>4. CASE ~onlist[t]
  <2>1. UNCHANGED <<eventq, onlist>>
    BY <1>0, <1>1, <1>4 DEF SleepEnds, ClockTypeOK
  <2>2. ClockTypeOK'
    BY <1>0, <1>1, <2>1 DEF ClockTypeOK
  <2>3. ListHoldsEntries'
    BY <1>0, <1>1, <1>4, <2>1 DEF ListHoldsEntries, ClockTypeOK
  <2>4. \A i \in 1..Len(eventq) : eventq[i] \in Threads \ {t}
    BY <1>0, <1>4 DEF ListHoldsEntries, Contains, ClockTypeOK
  <2>5. \A i \in 1..Len(eventq) : left'[eventq[i]] = left[eventq[i]]
    BY <1>0, <1>1, <2>4 DEF ClockTypeOK
  <2>6. ListSorted'
    BY <1>0, <1>1, <2>1, <2>5 DEF ListSorted, Second
  <2> QED  BY <1>2, <2>2, <2>3, <2>6 DEF ListOK
<1> QED  BY <1>3, <1>4

\* No step of the whole disturbs the list.
LEMMA ListStep ==
  ASSUME ListOK, IInv, OwnEntries, ClockNext
  PROVE  ListOK'
<1>0. /\ ClockTypeOK /\ ListHoldsEntries /\ ListSorted /\ WokenByAlarm
      /\ st \in [Threads -> {"out", "asleep", "woken"}]
      /\ intr \in [Threads -> BOOLEAN]
      /\ Others \subseteq Semas /\ Others \cap Threads = {}
  BY DEF ListOK, IInv, TypeOK, Others
<1>1. ASSUME UNCHANGED <<phase, entryVars>>, pend' \in Nat, clk' \in {"off", "on", "alarm"},
             \A u \in Threads : asks[u] /\ st'[u] # "asleep" /\ ~intr'[u] =>
                                  st[u] # "asleep" /\ ~intr[u]
      PROVE  ListOK'
  <2>1. UNCHANGED <<phase, eventq, left, onlist, asks>>
    BY <1>1 DEF entryVars
  <2>2. ClockTypeOK'
    BY <1>0, <1>1, <2>1 DEF ClockTypeOK
  <2>3. ListHoldsEntries' /\ ListSorted'
    BY <1>0, <2>1 DEF ListHoldsEntries, ListSorted, Second
  <2>4. WokenByAlarm'
    BY <1>0, <1>1, <2>1 DEF WokenByAlarm
  <2> QED  BY <2>2, <2>3, <2>4 DEF ListOK
<1>2. CASE ClockTick \/ AlarmTurn
  BY <1>2, TickKeepsList, AlarmKeepsList
<1>3. CASE NestedTick \/ ClockDone \/ Switches \/ \E t \in Threads : Schedules(t)
  <2>1. UNCHANGED <<phase, entryVars, st, intr>> /\ pend' \in Nat /\ clk' \in {"off", "on", "alarm"}
    BY <1>0, <1>3 DEF NestedTick, ClockDone, Switches, Schedules, semaVars, vars, timeVars, ClockTypeOK
  <2> QED  BY <1>1, <2>1
<1>4. ASSUME NEW s \in Others, Unlock(s)
      PROVE  ListOK'
  <2>1. /\ s \in Semas /\ Give(s) /\ UNCHANGED <<phase, entryVars, intr>>
        /\ pend' \in Nat /\ clk' \in {"off", "on", "alarm"}
    BY <1>0, <1>4 DEF Unlock, Give, timeVars, ClockTypeOK
  <2>2. CASE sem[s].q = << >>
    <3>1. UNCHANGED st
      BY <2>1, <2>2 DEF Give
    <3> QED  BY <1>1, <2>1, <3>1
  <2>3. CASE sem[s].q # << >>
    <3>1. PICK h \in Threads : on[h] = s /\ st' = [st EXCEPT ![h] = "woken"]
      BY <2>1, <2>3, GiveWakes
    <3>2. ~asks[h] /\ \A u \in Threads \ {h} : st'[u] = st[u]
      BY <1>0, <1>4, <3>1 DEF OwnEntries
    <3> QED  BY <1>1, <2>1, <3>2
  <2> QED  BY <2>2, <2>3
<1>5. ASSUME NEW t \in Threads, NEW d \in Int, NEW c \in BOOLEAN, TimedSleep(t, d, c)
      PROVE  ListOK'
  BY <1>5, SleepKeepsList
<1>6. ASSUME NEW t \in Threads, WakesUp(t)
      PROVE  ListOK'
  <2>1. /\ st[t] = "woken" /\ st' = [st EXCEPT ![t] = "out"]
        /\ UNCHANGED <<phase, entryVars, intr>>
        /\ pend' \in Nat /\ clk' \in {"off", "on", "alarm"}
    BY <1>0, <1>6 DEF WakesUp, Return, timeVars, ClockTypeOK
  <2>2. \A u \in Threads : st'[u] # "asleep" => st[u] # "asleep"
    BY <1>0, <2>1
  <2> QED  BY <1>1, <2>1, <2>2
<1>7. ASSUME NEW t \in Threads, Signal(t)
      PROVE  ListOK'
  <2>1. /\ st' = [st EXCEPT ![t] = "woken"] /\ intr' = [intr EXCEPT ![t] = TRUE]
        /\ UNCHANGED <<phase, entryVars>>
        /\ pend' \in Nat /\ clk' \in {"off", "on", "alarm"}
    BY <1>0, <1>7 DEF Signal, Interrupt, timeVars, ClockTypeOK
  <2>2. intr'[t] /\ \A u \in Threads \ {t} : st'[u] = st[u] /\ intr'[u] = intr[u]
    BY <1>0, <2>1
  <2> QED  BY <1>1, <2>1, <2>2
<1>8. ASSUME NEW t \in Threads, SleepEnds(t)
      PROVE  ListOK'
  BY <1>8, FreeKeepsList
<1>9. ASSUME NEW t \in Threads, NEW s \in Others, Lock(t, s)
      PROVE  ListOK'
  <2>1. /\ ~asks[t] /\ UNCHANGED <<phase, entryVars>>
        /\ pend' \in Nat /\ clk' \in {"off", "on", "alarm"}
    BY <1>0, <1>9 DEF Lock, Calls, timeVars, ClockTypeOK
  <2>2. \A u \in Threads \ {t} : st'[u] = st[u] /\ intr'[u] = intr[u]
    BY <1>0, <1>9 DEF Lock, Take, Wait
  <2> QED  BY <1>1, <2>1, <2>2
<1>10. (-MaxPast)..MaxAhead \subseteq Int
  OBVIOUS
<1> QED  BY <1>2, <1>3, <1>4, <1>5, <1>6, <1>7, <1>8, <1>9, <1>10, Zenon DEF ClockNext

-----------------------------------------------------------------------------
(* The semaphores and the scheduler agree on who sleeps.                   *)

\* Nobody who sleeps gets the processor.
LEMMA SwitchSleepers ==
  ASSUME SInv, SchedStep, NEW u \in Threads
  PROVE  tstate'[u] = "SLEEP" <=> tstate[u] = "SLEEP"
<1>0. tstate \in [Threads -> {"none", "NEW", "SLEEP", "RUN", "ONPROC"}]
  BY DEF SInv, SchedTypeOK
<1>1. ASSUME NEW t \in Threads, tstate[t] = "RUN", NEW p, OntoCpu(t, p)
      PROVE  tstate'[u] = "SLEEP" <=> tstate[u] = "SLEEP"
  BY <1>0, <1>1 DEF OntoCpu
<1>2. CASE PickRT
  <2>1. Dequeue(Head(rt))
    BY <1>2, RTDequeues DEF SInv
  <2> QED  BY <1>1, <1>2, <2>1 DEF Dequeue, PickRT
<1>3. CASE PickCheated
  <2>1. Dequeue(Head(cheated))
    BY <1>3, CheatedDequeues DEF SInv
  <2> QED  BY <1>1, <1>3, <2>1 DEF Dequeue, PickCheated
<1>4. CASE PickBG
  <2>1. Dequeue(Head(bg))
    BY <1>4, BGDequeues DEF SInv
  <2> QED  BY <1>1, <1>4, <2>1 DEF Dequeue, PickBG
<1>5. ASSUME NEW t \in Threads, PickTree(t)
      PROVE  tstate'[u] = "SLEEP" <=> tstate[u] = "SLEEP"
  <2>1. Dequeue(t)
    BY <1>5, TreeDequeues DEF SInv
  <2> QED  BY <1>1, <1>5, <2>1 DEF Dequeue, PickTree
<1>6. CASE GoIdle \/ IdleLook \/ IdleHalt
  BY <1>6 DEF GoIdle, IdleLook, IdleHalt
<1> QED  BY <1>2, <1>3, <1>4, <1>5, <1>6 DEF SchedStep

\* Nor does anybody fall asleep or wake up who calls the scheduler.
LEMMA SchedulesSleepers ==
  ASSUME SInv, NEW t \in Threads, Schedules(t), NEW u \in Threads
  PROVE  tstate'[u] = "SLEEP" <=> tstate[u] = "SLEEP"
<1>0. tstate \in [Threads -> {"none", "NEW", "SLEEP", "RUN", "ONPROC"}] /\ OneOnProc
  BY DEF SInv, SchedTypeOK
<1>1. CASE Timeslice(t)
  <2>1. tstate[t] = "ONPROC" /\ tstate' = [tstate EXCEPT ![t] = "RUN"]
    BY <1>0, <1>1 DEF Timeslice, Running, OneOnProc
  <2> QED  BY <1>0, <2>1
<1>2. CASE (\E c \in Classes : SetPrio(t, c)) \/ ExitUnlink(t)
  BY <1>2 DEF SetPrio, ExitUnlink
<1>3. ASSUME NEW new \in Threads, ForkThread(t, new) \/ Fork(t, new)
      PROVE  tstate'[u] = "SLEEP" <=> tstate[u] = "SLEEP"
  <2>1. tstate[new] = "none" /\ tstate' = [tstate EXCEPT ![new] = "NEW"]
    BY <1>3 DEF ForkThread, Fork, Exists
  <2> QED  BY <1>0, <2>1
<1>4. CASE ForkEnds(t)
  <2>1. PICK new \in Threads : tstate[new] = "NEW" /\ tstate' = [tstate EXCEPT ![new] = "RUN"]
    BY <1>4 DEF ForkEnds, SetRun, SInv, SchedTypeOK, NewAreChildren
  <2> QED  BY <1>0, <2>1
<1>5. CASE ExitSwtch(t)
  <2>1. tstate[t] = "ONPROC" /\ tstate' = [tstate EXCEPT ![t] = "none"]
    BY <1>0, <1>5 DEF ExitSwtch, Running, OneOnProc
  <2> QED  BY <1>0, <2>1
<1>6. \/ Timeslice(t) \/ ExitUnlink(t) \/ ForkEnds(t) \/ ExitSwtch(t)
      \/ \E c \in Classes : SetPrio(t, c)
      \/ \E new \in Threads : ForkThread(t, new) \/ Fork(t, new)
  BY Zenon DEF Schedules, Yield, Preempt
<1> QED  BY <1>1, <1>2, <1>3, <1>4, <1>5, <1>6

\* Every step that puts a thread to sleep or wakes one does so in both.
LEMMA SleepersStep ==
  ASSUME IInv, ClockTypeOK, OwnEntries, SInv, SleepersAgree, ClockNext
  PROVE  SleepersAgree'
<1>0. /\ st \in [Threads -> {"out", "asleep", "woken"}]
      /\ tstate \in [Threads -> {"none", "NEW", "SLEEP", "RUN", "ONPROC"}]
      /\ Threads \subseteq Semas /\ Others \subseteq Semas
  BY ClockAssumption DEF IInv, TypeOK, SInv, SchedTypeOK, Others
<1>1. ASSUME NEW t \in Threads, GoToSleep(t), st' = [st EXCEPT ![t] = "asleep"]
      PROVE  SleepersAgree'
  BY <1>0, <1>1 DEF GoToSleep, SleepersAgree
<1>2. ASSUME NEW t \in Threads, Wake(t), st' = [st EXCEPT ![t] = "woken"]
      PROVE  SleepersAgree'
  BY <1>0, <1>2 DEF Wake, SetRun, SleepersAgree
<1>3. ASSUME NEW s \in Semas, NEW h, h = Head(sem[s].q), Give(s),
             IF sem[s].q # << >> THEN Wake(h) ELSE UNCHANGED schedVars
      PROVE  SleepersAgree'
  <2>1. CASE sem[s].q = << >>
    BY <1>3, <2>1 DEF Give, SleepersAgree, schedVars
  <2>2. CASE sem[s].q # << >>
    BY <1>2, <1>3, <2>2, GiveWakes
  <2> QED  BY <2>1, <2>2
<1>4. CASE ClockTick \/ NestedTick \/ ClockDone
  BY <1>4 DEF ClockTick, NestedTick, ClockDone, Tick, semaVars, vars, schedVars, SleepersAgree
<1>5. CASE Switches
  BY <1>5, SwitchSleepers DEF Switches, semaVars, vars, SleepersAgree
<1>6. ASSUME NEW t \in Threads, Schedules(t)
      PROVE  SleepersAgree'
  BY <1>6, SchedulesSleepers DEF Schedules, semaVars, vars, SleepersAgree
<1>7. ASSUME NEW s \in Others, Unlock(s)
      PROVE  SleepersAgree'
  BY <1>0, <1>3, <1>7 DEF Unlock
<1>8. ASSUME NEW t \in Threads, NEW d, NEW c \in BOOLEAN, TimedSleep(t, d, c)
      PROVE  SleepersAgree'
  BY <1>1, <1>8 DEF TimedSleep, Wait
<1>9. ASSUME NEW t \in Threads, WakesUp(t)
      PROVE  SleepersAgree'
  <2>1. /\ st[t] = "woken" /\ st' = [st EXCEPT ![t] = "out"] /\ UNCHANGED tstate
    BY <1>9 DEF WakesUp, Return, schedVars
  <2> QED  BY <1>0, <2>1 DEF SleepersAgree
<1>10. ASSUME NEW t \in Threads, SleepEnds(t)
       PROVE  SleepersAgree'
  BY <1>10 DEF SleepEnds, FreeEntry, schedVars, SleepersAgree
<1>11. ASSUME NEW t \in Threads, Signal(t)
       PROVE  SleepersAgree'
  BY <1>2, <1>11 DEF Signal, Interrupt
<1>12. ASSUME NEW t \in Threads, NEW s \in Others, Lock(t, s)
       PROVE  SleepersAgree'
  <2>1. CASE Take(t, s) /\ UNCHANGED schedVars
    BY <2>1 DEF Take, schedVars, SleepersAgree
  <2>2. CASE \E c \in BOOLEAN : Wait(t, s, c) /\ GoToSleep(t)
    BY <1>1, <2>2 DEF Wait
  <2> QED  BY <1>12, <2>1, <2>2 DEF Lock
<1>13. CASE AlarmTurn
  <2>1. PICK t \in Threads : t = eventq[Min(Hits)]
    BY <1>13, HitIs DEF AlarmTurn
  <2>2. Give(t) /\ IF sem[t].q # << >> THEN Wake(t) ELSE UNCHANGED schedVars
    BY <1>13, <2>1 DEF AlarmTurn
  <2>3. sem[t].q # << >> => t = Head(sem[t].q)
    BY <1>0, <2>2, GiveWakes DEF OwnEntries
  <2>4. sem[t].q # << >> => Wake(Head(sem[t].q))
    BY <2>2, <2>3, Zenon
  <2> QED  BY <1>0, <1>3, <2>2, <2>4
<1> QED  BY <1>4, <1>5, <1>6, <1>7, <1>8, <1>9, <1>10, <1>11, <1>12, <1>13, Zenon DEF ClockNext

-----------------------------------------------------------------------------
(* The invariant, and what it gives.                                       *)

\* The inductive invariant.  NobodyOverslept needs the order of the list; the
\* order needs that nobody fills an entry anew that is on the list, so that
\* whoever frees one must know whether it is; and that he knows because only
\* an event or the alarm, and no other v_sema(), can have ended his sleep.
CInv ==
  /\ IInv /\ UnitsConserved /\ OwnEntries
  /\ ListOK
  /\ SInv /\ SleepersAgree

LEMMA CInvInit == ClockInit => CInv
<1> SUFFICES ASSUME ClockInit
             PROVE  CInv
  OBVIOUS
<1>1. IInv /\ UnitsConserved /\ SInv
  BY IInvInit, UnitsInit, SInvInit DEF ClockInit
<1>2. OwnEntries
  BY DEF ClockInit, Init, OwnEntries
<1>3. ClockTypeOK
  <2>1. Hz \in Nat \ {0}
    BY ClockAssumption
  <2> QED  BY <2>1 DEF ClockInit, ClockTypeOK
<1>4. ListHoldsEntries
  BY DEF ClockInit, ListHoldsEntries, IsInjective, Contains
<1>5. ListSorted /\ WokenByAlarm
  BY DEF ClockInit, ListSorted, WokenByAlarm
<1>6. SleepersAgree
  BY DEF ClockInit, Init, SchedInit, SleepersAgree
<1> QED  BY <1>1, <1>2, <1>3, <1>4, <1>5, <1>6 DEF CInv, ListOK

LEMMA CInvStep == CInv /\ [ClockNext]_clockVars => CInv'
<1> SUFFICES ASSUME CInv, [ClockNext]_clockVars
             PROVE  CInv'
  OBVIOUS
<1>0. ClockTypeOK
  BY DEF CInv, ListOK
<1>1. CASE ClockNext
  <2>1. IInv' /\ UnitsConserved' /\ OwnEntries'
    BY <1>0, <1>1, SemasStep, OwnEntriesStep DEF CInv
  <2>2. ListOK'
    BY <1>1, ListStep DEF CInv
  <2>3. SInv' /\ SleepersAgree'
    BY <1>0, <1>1, StepsOfSched, SInvStep, SleepersStep DEF CInv
  <2> QED  BY <2>1, <2>2, <2>3 DEF CInv
<1>2. CASE UNCHANGED clockVars
  <2>1. UNCHANGED vars /\ UNCHANGED schedVars
        /\ UNCHANGED <<phase, pend, clk, eventq, left, onlist, asks, st, on, intr, tstate>>
    BY <1>2 DEF clockVars, semaVars, vars, schedVars, timeVars, entryVars
  <2>2. IInv' /\ UnitsConserved' /\ SInv'
    BY <2>1, IInvStep, UnitsStep, SInvStep DEF CInv
  <2>3. OwnEntries' /\ SleepersAgree'
    BY <2>1 DEF CInv, OwnEntries, SleepersAgree
  <2>4. ListOK'
    BY <2>1 DEF CInv, ListOK, ClockTypeOK, ListHoldsEntries, ListSorted, Second, WokenByAlarm
  <2> QED  BY <2>2, <2>3, <2>4 DEF CInv
<1> QED  BY <1>1, <1>2

LEMMA ClockInvariant == ClockSpec => []CInv
BY CInvInit, CInvStep, PTL DEF ClockSpec

\* No unit of a semaphore is lost or made up in the race of an event with the
\* alarm, although every timed sleep frees the semaphore it slept on.
THEOREM UnitsUnderClock == ClockSpec => []UnitsConserved
<1>1. CInv => UnitsConserved
  BY DEF CInv
<1> QED  BY <1>1, ClockInvariant, PTL

\* The list of xclock.c holds exactly the entries that say so in e_onlist,
\* each once and none that is freed; it is sorted to the second; and whoever
\* no event has woken was woken by the alarm, when his time had come.
THEOREM ListStaysOK == ClockSpec => []EventqOK
<1>1. CInv => EventqOK
  BY DEF CInv, ListOK, EventqOK
<1> QED  BY <1>1, ClockInvariant, PTL

\* Whoever mutex.c has asleep is TS_SLEEP for sched.c, and nobody else is.
THEOREM SleepersAlwaysAgree == ClockSpec => []SleepersAgree
<1>1. CInv => SleepersAgree
  BY DEF CInv
<1> QED  BY <1>1, ClockInvariant, PTL

\* Sleeping, waking and the clock use the scheduler as it means to be used:
\* what is proved of it on its own holds of it here.
THEOREM SchedulerIsKept == ClockSpec => SchedSpec
<1>1. ClockInit => SchedInit
  BY DEF ClockInit
<1>2. CInv /\ [ClockNext]_clockVars => [SchedNext]_schedVars
  <2> SUFFICES ASSUME CInv, [ClockNext]_clockVars
               PROVE  [SchedNext]_schedVars
    OBVIOUS
  <2>1. CASE ClockNext
    BY <2>1, StepsOfSched DEF CInv, ListOK
  <2>2. CASE UNCHANGED clockVars
    BY <2>2, Zenon DEF clockVars
  <2> QED  BY <2>1, <2>2
<1> QED  BY <1>1, <1>2, ClockInvariant, PTL DEF ClockSpec, SchedSpec

\* If somebody's time has come then alarm_wakeup() finds somebody: all that
\* stand before him are due in his second or earlier.
LEMMA DueIsHit ==
  ASSUME ListOK, NEW i \in 1..Len(eventq), left[eventq[i]] <= 0
  PROVE  i \in Hits
<1>0. /\ ClockTypeOK /\ ListSorted /\ Hz \in Nat \ {0}
      /\ phase \in 0..(Hz - 1)
      /\ \A j \in 1..Len(eventq) : left[eventq[j]] \in Int
  BY ClockAssumption DEF ListOK, ClockTypeOK
<1>1. \A j \in 1..Len(eventq) : Second(left[eventq[j]]) \in Int
  <2>1. \A j \in 1..Len(eventq) : phase + left[eventq[j]] \in Int
    BY <1>0
  <2> QED  BY <1>0, <2>1, DivRest DEF Second
<1>2. PICK a \in Int : a = left[eventq[i]] /\ a <= 0
  BY <1>0
<1>3. phase + a \in Int /\ phase \in Int /\ phase + a <= phase
  BY <1>0, <1>2
<1>4. (phase + a) \div Hz <= phase \div Hz
  BY <1>0, <1>3, DivMono, Zenon
<1>5. phase \div Hz = 0
  <2>1. 0 \in Int /\ phase = Hz * 0 + phase
    BY <1>0
  <2> QED  BY <1>0, <1>3, <2>1, DivIs, Zenon
<1>6. Second(left[eventq[i]]) <= 0
  BY <1>2, <1>4, <1>5, Zenon DEF Second
<1>7. ASSUME NEW j \in 1..i
      PROVE  Second(left[eventq[j]]) <= 0
  <2>1. j \in 1..Len(eventq) /\ (j = i \/ j < i)
    BY <1>0 DEF ClockTypeOK
  <2>2. j = i \/ Second(left[eventq[j]]) <= Second(left[eventq[i]])
    BY <1>0, <2>1 DEF ListSorted
  <2> QED  BY <1>1, <1>6, <2>1, <2>2
<1> QED  BY <1>7 DEF Hits

\* When the interrupt handler returns, nobody whose time had come is left on
\* the list, whatever deadlines the others on it have.
THEOREM NobodyOversleeps == ClockSpec => NobodyOverslept
<1>1. ASSUME CInv, ClockNext, clk # "off", clk' = "off"
      PROVE  \A i \in 1..Len(eventq') : left'[eventq'[i]] > 0
  <2>1. ClockDone
    BY <1>1 DEF ClockNext, ClockTick, NestedTick, AlarmTurn, Switches, Unlock,
                TimedSleep, Calls, WakesUp, SleepEnds, Signal, Lock, Schedules, timeVars
  <2>2. Hits = {} /\ UNCHANGED <<eventq, left>>
    BY <2>1 DEF ClockDone, entryVars
  <2>3. ASSUME NEW i \in 1..Len(eventq)
        PROVE  left[eventq[i]] > 0
    <3>1. ~(left[eventq[i]] <= 0)
      BY <1>1, <2>2, DueIsHit DEF CInv
    <3>2. left[eventq[i]] \in Int
      BY <1>1 DEF CInv, ListOK, ClockTypeOK
    <3> QED  BY <3>1, <3>2
  <2> QED  BY <2>2, <2>3
<1>2. CInv /\ [ClockNext]_clockVars =>
        [clk # "off" /\ clk' = "off" =>
           \A i \in 1..Len(eventq') : left'[eventq'[i]] > 0]_clockVars
  BY <1>1
<1> QED  BY <1>2, ClockInvariant, PTL DEF ClockSpec, NobodyOverslept

=============================================================================
