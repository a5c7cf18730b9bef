------------------------------ MODULE ExitGrp ------------------------------
(***************************************************************************)
(* os/kern/exitgrp.c with its callers in os/kern/proc.c: fork(), do_exit() *)
(* and waits().  A process leads the exit group of its children and is a   *)
(* member of its parent's.  A group outlives its leader as long as it has  *)
(* members.  A child leaves its exit status on the group's list and a unit *)
(* in e_sema; the threads of the parent collect them.                      *)
(*                                                                         *)
(* An action is a region under e_lock or the process mutex, as in Msg.     *)
(***************************************************************************)
EXTENDS SemaOps, FiniteSets

CONSTANTS
  Procs,     \* processes, each of which lives once; also their groups
  Boot,      \* the process that the kernel starts with
  Root,      \* the group without a parent that Boot is put in
  Tids,      \* threads a process may have
  FirstTid,  \* the one it starts with
  Null,      \* no process
  MaxSig     \* bound on the events sent to sleeping threads

ASSUME ExitGrpAssumption ==
  /\ Boot \in Procs /\ Root \notin Procs
  /\ Null \notin Procs \cup {Root}
  /\ FirstTid \in Tids
  /\ IsFiniteSet(Procs) /\ IsFiniteSet(Tids)
  /\ MaxSig \in Nat

Groups  == Procs \cup {Root}
Threads == Procs \X Tids

VARIABLES
  phase,      \* how far a process is in its life and in do_exit()
  threads,    \* p_threads
  par,        \* p_parent
  grp,        \* the exit groups
  pc,         \* where in waits() a thread is
  intr,       \* t_intr: an event ended its sleep there
  got,        \* the process whose status it took off the list
  collected,  \* history: the processes whose status waits() has returned
  nsig,       \* events sent so far
  panic       \* has wait_exitgrp() followed a null pointer?

vars == <<phase, threads, par, grp, pc, intr, got, collected, nsig, panic>>
procVars == <<phase, threads, par>>
waitVars == <<pc, intr, got, collected, nsig, panic>>

P(t) == t[1]

FreeGrp == [alloc |-> FALSE, parent |-> FALSE, refs |-> 0, stat |-> << >>,
            sema |-> NewSema(0)]

\* alloc_exitgrp() for a leader, and for none with bootproc()'s reference.
NewGrp  == [alloc |-> TRUE, parent |-> TRUE, refs |-> 1, stat |-> << >>,
            sema |-> NewSema(0)]
RootGrp == [NewGrp EXCEPT !.parent = FALSE]

GrpType == [alloc : BOOLEAN, parent : BOOLEAN, refs : Nat, stat : Seq(Procs),
            sema : SemaType(Threads)]

InExit == {"drop", "look", "post", "leave"}

\* fork(), do_exit() and waits() move processes, threads and groups between
\* these values only; e_refs, unsigned, is not decremented below zero.
TypeOK ==
  /\ phase \in [Procs -> {"none", "lives", "gone"} \cup InExit]
  /\ threads \in [Procs -> SUBSET Tids]
  /\ par \in [Procs -> Groups \cup {Null}]
  /\ grp \in [Groups -> GrpType]
  /\ pc \in [Threads -> {"out", "taken", "settle", "asleep"}]
  /\ intr \in [Threads -> BOOLEAN]
  /\ got \in [Threads -> Procs \cup {Null}]
  /\ collected \in SUBSET Procs
  /\ nsig \in Nat
  /\ panic \in BOOLEAN

\* bootproc()
Init ==
  /\ phase = [p \in Procs |-> IF p = Boot THEN "lives" ELSE "none"]
  /\ threads = [p \in Procs |-> IF p = Boot THEN {FirstTid} ELSE {}]
  /\ par = [p \in Procs |-> IF p = Boot THEN Root ELSE Null]
  /\ grp = [g \in Groups |-> IF g = Boot THEN NewGrp
                             ELSE IF g = Root THEN RootGrp ELSE FreeGrp]
  /\ pc = [t \in Threads |-> "out"]
  /\ intr = [t \in Threads |-> FALSE]
  /\ got = [t \in Threads |-> Null]
  /\ collected = {} /\ nsig = 0 /\ panic = FALSE

\* Does thread t run its program?
Runs(t) == t[2] \in threads[P(t)] /\ pc[t] = "out"

-----------------------------------------------------------------------------
\* fork(), fork_thread()

\* Slip: the child is not counted.
RefGrpNot(e) == e

\* ref_exitgrp()
RefGrp(e) == [e EXCEPT !.refs = @ + 1]

Fork(t, q) ==
  /\ Runs(t) /\ phase[q] = "none"
  /\ phase' = [phase EXCEPT ![q] = "lives"]
  /\ threads' = [threads EXCEPT ![q] = {FirstTid}]
  /\ par' = [par EXCEPT ![q] = P(t)]
  /\ grp' = [grp EXCEPT ![P(t)] = RefGrp(@), ![q] = NewGrp]
  /\ UNCHANGED waitVars

ForkThread(t, i) ==
  /\ Runs(t) /\ i \notin threads[P(t)]
  /\ threads' = [threads EXCEPT ![P(t)] = @ \cup {i}]
  /\ UNCHANGED <<phase, par, grp, waitVars>>

-----------------------------------------------------------------------------
\* do_exit()

ThreadExit(t) ==
  /\ Runs(t) /\ threads[P(t)] # {t[2]}
  /\ threads' = [threads EXCEPT ![P(t)] = @ \ {t[2]}]
  /\ UNCHANGED <<phase, par, grp, waitVars>>

\* The group has no parent any more, and no use for statuses.
Orphan(e) == [e EXCEPT !.parent = FALSE, !.stat = << >>]

\* The last thread of a process: noparent_exitgrp() under e_lock.
NoParent(t) ==
  /\ Runs(t) /\ threads[P(t)] = {t[2]}
  /\ threads' = [threads EXCEPT ![P(t)] = {}]
  /\ phase' = [phase EXCEPT ![P(t)] = "drop"]
  /\ grp' = [grp EXCEPT ![P(t)] = Orphan(@)]
  /\ UNCHANGED <<par, waitVars>>

\* deref_exitgrp()
DerefGrp(e) == IF e.refs = 1 THEN FreeGrp ELSE [e EXCEPT !.refs = @ - 1]

\* ... that noparent_exitgrp() ends with.
DropChildren(p) ==
  /\ phase[p] = "drop"
  /\ phase' = [phase EXCEPT ![p] = "look"]
  /\ grp' = [grp EXCEPT ![p] = DerefGrp(@)]
  /\ UNCHANGED <<threads, par, waitVars>>

\* post_exitgrp(): "a quick, unlocked look"
Look(p) ==
  /\ phase[p] = "look"
  /\ phase' = [phase EXCEPT ![p] = IF grp[par[p]].parent THEN "post" ELSE "leave"]
  /\ UNCHANGED <<threads, par, grp, waitVars>>

\* Slips: the parent is not looked at again; the unit is forgotten.
PostedBlindly(e, p)  == [e EXCEPT !.stat = <<p>> \o @, !.sema = VSema(@)]
PostedSilently(e, p) == IF e.parent THEN [e EXCEPT !.stat = <<p>> \o @] ELSE e

\* The last status posted is the first on the list.
Posted(e, p) ==
  IF e.parent THEN [e EXCEPT !.stat = <<p>> \o @, !.sema = VSema(@)] ELSE e

\* ... and the look under the lock.
Post(p) ==
  /\ phase[p] = "post"
  /\ phase' = [phase EXCEPT ![p] = "leave"]
  /\ grp' = [grp EXCEPT ![par[p]] = Posted(@, p)]
  /\ UNCHANGED <<threads, par, waitVars>>

Leave(p) ==
  /\ phase[p] = "leave"
  /\ phase' = [phase EXCEPT ![p] = "gone"]
  /\ grp' = [grp EXCEPT ![par[p]] = DerefGrp(@)]
  /\ UNCHANGED <<threads, par, waitVars>>

-----------------------------------------------------------------------------
\* waits() and wait_exitgrp()

E(t) == grp[P(t)]

\* Slip: the whole list goes.
RestLost(stat) == << >>

\* The list without its first status.
Rest(stat) == Tail(stat)

\* A status awaits: take it off the list.
WaitTake(t) ==
  /\ Runs(t) /\ E(t).stat # << >>
  /\ got' = [got EXCEPT ![t] = Head(E(t).stat)]
  /\ grp' = [grp EXCEPT ![P(t)].stat = Rest(@)]
  /\ pc' = [pc EXCEPT ![t] = "taken"]
  /\ UNCHANGED <<procVars, intr, collected, nsig, panic>>

\* Slip: a unit is taken only if there is one, and the caller goes on anyway.
SettledMaybe(s, t) == IF Free(s) THEN PSema(s, t) ELSE s

\* "p_sema() here to keep the sema count right"
Settled(s, t) == PSema(s, t)

Settle(t) ==
  /\ pc[t] = "taken"
  /\ grp' = [grp EXCEPT ![P(t)].sema = Settled(@, t)]
  /\ pc' = [pc EXCEPT ![t] = "settle"]
  /\ UNCHANGED <<procVars, intr, got, collected, nsig, panic>>

\* Back to the caller with the status.
SettleDone(t) ==
  /\ pc[t] = "settle" /\ ~Queued(E(t).sema, t)
  /\ collected' = collected \cup {got[t]}
  /\ got' = [got EXCEPT ![t] = Null]
  /\ pc' = [pc EXCEPT ![t] = "out"]
  /\ UNCHANGED <<procVars, grp, intr, nsig, panic>>

\* None awaits, and there are children: wait for one.  (A caller without
\* children, or one that asked not to block, is told so and changes nothing.)
WaitSleep(t) ==
  /\ Runs(t) /\ E(t).stat = << >> /\ E(t).refs # 1
  /\ grp' = [grp EXCEPT ![P(t)].sema = PSema(@, t)]
  /\ intr' = [intr EXCEPT ![t] = FALSE]
  /\ pc' = [pc EXCEPT ![t] = "asleep"]
  /\ UNCHANGED <<procVars, got, collected, nsig, panic>>

HasUnit(t) == pc[t] = "asleep" /\ ~Queued(E(t).sema, t) /\ ~intr[t]

\* "We now have a message to remove"
WaitWoken(t) ==
  /\ HasUnit(t) /\ E(t).stat # << >>
  /\ collected' = collected \cup {Head(E(t).stat)}
  /\ grp' = [grp EXCEPT ![P(t)].stat = Rest(@)]
  /\ pc' = [pc EXCEPT ![t] = "out"]
  /\ UNCHANGED <<procVars, intr, got, nsig, panic>>

\* ... and there is none to remove.
WaitNothing(t) ==
  /\ HasUnit(t) /\ E(t).stat = << >>
  /\ panic' = TRUE
  /\ UNCHANGED <<procVars, grp, pc, intr, got, collected, nsig>>

WaitBroken(t) ==
  /\ pc[t] = "asleep" /\ intr[t]
  /\ pc' = [pc EXCEPT ![t] = "out"]
  /\ UNCHANGED <<procVars, grp, intr, got, collected, nsig, panic>>

\* signal_thread()
Signal(t) ==
  /\ nsig < MaxSig
  /\ pc[t] = "asleep" /\ Queued(E(t).sema, t)
  /\ grp' = [grp EXCEPT ![P(t)].sema = Cunsleep(@, t)]
  /\ intr' = [intr EXCEPT ![t] = TRUE]
  /\ nsig' = nsig + 1
  /\ UNCHANGED <<procVars, pc, got, collected, panic>>

-----------------------------------------------------------------------------

ExitRuns(p) == DropChildren(p) \/ Look(p) \/ Post(p) \/ Leave(p)
WaitRuns(t) ==
  Settle(t) \/ SettleDone(t) \/ WaitWoken(t) \/ WaitNothing(t) \/ WaitBroken(t)

\* A null pointer followed stops the machine.
Next ==
  /\ ~panic
  /\ \/ \E p \in Procs : ExitRuns(p)
     \/ \E t \in Threads :
          \/ \E q \in Procs : Fork(t, q)
          \/ \E i \in Tids : ForkThread(t, i)
          \/ ThreadExit(t) \/ NoParent(t)
          \/ WaitTake(t) \/ WaitSleep(t) \/ WaitRuns(t)
          \/ Signal(t)

Spec == Init /\ [][Next]_vars

\* The scheduler runs every runnable thread in the end.
Fairness ==
  /\ \A p \in Procs : WF_vars(~panic /\ ExitRuns(p))
  /\ \A t \in Threads : WF_vars(~panic /\ WaitRuns(t))

FairSpec == Spec /\ Fairness

-----------------------------------------------------------------------------
\* Properties

\* The processes that use group g: its leader, until noparent_exitgrp() has
\* dropped it, and the children, until they have dropped it in do_exit().
Leader(g)   == {p \in Procs : p = g /\ phase[p] \in {"lives", "drop"}}
Children(g) == {q \in Procs : par[q] = g /\ phase[q] \in {"lives"} \cup InExit}

\* e_refs counts the processes that use a group, and the group is freed with
\* the last of them: ref_exitgrp(), deref_exitgrp() never free a group that
\* a parent or child still uses, nor leave one behind.
RefsCount ==
  \A g \in Groups :
    /\ grp[g].refs = Cardinality(Children(g)) + Cardinality(Leader(g))
    /\ grp[g].alloc <=> grp[g].refs > 0

\* The assertions of deref_exitgrp(): there is a reference to drop, and the
\* last one goes after the parent has disassociated itself and when no status
\* is left on the list, however parent and child exit against each other.
MayDeref(e) ==
  /\ e.alloc /\ e.refs > 0
  /\ e.refs = 1 => ~e.parent /\ e.stat = << >>

DerefAsserts ==
  \A p \in Procs : /\ phase[p] = "drop"  => MayDeref(grp[p])
                   /\ phase[p] = "leave" => MayDeref(grp[par[p]])

\* Statuses in the hands of the threads of p.
InHands(p) == {got[<<p, i>>] : i \in Tids} \ {Null}

\* While a parent lives, the status of each child that has come to the end of
\* post_exitgrp() is in one place: on the list, in the hands of a thread of
\* the parent, or returned by waits().  None is lost, none returned twice.
StatusOnce ==
  \A p \in Procs : grp[p].parent =>
    /\ IsInjective(grp[p].stat)
    /\ ToSet(grp[p].stat) \cap (collected \cup InHands(p)) = {}
    /\ InHands(p) \cap collected = {}
    /\ \A q \in Procs : par[q] = p =>
         (phase[q] \in {"leave", "gone"}
            <=> q \in ToSet(grp[p].stat) \cup InHands(p) \cup collected)

\* wait_exitgrp() "keep[s] the sema count right": e_sema has a unit for each
\* status on the list or just taken off it, less those that its sleepers have
\* been given or still wait for.
UnitPerStatus ==
  \A p \in Procs : grp[p].parent =>
    grp[p].sema.cnt = Len(grp[p].stat)
                      + Cardinality({i \in Tids : pc[<<p, i>>] = "taken"})
                      - Cardinality({i \in Tids : /\ pc[<<p, i>>] = "asleep"
                                                  /\ ~intr[<<p, i>>]})

\* Threads of a parent asleep in wait_exitgrp() are woken for the statuses
\* that its children post: the list runs empty, or nobody is left waiting.
StatusWakes ==
  \A p \in Procs :
    (grp[p].stat # << >> /\ \E i \in Tids : pc[<<p, i>>] = "asleep")
      ~> (panic \/ grp[p].stat = << >> \/ \A i \in Tids : pc[<<p, i>>] # "asleep")

=============================================================================
