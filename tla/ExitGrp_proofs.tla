--------------------------- MODULE ExitGrp_proofs ---------------------------
(***************************************************************************)
(* Exit groups, for any number of processes and threads: e_refs and the    *)
(* assertions of deref_exitgrp() first, then what becomes of a status      *)
(* between post_exitgrp() and wait_exitgrp(), and the count of e_sema.     *)
(***************************************************************************)
EXTENDS ExitGrp, SemaOps_proofs, FiniteSetTheorems

\* A process with threads has not begun to exit; one that was forked has a
\* group to leave, and the process that leads it was forked before it.
Lineage ==
  \A p \in Procs :
    /\ threads[p] # {} => phase[p] = "lives"
    /\ phase[p] # "none" => par[p] \in Groups
    /\ par[p] \in Procs => phase[par[p]] # "none"

\* e_parent is set exactly while the leader lives, and only then are there
\* statuses.
Parents ==
  \A g \in Groups :
    /\ grp[g].parent <=> (g \in Procs /\ phase[g] = "lives")
    /\ ~grp[g].parent => grp[g].stat = << >>

\* A thread that took a status off the list still has it.
Holders == \A t \in Threads : pc[t] \in {"taken", "settle"} => got[t] # Null

\* The inductive invariant.  The count alone is not inductive: that fork()
\* refers to a group in use, and that a new process starts with a group that
\* nobody counts on, needs Lineage; that the last reference finds no parent
\* and no status needs Parents.
IInv == TypeOK /\ RefsCount /\ Lineage /\ Parents /\ Holders

USE DEF P

-----------------------------------------------------------------------------

\* Counting processes.
LEMMA ProcCount ==
  ASSUME NEW A \in SUBSET Procs
  PROVE  /\ Cardinality(A) \in Nat
         /\ Cardinality(A) = 0 <=> A = {}
         /\ \A x \in Procs \ A : Cardinality(A \cup {x}) = Cardinality(A) + 1
         /\ \A x \in A : Cardinality(A \ {x}) = Cardinality(A) - 1
<1>1. IsFiniteSet(A)
  BY ExitGrpAssumption, FS_Subset
<1> QED  BY <1>1, FS_CardinalityType, FS_EmptySet, FS_AddElement, FS_RemoveElement

\* The leader counts one.
LEMMA LeaderCount ==
  ASSUME NEW g \in Groups
  PROVE  /\ Leader(g) \in SUBSET Procs
         /\ Children(g) \in SUBSET Procs
         /\ Leader(g) = IF g \in Procs /\ phase[g] \in {"lives", "drop"} THEN {g} ELSE {}
BY DEF Leader, Children

\* cunsleep() and the others leave a semaphore.
LEMMA SemaSteps ==
  ASSUME NEW s \in SemaType(Threads), NEW t \in Threads
  PROVE  /\ NewSema(0) \in SemaType(Threads)
         /\ PSema(s, t) \in SemaType(Threads)
         /\ VSema(s) \in SemaType(Threads)
         /\ Queued(s, t) => Cunsleep(s, t) \in SemaType(Threads)
<1>1. NewSema(0) \in SemaType(Threads) /\ PSema(s, t) \in SemaType(Threads)
  BY DEF NewSema, PSema, SemaType
<1>2. VSema(s) \in SemaType(Threads)
  BY DEF VSema, SemaType
<1>3. ASSUME Queued(s, t)
      PROVE  Cunsleep(s, t) \in SemaType(Threads)
  <2>1. PICK k \in 1..Len(s.q) : k = Position(s, t)
    BY <1>3 DEF Position, Queued, Contains
  <2>2. s.q \in Seq(Threads) /\ s.cnt \in Int
    BY DEF SemaType
  <2>3. /\ \A i \in 1..(k - 1) : s.q[i] \in Threads
        /\ \A i \in (k + 1)..Len(s.q) : s.q[i] \in Threads
    BY <2>2
  <2>4. /\ SubSeq(s.q, 1, k - 1) \in Seq(Threads)
        /\ SubSeq(s.q, k + 1, Len(s.q)) \in Seq(Threads)
    BY <2>2, <2>3, SubSeqProperties
  <2>5. RemoveAt(s.q, k) \in Seq(Threads)
    BY <2>4, ConcatProperties DEF RemoveAt
  <2> QED  BY <2>1, <2>2, <2>5 DEF Cunsleep, SemaType
<1> QED  BY <1>1, <1>2, <1>3

-----------------------------------------------------------------------------

\* A step that changes neither who uses a group nor its count keeps the count.
LEMMA CountStays ==
  ASSUME IInv, TypeOK',
         \A g \in Groups : /\ grp'[g].refs = grp[g].refs
                           /\ grp'[g].alloc = grp[g].alloc
                           /\ Children(g)' = Children(g)
                           /\ Leader(g)' = Leader(g)
  PROVE  RefsCount'
BY DEF IInv, RefsCount

\* fork() and do_exit() leave the threads in waits() alone.
LEMMA HoldersStay == IInv /\ UNCHANGED waitVars => Holders'
BY DEF IInv, Holders, waitVars

\* A step of waits() in a thread of p changes at most the list and the
\* semaphore of p's own group.
LEMMA WaitKeeps ==
  ASSUME IInv, NEW t \in Threads, UNCHANGED procVars,
         NEW x \in Seq(Procs), NEW s \in SemaType(Threads),
         grp' = [grp EXCEPT ![P(t)] = [@ EXCEPT !.stat = x, !.sema = s]],
         ~E(t).parent => x = << >>
  PROVE  /\ grp' \in [Groups -> GrpType]
         /\ RefsCount' /\ Lineage' /\ Parents'
<1> USE DEF IInv
<1>1. P(t) \in Groups
  BY DEF Threads, Groups
<1>2. grp[P(t)] \in GrpType
  BY <1>1 DEF TypeOK
<1>3. [grp[P(t)] EXCEPT !.stat = x, !.sema = s] \in GrpType
  BY <1>2 DEF GrpType
<1>4. grp' \in [Groups -> GrpType]
  BY <1>1, <1>3 DEF TypeOK
<1>5. \A g \in Groups : /\ grp'[g].refs = grp[g].refs
                        /\ grp'[g].alloc = grp[g].alloc
                        /\ grp'[g].parent = grp[g].parent
                        /\ g # P(t) => grp'[g].stat = grp[g].stat
                        /\ g = P(t) => grp'[g].stat = x
  BY <1>1, <1>2 DEF TypeOK, GrpType
<1>6. RefsCount'
  BY <1>5 DEF RefsCount, Children, Leader, procVars
<1>7. Lineage' /\ Parents'
  BY <1>5 DEF Lineage, Parents, procVars, E
<1> QED  BY <1>4, <1>6, <1>7

-----------------------------------------------------------------------------
(* One lemma per action that changes who uses a group.                     *)

\* A child is counted on its parent's group and leads a new one.
LEMMA ForkStep ==
  ASSUME IInv, NEW t \in Threads, NEW q \in Procs, Fork(t, q)
  PROVE  IInv'
<1> USE DEF IInv
<1> DEFINE p == P(t)
<1>1. /\ p \in Procs /\ p \in Groups /\ q \in Groups
      /\ phase[p] = "lives" /\ phase[q] = "none" /\ p # q
  BY DEF Threads, Groups, Fork, Runs, Lineage
<1>2. /\ grp[p] \in GrpType
      /\ RefGrp(grp[p]) \in GrpType
      /\ RefGrp(grp[p]).refs = grp[p].refs + 1
      /\ grp[p].refs > 0
      /\ RefGrp(grp[p]).alloc = grp[p].alloc
      /\ RefGrp(grp[p]).parent = grp[p].parent
      /\ RefGrp(grp[p]).stat = grp[p].stat
  <2>1. grp[p] \in GrpType
    BY <1>1 DEF TypeOK
  <2>2. Leader(p) = {p}
    BY <1>1, LeaderCount
  <2>3. /\ Cardinality(Leader(p)) \in Nat \ {0}
        /\ Cardinality(Children(p)) \in Nat
    BY <1>1, <2>2, LeaderCount, ProcCount
  <2>4. grp[p].refs > 0
    BY <1>1, <2>3 DEF RefsCount
  <2> QED  BY <2>1, <2>4 DEF RefGrp, GrpType
<1>3. /\ NewGrp \in GrpType
      /\ NewGrp.refs = 1 /\ NewGrp.alloc = TRUE
      /\ NewGrp.parent = TRUE /\ NewGrp.stat = << >>
  <2>1. NewSema(0) \in SemaType(Threads)
    BY DEF NewSema, SemaType
  <2> QED  BY <2>1 DEF NewGrp, GrpType
<1>4. \A g \in Groups : grp'[g] = IF g = q THEN NewGrp
                                  ELSE IF g = p THEN RefGrp(grp[p]) ELSE grp[g]
  BY <1>1 DEF Fork, TypeOK
<1>5. TypeOK'
  <2>1. grp' \in [Groups -> GrpType]
    BY <1>1, <1>2, <1>3, <1>4 DEF Fork, TypeOK
  <2> QED  BY <1>1, <2>1, ExitGrpAssumption DEF Fork, TypeOK, waitVars
<1>6. Lineage' /\ Parents'
  <2>1. Lineage'
    BY <1>1 DEF Fork, Lineage, TypeOK
  <2>2. Parents'
    BY <1>1, <1>2, <1>3, <1>4 DEF Fork, Parents, TypeOK
  <2> QED  BY <2>1, <2>2
<1>7. RefsCount'
  <2>1. /\ Children(q) = {} /\ Children(q)' = {}
        /\ Leader(q) = {} /\ Leader(q)' = {q}
    BY <1>1 DEF Fork, Children, Leader, Lineage, TypeOK
  <2>2. /\ q \notin Children(p)
        /\ Children(p)' = Children(p) \cup {q}
        /\ Leader(p)' = Leader(p)
    BY <1>1 DEF Fork, Children, Leader, TypeOK, InExit
  <2>3. \A g \in Groups \ {p, q} : Children(g)' = Children(g) /\ Leader(g)' = Leader(g)
    BY <1>1 DEF Fork, Children, Leader, TypeOK, InExit
  <2>4. /\ Cardinality(Children(p)') = Cardinality(Children(p)) + 1
        /\ Cardinality(Children(p)) \in Nat /\ Cardinality(Leader(p)) \in Nat
    BY <1>1, <2>2, LeaderCount, ProcCount
  <2>5. Cardinality(Children(q)') = 0 /\ Cardinality(Leader(q)') = 1
    BY <2>1, FS_EmptySet, FS_Singleton
  <2>6. ASSUME NEW g \in Groups
        PROVE  /\ grp'[g].refs = Cardinality(Children(g)') + Cardinality(Leader(g)')
               /\ grp'[g].alloc <=> grp'[g].refs > 0
    <3>1. CASE g = q
      BY <3>1, <1>3, <1>4, <2>5
    <3>2. CASE g = p
      BY <3>2, <1>1, <1>2, <1>4, <2>2, <2>4 DEF RefsCount, GrpType
    <3>3. CASE g \notin {p, q}
      BY <3>3, <1>4, <2>3 DEF RefsCount
    <3> QED  BY <3>1, <3>2, <3>3
  <2> QED  BY <2>6 DEF RefsCount
<1>9. Holders'
  BY HoldersStay DEF Fork
<1> QED  BY <1>9, <1>5, <1>6, <1>7

\* What deref_exitgrp() leaves of a group.
LEMMA Dereffed ==
  ASSUME NEW e \in GrpType, e.refs > 0
  PROVE  /\ DerefGrp(e) \in GrpType
         /\ DerefGrp(e).refs = e.refs - 1
         /\ e.alloc => (DerefGrp(e).alloc <=> DerefGrp(e).refs > 0)
         /\ DerefGrp(e).parent => e.parent
         /\ e.refs > 1 => DerefGrp(e).parent = e.parent
         /\ e.stat = << >> => DerefGrp(e).stat = << >>
         /\ DerefGrp(e).stat \in {e.stat, << >>}
<1>1. NewSema(0) \in SemaType(Threads)
  BY DEF NewSema, SemaType
<1>2. CASE e.refs = 1
  <2>1. DerefGrp(e) = FreeGrp
    BY <1>2 DEF DerefGrp
  <2>2. FreeGrp \in GrpType
    BY <1>1 DEF FreeGrp, GrpType
  <2> QED  BY <1>2, <2>1, <2>2 DEF FreeGrp
<1>3. CASE e.refs # 1
  <2>1. DerefGrp(e) = [e EXCEPT !.refs = e.refs - 1]
    BY <1>3 DEF DerefGrp
  <2>2. e.refs \in Nat /\ e.refs - 1 \in Nat /\ e.refs - 1 > 0
    BY <1>3 DEF GrpType
  <2>3. DerefGrp(e) \in GrpType
    BY <2>1, <2>2 DEF GrpType
  <2>4. /\ DerefGrp(e).refs = e.refs - 1
        /\ DerefGrp(e).alloc = e.alloc
        /\ DerefGrp(e).parent = e.parent
        /\ DerefGrp(e).stat = e.stat
    BY <2>1 DEF GrpType
  <2> QED  BY <2>2, <2>3, <2>4
<1> QED  BY <1>2, <1>3

\* Whoever is about to drop a reference is counted, and if it is the last one
\* there is neither parent nor status.
LEMMA InvDeref == IInv => DerefAsserts
<1> SUFFICES ASSUME IInv, NEW p \in Procs
             PROVE  /\ phase[p] = "drop"  => MayDeref(grp[p])
                    /\ phase[p] = "leave" => MayDeref(grp[par[p]])
  BY DEF DerefAsserts
<1> USE DEF IInv
<1>1. ASSUME phase[p] = "drop"
      PROVE  MayDeref(grp[p])
  <2>1. p \in Groups /\ p \in Leader(p) /\ grp[p] \in GrpType
    BY <1>1 DEF Groups, Leader, TypeOK
  <2>2. grp[p].refs > 0 /\ grp[p].alloc
    BY <2>1, LeaderCount, ProcCount DEF RefsCount, GrpType
  <2>3. ~grp[p].parent /\ grp[p].stat = << >>
    BY <1>1, <2>1 DEF Parents
  <2> QED  BY <2>2, <2>3 DEF MayDeref
<1>2. ASSUME phase[p] = "leave"
      PROVE  MayDeref(grp[par[p]])
  <2> DEFINE g == par[p]
  <2>1. g \in Groups /\ p \in Children(g) /\ grp[g] \in GrpType
    BY <1>2 DEF Lineage, Children, TypeOK, InExit
  <2>2. grp[g].refs > 0 /\ grp[g].alloc
    BY <2>1, LeaderCount, ProcCount DEF RefsCount, GrpType
  <2>3. ASSUME grp[g].refs = 1
        PROVE  ~grp[g].parent
    <3>1. Cardinality(Leader(g)) = 0
      BY <2>1, <2>3, LeaderCount, ProcCount DEF RefsCount
    <3>2. Leader(g) = {}
      BY <2>1, <3>1, LeaderCount, ProcCount
    <3> QED  BY <2>1, <3>2, LeaderCount DEF Parents
  <2> QED  BY <2>1, <2>2, <2>3 DEF MayDeref, Parents
<1> QED  BY <1>1, <1>2

\* The leader lets go of its group.
LEMMA DropStep ==
  ASSUME IInv, NEW p \in Procs, DropChildren(p)
  PROVE  IInv'
<1> USE DEF IInv
<1>1. /\ p \in Groups /\ phase[p] = "drop" /\ grp[p] \in GrpType
      /\ grp[p].refs > 0 /\ grp[p].alloc
      /\ ~grp[p].parent /\ grp[p].stat = << >>
  <2>1. MayDeref(grp[p])
    BY InvDeref DEF DerefAsserts, DropChildren
  <2> QED  BY <2>1 DEF DropChildren, Groups, TypeOK, MayDeref, Parents
<1>2. \A g \in Groups : grp'[g] = IF g = p THEN DerefGrp(grp[p]) ELSE grp[g]
  BY <1>1 DEF DropChildren, TypeOK
<1>3. TypeOK'
  <2>1. grp' \in [Groups -> GrpType]
    BY <1>1, Dereffed DEF DropChildren, TypeOK
  <2> QED  BY <1>1, <2>1 DEF DropChildren, TypeOK, waitVars, InExit
<1>4. Lineage' /\ Parents'
  <2>1. Lineage'
    BY <1>1 DEF DropChildren, Lineage, TypeOK
  <2>2. Parents'
    BY <1>1, <1>2, Dereffed DEF DropChildren, Parents, TypeOK
  <2> QED  BY <2>1, <2>2
<1>5. RefsCount'
  <2>1. /\ p \in Leader(p) /\ Leader(p)' = Leader(p) \ {p}
        /\ \A g \in Groups \ {p} : Leader(g)' = Leader(g)
        /\ \A g \in Groups : Children(g)' = Children(g)
    BY <1>1 DEF DropChildren, Leader, Children, TypeOK, InExit
  <2>2. /\ Cardinality(Leader(p)') = Cardinality(Leader(p)) - 1
        /\ Cardinality(Leader(p)) \in Nat /\ Cardinality(Children(p)) \in Nat
    BY <1>1, <2>1, LeaderCount, ProcCount
  <2>3. /\ DerefGrp(grp[p]).refs = grp[p].refs - 1
        /\ DerefGrp(grp[p]).alloc <=> DerefGrp(grp[p]).refs > 0
    BY <1>1, Dereffed
  <2>4. ASSUME NEW g \in Groups
        PROVE  /\ grp'[g].refs = Cardinality(Children(g)') + Cardinality(Leader(g)')
               /\ grp'[g].alloc <=> grp'[g].refs > 0
    <3>1. CASE g = p
      <4>1. grp[p].refs = Cardinality(Children(p)) + Cardinality(Leader(p))
        BY <1>1 DEF RefsCount
      <4> QED  BY <3>1, <4>1, <1>2, <2>1, <2>2, <2>3
    <3>2. CASE g # p
      BY <3>2, <1>2, <2>1 DEF RefsCount
    <3> QED  BY <3>1, <3>2
  <2> QED  BY <2>4 DEF RefsCount
<1>9. Holders'
  BY HoldersStay DEF DropChildren
<1> QED  BY <1>9, <1>3, <1>4, <1>5

\* A child lets go of its parent's group.
LEMMA LeaveStep ==
  ASSUME IInv, NEW p \in Procs, Leave(p)
  PROVE  IInv'
<1> USE DEF IInv
<1>0. PICK h : h = par[p]
  OBVIOUS
<1>1. /\ h \in Groups /\ phase[p] = "leave" /\ grp[h] \in GrpType
      /\ grp[h].refs > 0 /\ grp[h].alloc
      /\ grp[h].refs = 1 => ~grp[h].parent
  <2>1. MayDeref(grp[h])
    BY <1>0, InvDeref DEF DerefAsserts, Leave
  <2> QED  BY <1>0, <2>1 DEF Leave, Lineage, TypeOK, MayDeref, GrpType
<1>2. \A g \in Groups : grp'[g] = IF g = h THEN DerefGrp(grp[h]) ELSE grp[g]
  BY <1>0, <1>1 DEF Leave, TypeOK
<1>3. TypeOK'
  <2>1. grp' \in [Groups -> GrpType]
    BY <1>0, <1>1, Dereffed DEF Leave, TypeOK
  <2> QED  BY <1>1, <2>1 DEF Leave, TypeOK, waitVars
<1>4. Lineage' /\ Parents'
  <2>1. Lineage'
    BY <1>1 DEF Leave, Lineage, TypeOK
  <2>2. /\ DerefGrp(grp[h]).parent = grp[h].parent
        /\ grp[h].stat = << >> => DerefGrp(grp[h]).stat = << >>
    BY <1>1, Dereffed DEF GrpType
  <2>3. Parents'
    BY <1>1, <1>2, <2>2 DEF Leave, Parents, TypeOK
  <2> QED  BY <2>1, <2>3
<1>5. RefsCount'
  <2>1. /\ p \in Children(h) /\ Children(h)' = Children(h) \ {p}
        /\ \A g \in Groups \ {h} : Children(g)' = Children(g)
        /\ \A g \in Groups : Leader(g)' = Leader(g)
    BY <1>0, <1>1 DEF Leave, Leader, Children, TypeOK, InExit
  <2>2. /\ Cardinality(Children(h)') = Cardinality(Children(h)) - 1
        /\ Cardinality(Leader(h)) \in Nat /\ Cardinality(Children(h)) \in Nat
    BY <1>1, <2>1, LeaderCount, ProcCount
  <2>3. /\ DerefGrp(grp[h]).refs = grp[h].refs - 1
        /\ DerefGrp(grp[h]).alloc <=> DerefGrp(grp[h]).refs > 0
    BY <1>1, Dereffed
  <2>4. ASSUME NEW g \in Groups
        PROVE  /\ grp'[g].refs = Cardinality(Children(g)') + Cardinality(Leader(g)')
               /\ grp'[g].alloc <=> grp'[g].refs > 0
    <3>1. CASE g = h
      <4>1. grp[h].refs = Cardinality(Children(h)) + Cardinality(Leader(h))
        BY <1>1 DEF RefsCount
      <4>2. grp'[g] = DerefGrp(grp[h])
        BY <3>1, <1>2
      <4>3. Leader(h)' = Leader(h)
        BY <1>1, <2>1
      <4>4. DerefGrp(grp[h]).refs = Cardinality(Children(h)') + Cardinality(Leader(h)')
        BY <4>1, <4>3, <2>2, <2>3
      <4> QED  BY <3>1, <4>2, <4>4, <2>3
    <3>2. CASE g # h
      BY <3>2, <1>2, <2>1 DEF RefsCount
    <3> QED  BY <3>1, <3>2
  <2> QED  BY <2>4 DEF RefsCount
<1>9. Holders'
  BY HoldersStay DEF Leave
<1> QED  BY <1>9, <1>3, <1>4, <1>5

-----------------------------------------------------------------------------
(* The actions that leave the count alone.                                 *)

\* The last thread of a process cuts its group off.
LEMMA NoParentStep ==
  ASSUME IInv, NEW t \in Threads, NoParent(t)
  PROVE  IInv'
<1> USE DEF IInv
<1> DEFINE p == P(t)
<1>1. p \in Procs /\ p \in Groups /\ phase[p] = "lives" /\ grp[p] \in GrpType
  BY DEF Threads, Groups, NoParent, Runs, Lineage, TypeOK
<1>2. \A g \in Groups : grp'[g] = IF g = p THEN Orphan(grp[p]) ELSE grp[g]
  BY <1>1 DEF NoParent, TypeOK
<1>3. /\ Orphan(grp[p]) \in GrpType
      /\ Orphan(grp[p]).refs = grp[p].refs
      /\ Orphan(grp[p]).alloc = grp[p].alloc
      /\ Orphan(grp[p]).parent = FALSE
      /\ Orphan(grp[p]).stat = << >>
  <2>1. Orphan(grp[p]) = [grp[p] EXCEPT !.parent = FALSE, !.stat = << >>]
    BY DEF Orphan
  <2>2. << >> \in Seq(Procs)
    OBVIOUS
  <2> QED  BY <1>1, <2>1, <2>2 DEF GrpType
<1>4. TypeOK'
  <2>1. grp' \in [Groups -> GrpType]
    BY <1>1, <1>3 DEF NoParent, TypeOK
  <2> QED  BY <1>1, <2>1 DEF NoParent, TypeOK, waitVars, InExit
<1>5. Lineage'
  BY <1>1 DEF NoParent, Lineage, TypeOK
<1>6. Parents'
  BY <1>1, <1>2, <1>3 DEF NoParent, Parents, TypeOK
<1>7. RefsCount'
  <2>1. \A g \in Groups : Children(g)' = Children(g) /\ Leader(g)' = Leader(g)
    BY <1>1 DEF NoParent, Children, Leader, TypeOK, InExit
  <2> QED  BY <1>2, <1>3, <1>4, <2>1, CountStays
<1>9. Holders'
  BY HoldersStay DEF NoParent
<1> QED  BY <1>9, <1>4, <1>5, <1>6, <1>7

\* post_exitgrp() changes the list and the semaphore of a group that has a
\* parent.
LEMMA PostStep ==
  ASSUME IInv, NEW p \in Procs, Post(p)
  PROVE  IInv'
<1> USE DEF IInv
<1>0. PICK h : h = par[p]
  OBVIOUS
<1>1. h \in Groups /\ phase[p] = "post" /\ grp[h] \in GrpType
  BY <1>0 DEF Post, Lineage, TypeOK
<1>2. \A g \in Groups : grp'[g] = IF g = h THEN Posted(grp[h], p) ELSE grp[g]
  BY <1>0, <1>1 DEF Post, TypeOK
<1>3. /\ Posted(grp[h], p) \in GrpType
      /\ Posted(grp[h], p).refs = grp[h].refs
      /\ Posted(grp[h], p).alloc = grp[h].alloc
      /\ Posted(grp[h], p).parent = grp[h].parent
      /\ ~grp[h].parent => Posted(grp[h], p).stat = grp[h].stat
  <2>1. VSema(grp[h].sema) \in SemaType(Threads)
    BY <1>1 DEF VSema, SemaType, GrpType
  <2>2. <<p>> \o grp[h].stat \in Seq(Procs)
    BY <1>1 DEF GrpType
  <2> QED  BY <1>1, <2>1, <2>2 DEF Posted, GrpType
<1>4. TypeOK'
  <2>1. grp' \in [Groups -> GrpType]
    BY <1>0, <1>1, <1>3 DEF Post, TypeOK
  <2> QED  BY <1>1, <2>1 DEF Post, TypeOK, waitVars, InExit
<1>5. Lineage'
  BY <1>1 DEF Post, Lineage, TypeOK
<1>6. Parents'
  BY <1>1, <1>2, <1>3 DEF Post, Parents, TypeOK
<1>7. RefsCount'
  <2>1. \A g \in Groups : Children(g)' = Children(g) /\ Leader(g)' = Leader(g)
    BY <1>1 DEF Post, Children, Leader, TypeOK, InExit
  <2> QED  BY <1>2, <1>3, <1>4, <2>1, CountStays
<1>9. Holders'
  BY HoldersStay DEF Post
<1> QED  BY <1>9, <1>4, <1>5, <1>6, <1>7

\* The unlocked look decides where do_exit() goes on.
LEMMA LookStep ==
  ASSUME IInv, NEW p \in Procs, Look(p)
  PROVE  IInv'
<1> USE DEF IInv
<1>1. PICK l \in {"post", "leave"} : phase' = [phase EXCEPT ![p] = l]
  BY DEF Look
<1>2. phase[p] = "look" /\ UNCHANGED <<threads, par, grp, waitVars>>
  BY DEF Look
<1>3. TypeOK'
  BY <1>1, <1>2 DEF TypeOK, waitVars, InExit
<1>4. Lineage' /\ Parents'
  BY <1>1, <1>2 DEF Lineage, Parents, TypeOK
<1>5. \A g \in Groups : Children(g)' = Children(g) /\ Leader(g)' = Leader(g)
  BY <1>1, <1>2 DEF Children, Leader, TypeOK, InExit
<1>9. Holders'
  BY HoldersStay DEF Look
<1> QED  BY <1>9, <1>2, <1>3, <1>4, <1>5, CountStays

\* Threads come and go in a process that lives.
LEMMA ThreadStep ==
  ASSUME IInv, NEW t \in Threads,
         ThreadExit(t) \/ \E i \in Tids : ForkThread(t, i)
  PROVE  IInv'
<1> USE DEF IInv
<1>1. P(t) \in Procs /\ phase[P(t)] = "lives"
  BY DEF Threads, ThreadExit, ForkThread, Runs, Lineage
<1>2. PICK T \in SUBSET Tids : threads' = [threads EXCEPT ![P(t)] = T]
  BY <1>1 DEF ThreadExit, ForkThread, TypeOK
<1>3. UNCHANGED <<phase, par, grp, waitVars>>
  BY DEF ThreadExit, ForkThread
<1>4. TypeOK'
  BY <1>1, <1>2, <1>3 DEF TypeOK, waitVars
<1>5. Lineage' /\ Parents'
  BY <1>1, <1>2, <1>3 DEF Lineage, Parents, TypeOK
<1>6. RefsCount'
  BY <1>3 DEF RefsCount, Children, Leader
<1>9. Holders'
  BY HoldersStay DEF ThreadExit, ForkThread
<1> QED  BY <1>9, <1>4, <1>5, <1>6

\* waits() and the events that break it touch lists and semaphores only.
LEMMA WaitStep ==
  ASSUME IInv, NEW t \in Threads,
         WaitTake(t) \/ WaitSleep(t) \/ WaitRuns(t) \/ Signal(t)
  PROVE  IInv'
<1> USE DEF IInv
<1> DEFINE e == E(t)
<1>1. /\ P(t) \in Groups /\ e \in GrpType /\ e = grp[P(t)]
      /\ e.stat \in Seq(Procs) /\ e.sema \in SemaType(Threads)
      /\ ~e.parent => e.stat = << >>
  BY DEF Threads, Groups, TypeOK, E, GrpType, Parents
<1>2. ASSUME e.stat # << >>
      PROVE  Head(e.stat) \in Procs /\ Tail(e.stat) \in Seq(Procs)
  BY <1>1, <1>2
<1>3. CASE WaitTake(t)
  <2>1. grp' = [grp EXCEPT ![P(t)] = [@ EXCEPT !.stat = Tail(e.stat), !.sema = e.sema]]
    BY <1>1, <1>3 DEF WaitTake, Rest, GrpType, TypeOK
  <2>2. grp' \in [Groups -> GrpType] /\ RefsCount' /\ Lineage' /\ Parents'
    BY <1>1, <1>2, <1>3, <2>1, WaitKeeps DEF WaitTake
  <2>3. TypeOK'
    BY <1>2, <1>3, <2>2 DEF WaitTake, TypeOK, procVars
  <2>9. Holders'
    BY <1>3, <1>2, ExitGrpAssumption DEF WaitTake, Holders, TypeOK
  <2> QED  BY <2>9, <2>2, <2>3
<1>4. CASE WaitSleep(t)
  <2>1. PSema(e.sema, t) \in SemaType(Threads)
    BY <1>1, SemaSteps
  <2>2. grp' = [grp EXCEPT ![P(t)] = [@ EXCEPT !.stat = e.stat, !.sema = PSema(e.sema, t)]]
    BY <1>1, <1>4 DEF WaitSleep, GrpType, TypeOK
  <2>3. grp' \in [Groups -> GrpType] /\ RefsCount' /\ Lineage' /\ Parents'
    BY <1>1, <1>4, <2>1, <2>2, WaitKeeps DEF WaitSleep
  <2>4. TypeOK'
    BY <1>4, <2>3 DEF WaitSleep, TypeOK, procVars
  <2>9. Holders'
    BY <1>4 DEF WaitSleep, Holders, TypeOK
  <2> QED  BY <2>9, <2>3, <2>4
<1>5. CASE Settle(t)
  <2>1. PSema(e.sema, t) \in SemaType(Threads)
    BY <1>1, SemaSteps
  <2>2. grp' = [grp EXCEPT ![P(t)] = [@ EXCEPT !.stat = e.stat, !.sema = PSema(e.sema, t)]]
    BY <1>1, <1>5 DEF Settle, Settled, GrpType, TypeOK
  <2>3. grp' \in [Groups -> GrpType] /\ RefsCount' /\ Lineage' /\ Parents'
    BY <1>1, <1>5, <2>1, <2>2, WaitKeeps DEF Settle
  <2>4. TypeOK'
    BY <1>5, <2>3 DEF Settle, TypeOK, procVars
  <2>9. Holders'
    BY <1>5 DEF Settle, Holders, TypeOK
  <2> QED  BY <2>9, <2>3, <2>4
<1>6. CASE WaitWoken(t)
  <2>1. grp' = [grp EXCEPT ![P(t)] = [@ EXCEPT !.stat = Tail(e.stat), !.sema = e.sema]]
    BY <1>1, <1>6 DEF WaitWoken, Rest, GrpType, TypeOK
  <2>2. grp' \in [Groups -> GrpType] /\ RefsCount' /\ Lineage' /\ Parents'
    BY <1>1, <1>2, <1>6, <2>1, WaitKeeps DEF WaitWoken
  <2>3. TypeOK'
    BY <1>2, <1>6, <2>2 DEF WaitWoken, TypeOK, procVars
  <2>9. Holders'
    BY <1>6 DEF WaitWoken, Holders, TypeOK
  <2> QED  BY <2>9, <2>2, <2>3
<1>7. CASE Signal(t)
  <2>1. Cunsleep(e.sema, t) \in SemaType(Threads)
    BY <1>1, <1>7, SemaSteps DEF Signal
  <2>2. grp' = [grp EXCEPT ![P(t)] = [@ EXCEPT !.stat = e.stat, !.sema = Cunsleep(e.sema, t)]]
    BY <1>1, <1>7 DEF Signal, GrpType, TypeOK
  <2>3. grp' \in [Groups -> GrpType] /\ RefsCount' /\ Lineage' /\ Parents'
    BY <1>1, <1>7, <2>1, <2>2, WaitKeeps DEF Signal
  <2>4. TypeOK'
    BY <1>7, <2>3 DEF Signal, TypeOK, procVars
  <2>9. Holders'
    BY <1>7 DEF Signal, Holders, TypeOK
  <2> QED  BY <2>9, <2>3, <2>4
<1>8. CASE SettleDone(t) \/ WaitNothing(t) \/ WaitBroken(t)
  <2>1. UNCHANGED <<procVars, grp>>
    BY <1>8 DEF SettleDone, WaitNothing, WaitBroken
  <2>2. RefsCount' /\ Lineage' /\ Parents'
    BY <2>1 DEF RefsCount, Children, Leader, Lineage, Parents, procVars
  <2>3. SettleDone(t) => got[t] \in Procs
    BY DEF SettleDone, Holders, TypeOK
  <2>4. TypeOK'
    BY <1>8, <2>1, <2>3 DEF SettleDone, WaitNothing, WaitBroken, TypeOK, procVars
  <2>9. Holders'
    BY <1>8 DEF SettleDone, WaitNothing, WaitBroken, Holders, TypeOK
  <2> QED  BY <2>9, <2>2, <2>4
<1> QED  BY <1>3, <1>4, <1>5, <1>6, <1>7, <1>8 DEF WaitRuns

-----------------------------------------------------------------------------

\* Every step keeps the invariant.
LEMMA IInvStep == IInv /\ [Next]_vars => IInv'
<1> SUFFICES ASSUME IInv, [Next]_vars
             PROVE  IInv'
  OBVIOUS
<1>1. ASSUME NEW p \in Procs, ExitRuns(p)
      PROVE  IInv'
  BY <1>1, DropStep, LookStep, PostStep, LeaveStep DEF ExitRuns
<1>2. ASSUME NEW t \in Threads, NEW q \in Procs, Fork(t, q)
      PROVE  IInv'
  BY <1>2, ForkStep
<1>3. ASSUME NEW t \in Threads, NoParent(t)
      PROVE  IInv'
  BY <1>3, NoParentStep
<1>4. ASSUME NEW t \in Threads,
             ThreadExit(t) \/ \E i \in Tids : ForkThread(t, i)
      PROVE  IInv'
  BY <1>4, ThreadStep
<1>5. ASSUME NEW t \in Threads,
             WaitTake(t) \/ WaitSleep(t) \/ WaitRuns(t) \/ Signal(t)
      PROVE  IInv'
  BY <1>5, WaitStep
<1>6. ASSUME UNCHANGED vars
      PROVE  IInv'
  BY <1>6 DEF vars, IInv, TypeOK, RefsCount, Children, Leader, Lineage, Parents, Holders
<1> QED  BY <1>1, <1>2, <1>3, <1>4, <1>5, <1>6 DEF Next

\* The kernel starts with one process, which leads a group and is a member of
\* the group that has no parent.
LEMMA IInvInit == Init => IInv
<1> SUFFICES ASSUME Init
             PROVE  IInv
  OBVIOUS
<1> USE ExitGrpAssumption
<1>1. /\ Boot \in Groups /\ Root \in Groups /\ Boot # Root /\ Root \notin Procs
      /\ \A p \in Procs : p \in Groups /\ p # Root
  BY DEF Groups
<1>2. /\ NewGrp \in GrpType /\ RootGrp \in GrpType /\ FreeGrp \in GrpType
      /\ RootGrp = [NewGrp EXCEPT !.parent = FALSE]
  <2>1. NewSema(0) \in SemaType(Threads)
    BY DEF NewSema, SemaType
  <2>2. NewGrp \in GrpType /\ FreeGrp \in GrpType
    BY <2>1 DEF NewGrp, FreeGrp, GrpType
  <2>3. RootGrp \in GrpType
    BY <2>2 DEF RootGrp, GrpType
  <2> QED  BY <2>2, <2>3 DEF RootGrp
<1>3. TypeOK
  <2>1. grp \in [Groups -> GrpType]
    BY <1>1, <1>2 DEF Init
  <2> QED  BY <1>1, <2>1 DEF Init, TypeOK, InExit
<1>4. \A g \in Groups : grp[g] = IF g = Boot THEN NewGrp
                                 ELSE IF g = Root THEN RootGrp ELSE FreeGrp
  BY DEF Init
<1>5. /\ NewGrp.refs = 1 /\ NewGrp.alloc = TRUE /\ NewGrp.parent = TRUE
      /\ RootGrp.refs = 1 /\ RootGrp.alloc = TRUE /\ RootGrp.parent = FALSE
      /\ FreeGrp.refs = 0 /\ FreeGrp.alloc = FALSE /\ FreeGrp.parent = FALSE
      /\ NewGrp.stat = << >> /\ RootGrp.stat = << >> /\ FreeGrp.stat = << >>
  BY DEF NewGrp, RootGrp, FreeGrp
<1>6. RefsCount
  <2>1. /\ Children(Boot) = {} /\ Leader(Boot) = {Boot}
        /\ Children(Root) = {Boot} /\ Leader(Root) = {}
        /\ \A g \in Groups \ {Boot, Root} : Children(g) = {} /\ Leader(g) = {}
    BY <1>1 DEF Init, Children, Leader, InExit, Groups
  <2>2. /\ Cardinality({}) = 0
        /\ Cardinality({Boot}) = 1
    BY FS_EmptySet, FS_Singleton
  <2>3. ASSUME NEW g \in Groups
        PROVE  /\ grp[g].refs = Cardinality(Children(g)) + Cardinality(Leader(g))
               /\ grp[g].alloc <=> grp[g].refs > 0
    <3>1. CASE g = Boot
      BY <3>1, <1>4, <1>5, <2>1, <2>2
    <3>2. CASE g = Root
      <4>1. grp[g] = RootGrp /\ Children(g) = {Boot} /\ Leader(g) = {}
        BY <3>2, <1>1, <1>4, <2>1
      <4> QED  BY <4>1, <1>5, <2>2
    <3>3. CASE g \notin {Boot, Root}
      <4>1. grp[g] = FreeGrp /\ Children(g) = {} /\ Leader(g) = {}
        BY <3>3, <1>4, <2>1
      <4> QED  BY <4>1, <1>5, <2>2
    <3> QED  BY <3>1, <3>2, <3>3
  <2> QED  BY <2>3 DEF RefsCount
<1>7. Lineage
  BY <1>1 DEF Init, Lineage
<1>8. Parents
  BY <1>1, <1>4, <1>5 DEF Init, Parents
<1>9. Holders
  BY DEF Init, Holders
<1> QED  BY <1>3, <1>6, <1>7, <1>8, <1>9 DEF IInv

\* fork(), do_exit() and waits() keep every group well formed, and e_refs is
\* never decremented below zero.
THEOREM TypeCorrect == Spec => []TypeOK
<1>1. IInv => TypeOK
  BY DEF IInv
<1> QED  BY <1>1, IInvInit, IInvStep, PTL DEF Spec

\* e_refs counts the processes that use a group, from fork() to do_exit(): a
\* group in use is never freed, and the last user frees it.
THEOREM RefsAreCounted == Spec => []RefsCount
<1>1. IInv => RefsCount
  BY DEF IInv
<1> QED  BY <1>1, IInvInit, IInvStep, PTL DEF Spec

\* The assertions of deref_exitgrp() hold however parents and children exit
\* against each other: the unlocked look of post_exitgrp() is safe.
THEOREM DerefsAreSafe == Spec => []DerefAsserts
BY InvDeref, IInvInit, IInvStep, PTL DEF Spec

-----------------------------------------------------------------------------
(* The statuses: each in one place, and a unit for each.                   *)

OnList(g, q) == Contains(grp[g].stat, q)
InHand(g, q) == \E i \in Tids : got[<<g, i>>] = q
Ended(q)     == phase[q] \in {"leave", "gone"}

\* A thread inside waits() is one of its process; it holds a status only
\* between taking it and returning it, and while it is queued on e_sema no
\* event has ended its sleep.
Waiting ==
  \A t \in Threads :
    /\ pc[t] # "out" => t[2] \in threads[P(t)]
    /\ got[t] # Null => pc[t] \in {"taken", "settle"}
    /\ Queued(E(t).sema, t) => pc[t] = "settle" \/ (pc[t] = "asleep" /\ ~intr[t])

\* The semaphores of the groups are well formed.
SemasOK ==
  \A g \in Groups : QueueDistinct(grp[g].sema) /\ CountIsQueue(grp[g].sema)

\* Every status, wherever it is, is that of a child of the group which has
\* come to the end of post_exitgrp(), and no two threads hold the same.
Posters ==
  /\ \A g \in Groups, q \in Procs : OnList(g, q) => par[q] = g /\ Ended(q)
  /\ \A t \in Threads : got[t] # Null => par[got[t]] = P(t) /\ Ended(got[t])
  /\ \A q \in collected : Ended(q)
  /\ \A t, u \in Threads : got[t] # Null /\ got[t] = got[u] => t = u

\* StatusOnce, said of one process at a time.
Once ==
  \A p \in Procs : grp[p].parent =>
    /\ IsInjective(grp[p].stat)
    /\ \A q \in Procs :
         /\ ~(OnList(p, q) /\ (InHand(p, q) \/ q \in collected))
         /\ ~(InHand(p, q) /\ q \in collected)
         /\ par[q] = p => (Ended(q) <=> OnList(p, q) \/ InHand(p, q) \/ q \in collected)

\* The invariant under which statuses are neither lost nor doubled.
SInv == IInv /\ Waiting /\ SemasOK /\ Posters /\ Once

LEMMA OnceIsStatusOnce == TypeOK /\ Once => StatusOnce
<1> SUFFICES ASSUME TypeOK, Once, NEW p \in Procs, grp[p].parent
             PROVE  /\ IsInjective(grp[p].stat)
                    /\ ToSet(grp[p].stat) \cap (collected \cup InHands(p)) = {}
                    /\ InHands(p) \cap collected = {}
                    /\ \A q \in Procs : par[q] = p =>
                         (phase[q] \in {"leave", "gone"}
                            <=> q \in ToSet(grp[p].stat) \cup InHands(p) \cup collected)
  BY DEF StatusOnce
<1>1. grp[p].stat \in Seq(Procs)
  BY DEF TypeOK, Groups, GrpType
<1>2. \A q : q \in ToSet(grp[p].stat) <=> q \in Procs /\ OnList(p, q)
  BY <1>1 DEF ToSet, OnList, Contains
<1>3. \A q : q \in InHands(p) <=> q \in Procs /\ InHand(p, q)
  <2>1. \A i \in Tids : got[<<p, i>>] \in Procs \cup {Null}
    BY DEF TypeOK, Threads
  <2>2. Null \notin Procs
    BY ExitGrpAssumption
  <2>3. InHands(p) = {got[<<p, i>>] : i \in Tids} \ {Null}
    BY DEF InHands
  <2> QED  BY <2>1, <2>2, <2>3, Zenon DEF InHand
<1>4. \A q \in Procs :
         /\ ~(OnList(p, q) /\ (InHand(p, q) \/ q \in collected))
         /\ ~(InHand(p, q) /\ q \in collected)
         /\ par[q] = p => (Ended(q) <=> OnList(p, q) \/ InHand(p, q) \/ q \in collected)
  BY DEF Once
<1>5. IsInjective(grp[p].stat)
  BY DEF Once
<1> QED  BY <1>2, <1>3, <1>4, <1>5 DEF Ended

\* How the list of a group changes.
LEMMA ListSteps ==
  ASSUME NEW l \in Seq(Procs), NEW p \in Procs
  PROVE  /\ <<p>> \o l \in Seq(Procs)
         /\ Len(<<p>> \o l) = Len(l) + 1
         /\ \A q \in Procs : Contains(<<p>> \o l, q) <=> Contains(l, q) \/ q = p
         /\ IsInjective(l) /\ ~Contains(l, p) => IsInjective(<<p>> \o l)
         /\ \A q \in Procs : ~Contains(<< >>, q)
<1>1. PICK m : m = <<p>> \o l
  OBVIOUS
<1>2. /\ m \in Seq(Procs) /\ Len(m) = Len(l) + 1
      /\ m[1] = p
      /\ \A i \in 1..Len(l) : m[i + 1] = l[i]
  BY <1>1
<1>3. ASSUME NEW q \in Procs, Contains(l, q) \/ q = p
      PROVE  Contains(m, q)
  <2>1. CASE Contains(l, q)
    <3>1. PICK i \in 1..Len(l) : l[i] = q
      BY <2>1 DEF Contains
    <3>2. i + 1 \in 1..Len(m) /\ m[i + 1] = q
      BY <1>2, <3>1
    <3> QED  BY <3>2 DEF Contains
  <2>2. CASE q = p
    BY <1>2, <2>2 DEF Contains
  <2> QED  BY <1>3, <2>1, <2>2
<1>4. ASSUME NEW i \in 1..Len(m), i # 1
      PROVE  i - 1 \in 1..Len(l) /\ m[i] = l[i - 1]
  BY <1>2, <1>4
<1>5. ASSUME NEW q \in Procs, Contains(m, q)
      PROVE  Contains(l, q) \/ q = p
  BY <1>2, <1>4, <1>5 DEF Contains
<1>6. ASSUME IsInjective(l), ~Contains(l, p)
      PROVE  IsInjective(m)
  <2>1. \A i \in 1..Len(l) : l[i] # p
    BY <1>6 DEF Contains
  <2>2. \A i \in 1..Len(m) : i # 1 => m[i] # m[1]
    BY <1>2, <1>4, <2>1
  <2>3. DOMAIN m = 1..Len(m) /\ DOMAIN l = 1..Len(l)
    BY <1>2
  <2>4. ASSUME NEW i \in 1..Len(m), NEW j \in 1..Len(m), m[i] = m[j]
        PROVE  i = j
    <3>1. CASE i # 1 /\ j # 1
      <4>1. /\ i - 1 \in 1..Len(l) /\ m[i] = l[i - 1]
            /\ j - 1 \in 1..Len(l) /\ m[j] = l[j - 1]
        BY <1>4, <3>1
      <4>2. i - 1 = j - 1
        BY <1>6, <2>3, <2>4, <4>1 DEF IsInjective
      <4> QED  BY <4>2
    <3> QED  BY <2>2, <2>4, <3>1
  <2> QED  BY <2>3, <2>4 DEF IsInjective
<1>7. \A q \in Procs : ~Contains(<< >>, q)
  BY DEF Contains
<1> QED  BY <1>1, <1>2, <1>3, <1>5, <1>6, <1>7

\* Steps that move no status, and end no child's stay in do_exit().
LEMMA StatusesStay ==
  ASSUME SInv, UNCHANGED <<par, got, collected>>,
         \A q \in Procs : Ended(q)' <=> Ended(q),
         \A g \in Groups : /\ grp'[g].stat = grp[g].stat
                           /\ grp'[g].parent => grp[g].parent
  PROVE  Posters' /\ Once'
<1>1. \A p \in Procs : p \in Groups
  BY DEF Groups
<1>2. \A t \in Threads : got[t] # Null => got[t] \in Procs
  BY DEF SInv, IInv, TypeOK
<1>3. Posters'
  BY <1>2 DEF SInv, IInv, TypeOK, Posters, OnList, Ended
<1>4. Once'
  BY <1>1 DEF SInv, Once, OnList, InHand, Ended
<1> QED  BY <1>3, <1>4

\* What becomes of Posters when nothing is taken, and nobody's stay at the end
\* of do_exit() is over.
LEMMA PostersStay ==
  ASSUME SInv, UNCHANGED <<par, got, collected>>,
         \A q \in Procs : Ended(q) => Ended(q)',
         \A g \in Groups, q \in Procs : (OnList(g, q) => par[q] = g /\ Ended(q))'
  PROVE  Posters'
<1>1. \A t \in Threads : got[t] # Null => par[got[t]] = P(t) /\ Ended(got[t]) /\ got[t] \in Procs
  BY DEF SInv, Posters, IInv, TypeOK
<1>2. \A t \in Threads : (got[t] # Null => par[got[t]] = P(t) /\ Ended(got[t]))'
  BY <1>1 DEF Ended
<1>3. \A q \in collected : Ended(q) /\ q \in Procs
  BY DEF SInv, Posters, IInv, TypeOK
<1>4. \A q \in collected' : Ended(q)'
  BY <1>3
<1>5. \A t, u \in Threads : (got[t] # Null /\ got[t] = got[u] => t = u)'
  BY DEF SInv, Posters
<1> QED  BY <1>2, <1>4, <1>5 DEF Posters

\* Steps that touch no semaphore.
LEMMA SemasStay ==
  ASSUME SInv, \A g \in Groups : grp'[g].sema = grp[g].sema
  PROVE  SemasOK'
BY DEF SInv, SemasOK

\* The steps of do_exit() and fork() leave the threads in waits() where they
\* are, and these keep their process.
LEMMA WaitersStay ==
  ASSUME SInv, UNCHANGED waitVars,
         \A g \in Groups : grp'[g].sema = grp[g].sema \/ grp'[g].sema.q = << >>,
         \A t \in Threads : pc[t] # "out" => t[2] \in threads'[P(t)]
  PROVE  Waiting'
<1>1. \A t \in Threads : P(t) \in Groups
  BY DEF Threads, Groups
<1>2. \A t \in Threads : Queued(E(t).sema, t)' => Queued(E(t).sema, t)
  BY <1>1 DEF E, Queued, Contains
<1> QED  BY <1>2 DEF SInv, Waiting, waitVars

\* A process that does not exist yet has no threads in waits(), no children
\* and no status anywhere.
LEMMA NothingYet ==
  ASSUME SInv, NEW q \in Procs, phase[q] = "none"
  PROVE  /\ \A t \in Threads : P(t) = q => pc[t] = "out" /\ got[t] = Null
         /\ \A x \in Procs : par[x] # q
         /\ \A g \in Groups : ~OnList(g, q)
         /\ \A t \in Threads : got[t] # q
         /\ q \notin collected
<1>1. threads[q] = {}
  BY DEF SInv, IInv, Lineage
<1>2. \A t \in Threads : P(t) = q => pc[t] = "out" /\ got[t] = Null
  BY <1>1 DEF SInv, Waiting
<1>3. \A x \in Procs : par[x] # q
  BY DEF SInv, IInv, Lineage
<1>4. q # Null
  BY ExitGrpAssumption
<1> QED  BY <1>2, <1>3, <1>4 DEF SInv, Posters, Ended

\* A new process has a group without statuses; it has no status itself.
LEMMA ForkStatus ==
  ASSUME SInv, NEW t \in Threads, NEW q \in Procs, Fork(t, q)
  PROVE  SInv'
<1>1. IInv'
  BY ForkStep DEF SInv
<1>2. /\ P(t) \in Procs /\ P(t) \in Groups /\ q \in Groups /\ P(t) # q
      /\ \A p \in Procs : p \in Groups
      /\ t[2] \in Tids
  BY DEF Threads, Groups, Fork, Runs, SInv, IInv, Lineage
<1>3. /\ \A u \in Threads : P(u) = q => pc[u] = "out" /\ got[u] = Null
      /\ \A x \in Procs : par[x] # q
      /\ \A g \in Groups : ~OnList(g, q)
      /\ \A u \in Threads : got[u] # q
      /\ q \notin collected
  BY NothingYet DEF Fork
<1>4. \A g \in Groups :
        grp'[g] = IF g = q THEN NewGrp ELSE IF g = P(t) THEN RefGrp(grp[g]) ELSE grp[g]
  BY <1>2 DEF Fork, SInv, IInv, TypeOK
<1>5. \A g \in Groups : grp[g] \in GrpType
  BY DEF SInv, IInv, TypeOK
<1>6. \A g \in Groups : /\ g # q => /\ grp'[g].stat = grp[g].stat
                                    /\ grp'[g].sema = grp[g].sema
                                    /\ grp'[g].parent = grp[g].parent
                        /\ g = q => grp'[g].stat = << >> /\ grp'[g].sema = NewSema(0)
  <2>1. NewGrp.stat = << >> /\ NewGrp.sema = NewSema(0)
    BY DEF NewGrp
  <2>2. \A g \in Groups : /\ RefGrp(grp[g]).stat = grp[g].stat
                          /\ RefGrp(grp[g]).sema = grp[g].sema
                          /\ RefGrp(grp[g]).parent = grp[g].parent
    BY <1>5 DEF RefGrp, GrpType
  <2> QED  BY <1>4, <2>1, <2>2
<1>7. /\ \A x \in Procs : x # q => par'[x] = par[x] /\ phase'[x] = phase[x]
      /\ phase'[q] = "lives" /\ par'[q] = P(t)
      /\ UNCHANGED <<got, collected, pc, intr>>
      /\ \A x \in Procs : x # q => threads'[x] = threads[x]
      /\ phase[q] = "none"
  BY DEF Fork, waitVars, SInv, IInv, TypeOK
<1>8. \A x \in Procs : Ended(x)' <=> Ended(x)
  BY <1>7 DEF Ended
<1>9. NewSema(0).q = << >>
  BY DEF NewSema
<1>10. Waiting'
  <2>1. \A u \in Threads : P(u) \in Procs
    BY DEF Threads
  <2>2. \A u \in Threads : pc[u] # "out" => u[2] \in threads'[P(u)]
    BY <1>3, <1>7, <2>1 DEF SInv, Waiting
  <2> QED  BY <1>6, <1>7, <1>9, <2>2, WaitersStay DEF Fork
<1>11. SemasOK'
  <2>1. QueueDistinct(NewSema(0)) /\ CountIsQueue(NewSema(0))
    BY NewSemaOK
  <2> QED  BY <1>6, <2>1 DEF SInv, SemasOK
<1>12. Posters'
  <2>1. \A x \in Procs : ~Contains(<< >>, x)
    BY DEF Contains
  <2>2. ASSUME NEW g \in Groups, NEW x \in Procs, OnList(g, x)'
        PROVE  par'[x] = g /\ Ended(x)'
    BY <1>3, <1>6, <1>7, <1>8, <2>1, <2>2 DEF SInv, Posters, OnList
  <2>3. \A u \in Threads : got[u] # Null => got[u] \in Procs
    BY DEF SInv, IInv, TypeOK
  <2>4. \A u \in Threads : got[u] # Null => par'[got[u]] = P(u) /\ Ended(got[u])'
    BY <1>3, <1>7, <1>8, <2>3 DEF SInv, Posters
  <2>5. \A x \in collected : x \in Procs /\ Ended(x)
    BY DEF SInv, Posters, IInv, TypeOK
  <2>6. \A u, v \in Threads : got[u] # Null /\ got[u] = got[v] => u = v
    BY DEF SInv, Posters
  <2>7. \A u \in Threads : (got[u] # Null => par[got[u]] = P(u) /\ Ended(got[u]))'
    BY <1>7, <2>4 DEF Ended
  <2>8. \A x \in collected' : Ended(x)'
    BY <1>7, <1>8, <2>5
  <2>9. \A u, v \in Threads : (got[u] # Null /\ got[u] = got[v] => u = v)'
    BY <1>7, <2>6
  <2> QED  BY <2>2, <2>7, <2>8, <2>9 DEF Posters
<1>13. Once'
  <2>1. IsInjective(<< >>) /\ \A x \in Procs : ~Contains(<< >>, x)
    BY DEF Contains, IsInjective
  <2>2. ASSUME NEW p \in Procs, p # q, grp'[p].parent
        PROVE  /\ IsInjective(grp'[p].stat)
               /\ \A x \in Procs :
                    /\ ~(OnList(p, x)' /\ (InHand(p, x)' \/ x \in collected'))
                    /\ ~(InHand(p, x)' /\ x \in collected')
                    /\ par'[x] = p => (Ended(x)' <=> OnList(p, x)' \/ InHand(p, x)'
                                                       \/ x \in collected')
    <3>1. /\ grp[p].parent /\ grp'[p].stat = grp[p].stat
      BY <1>2, <1>6, <2>2
    <3>2. \A x \in Procs : (OnList(p, x)' <=> OnList(p, x)) /\ (InHand(p, x)' <=> InHand(p, x))
      BY <1>7, <3>1 DEF OnList, InHand
    <3>3. \A x \in Procs : x # q => (par'[x] = par[x])
      BY <1>7
    <3>4. ~OnList(p, q) /\ ~InHand(p, q) /\ ~Ended(q)
      BY <1>2, <1>3, <1>7, <2>2 DEF InHand, Threads, Ended
    <3> QED  BY <1>3, <1>7, <1>8, <3>1, <3>2, <3>3, <3>4 DEF SInv, Once
  <2>3. ASSUME NEW x \in Procs
        PROVE  /\ ~OnList(q, x)' /\ ~InHand(q, x)' /\ par'[x] # q
    <3>1. \A i \in Tids : <<q, i>> \in Threads /\ got[<<q, i>>] = Null
      BY <1>3 DEF Threads
    <3>2. x # Null
      BY ExitGrpAssumption
    <3> QED  BY <1>2, <1>3, <1>6, <1>7, <2>1, <3>1, <3>2 DEF OnList, InHand
  <2> QED  BY <1>2, <1>6, <2>1, <2>2, <2>3 DEF Once
<1> QED  BY <1>1, <1>10, <1>11, <1>12, <1>13 DEF SInv

\* Dropping a reference changes no status: only a group without any is freed.
LEMMA DerefStatus ==
  ASSUME SInv, NEW p \in Procs, DropChildren(p) \/ Leave(p)
  PROVE  SInv'
<1>1. IInv'
  BY DropStep, LeaveStep DEF SInv
<1>2. PICK h \in Groups :
        /\ grp' = [grp EXCEPT ![h] = DerefGrp(@)]
        /\ MayDeref(grp[h])
  <2>1. DerefAsserts
    BY InvDeref DEF SInv
  <2>2. p \in Groups /\ (Leave(p) => par[p] \in Groups)
    BY DEF Groups, Leave, SInv, IInv, Lineage
  <2> QED  BY <2>1, <2>2 DEF DerefAsserts, DropChildren, Leave
<1>3. /\ UNCHANGED <<threads, par, waitVars>>
      /\ phase[p] \in {"drop", "leave"}
      /\ phase[p] = "drop" => phase' = [phase EXCEPT ![p] = "look"]
      /\ phase[p] = "leave" => phase' = [phase EXCEPT ![p] = "gone"]
  BY DEF DropChildren, Leave
<1>4. \A x \in Procs : Ended(x)' <=> Ended(x)
  BY <1>3 DEF Ended, SInv, IInv, TypeOK
<1>5. \A g \in Groups : grp[g] \in GrpType
  BY DEF SInv, IInv, TypeOK
<1>6. /\ DerefGrp(grp[h]).stat = grp[h].stat
      /\ DerefGrp(grp[h]).sema = grp[h].sema \/ DerefGrp(grp[h]).sema = NewSema(0)
      /\ DerefGrp(grp[h]).parent => grp[h].parent
  <2>1. CASE grp[h].refs = 1
    BY <1>2, <2>1 DEF MayDeref, DerefGrp, FreeGrp
  <2>2. CASE grp[h].refs # 1
    BY <1>5, <2>2 DEF DerefGrp, GrpType
  <2> QED  BY <2>1, <2>2
<1>7. \A g \in Groups : grp'[g] = IF g = h THEN DerefGrp(grp[h]) ELSE grp[g]
  BY <1>2 DEF SInv, IInv, TypeOK
<1>8. \A g \in Groups : /\ grp'[g].stat = grp[g].stat
                        /\ grp'[g].parent => grp[g].parent
                        /\ grp'[g].sema = grp[g].sema \/ grp'[g].sema = NewSema(0)
  BY <1>6, <1>7
<1>9. UNCHANGED <<par, got, collected>>
  BY <1>3 DEF waitVars
<1>10. Posters' /\ Once'
  BY <1>4, <1>8, <1>9, StatusesStay
<1>11. SemasOK'
  <2>1. QueueDistinct(NewSema(0)) /\ CountIsQueue(NewSema(0))
    BY NewSemaOK
  <2> QED  BY <1>8, <2>1 DEF SInv, SemasOK
<1>12. Waiting'
  <2>1. NewSema(0).q = << >>
    BY DEF NewSema
  <2>2. \A t \in Threads : pc[t] # "out" => t[2] \in threads'[P(t)]
    BY <1>3 DEF SInv, Waiting
  <2>3. \A g \in Groups : grp'[g].sema = grp[g].sema \/ grp'[g].sema.q = << >>
    BY <1>8, <2>1
  <2> QED  BY <1>3, <2>2, <2>3, WaitersStay
<1> QED  BY <1>1, <1>10, <1>11, <1>12 DEF SInv

\* The unlocked look: a child whose parent has gone leaves no status.
LEMMA LookStatus ==
  ASSUME SInv, NEW p \in Procs, Look(p)
  PROVE  SInv'
<1>1. IInv'
  BY LookStep DEF SInv
<1>2. /\ phase[p] = "look"
      /\ \A x \in Procs : x # p => phase'[x] = phase[x]
      /\ phase'[p] \in {"post", "leave"}
      /\ phase'[p] = "leave" => ~grp[par[p]].parent
      /\ UNCHANGED <<threads, par, grp, waitVars>>
  BY DEF Look, SInv, IInv, TypeOK
<1>3. UNCHANGED <<pc, intr, got, collected>>
  BY <1>2 DEF waitVars
<1>4. \A x \in Procs : Ended(x) => Ended(x)'
  BY <1>2 DEF Ended
<1>5. Waiting' /\ SemasOK'
  BY <1>2, <1>3 DEF SInv, Waiting, SemasOK, E
<1>6. Posters'
  <2>1. \A g \in Groups, q \in Procs : (OnList(g, q) => par[q] = g /\ Ended(q))'
    BY <1>2, <1>4 DEF SInv, Posters, OnList
  <2> QED  BY <1>2, <1>3, <1>4, <2>1, PostersStay
<1>7. Once'
  <2>1. \A x \in Procs : x # p => (Ended(x)' <=> Ended(x))
    BY <1>2 DEF Ended
  <2>2. /\ \A q, x \in Procs : OnList(q, x)' <=> OnList(q, x)
        /\ \A q, x \in Procs : InHand(q, x)' <=> InHand(q, x)
    BY <1>2, <1>3 DEF OnList, InHand
  <2>3. grp[par[p]].parent => (Ended(p)' <=> Ended(p))
    BY <1>2 DEF Ended
  <2> QED  BY <1>2, <1>3, <2>1, <2>2, <2>3 DEF SInv, Once
<1> QED  BY <1>1, <1>5, <1>6, <1>7 DEF SInv

\* Threads come and go outside of waits() only.
LEMMA ThreadStatus ==
  ASSUME SInv, NEW t \in Threads,
         ThreadExit(t) \/ \E i \in Tids : ForkThread(t, i)
  PROVE  SInv'
<1>1. IInv'
  BY ThreadStep DEF SInv
<1>2. UNCHANGED <<phase, par, grp, waitVars>> /\ UNCHANGED <<par, got, collected>>
  BY DEF ThreadExit, ForkThread, waitVars
<1>3. Posters' /\ Once'
  BY <1>2, StatusesStay DEF Ended
<1>4. SemasOK'
  BY <1>2, SemasStay
<1>5. \A u \in Threads : pc[u] # "out" => u[2] \in threads'[P(u)]
  <2>1. \A u \in Threads : u[2] \in threads[P(u)] /\ u # t => u[2] \in threads'[P(u)]
    BY DEF Threads, ThreadExit, ForkThread, SInv, IInv, TypeOK
  <2>2. pc[t] = "out"
    BY DEF ThreadExit, ForkThread, Runs
  <2> QED  BY <2>1, <2>2 DEF SInv, Waiting
<1>6. Waiting'
  BY <1>2, <1>5, WaitersStay
<1> QED  BY <1>1, <1>3, <1>4, <1>6 DEF SInv

\* The last thread of a process leaves nobody in waits(), and its group no
\* statuses.
LEMMA NoParentStatus ==
  ASSUME SInv, NEW t \in Threads, NoParent(t)
  PROVE  SInv'
<1>1. IInv'
  BY NoParentStep DEF SInv
<1>2. P(t) \in Procs /\ P(t) \in Groups
  BY DEF Threads, Groups
<1>3. /\ UNCHANGED <<par, waitVars>> /\ UNCHANGED <<pc, got, collected>>
      /\ \A x \in Procs : x # P(t) => phase'[x] = phase[x] /\ threads'[x] = threads[x]
      /\ phase'[P(t)] = "drop" /\ phase[P(t)] = "lives"
  BY <1>2 DEF NoParent, Runs, waitVars, SInv, IInv, TypeOK, Lineage
<1>4. \A x \in Procs : Ended(x)' <=> Ended(x)
  BY <1>3 DEF Ended
<1>5. grp[P(t)] \in GrpType /\ grp' = [grp EXCEPT ![P(t)] = Orphan(@)]
  BY <1>2 DEF NoParent, SInv, IInv, TypeOK
<1>6. /\ Orphan(grp[P(t)]).stat = << >>
      /\ Orphan(grp[P(t)]).sema = grp[P(t)].sema
      /\ Orphan(grp[P(t)]).parent = FALSE
  BY <1>5 DEF Orphan, GrpType
<1>7. \A g \in Groups :
        /\ grp'[g].sema = grp[g].sema
        /\ grp'[g].stat = IF g = P(t) THEN << >> ELSE grp[g].stat
        /\ grp'[g].parent => g # P(t) /\ grp[g].parent
  BY <1>2, <1>5, <1>6 DEF SInv, IInv, TypeOK
<1>8. SemasOK'
  BY <1>7, SemasStay
<1>9. Waiting'
  <2>1. \A u \in Threads : pc[u] # "out" => P(u) # P(t)
    BY DEF SInv, Waiting, NoParent, Runs, Threads
  <2>2. \A u \in Threads : P(u) \in Procs
    BY DEF Threads
  <2>3. \A u \in Threads : pc[u] # "out" => u[2] \in threads'[P(u)]
    BY <1>3, <2>1, <2>2 DEF SInv, Waiting
  <2> QED  BY <1>3, <1>7, <2>3, WaitersStay
<1>10. \A g \in Groups, x \in Procs : OnList(g, x)' <=> OnList(g, x) /\ g # P(t)
  BY <1>7 DEF OnList, Contains
<1>11. Posters'
  <2>1. \A g \in Groups, q \in Procs : (OnList(g, q) => par[q] = g /\ Ended(q))'
    BY <1>3, <1>4, <1>10 DEF SInv, Posters
  <2> QED  BY <1>2, <1>3, <1>4, <2>1, PostersStay
<1>12. Once'
  <2>1. \A p, x \in Procs : InHand(p, x)' <=> InHand(p, x)
    BY <1>3 DEF InHand
  <2>2. \A p \in Procs : p \in Groups
    BY DEF Groups
  <2>3. \A p \in Procs : grp'[p].parent => p # P(t) /\ grp[p].parent /\ grp'[p].stat = grp[p].stat
    BY <1>7, <2>2
  <2> QED  BY <1>3, <1>4, <1>10, <2>1, <2>2, <2>3 DEF SInv, Once
<1> QED  BY <1>1, <1>8, <1>9, <1>11, <1>12 DEF SInv

\* post_exitgrp() puts a status on the list as it ends, and there is none of
\* this child anywhere else.
LEMMA PostStatus ==
  ASSUME SInv, NEW p \in Procs, Post(p)
  PROVE  SInv'
<1>1. IInv'
  BY PostStep DEF SInv
<1>2. PICK h \in Groups : h = par[p]
  BY DEF Post, SInv, IInv, Lineage
<1>3. /\ UNCHANGED <<threads, par, waitVars>> /\ UNCHANGED <<pc, got, collected>>
      /\ \A x \in Procs : x # p => phase'[x] = phase[x]
      /\ phase[p] = "post" /\ phase'[p] = "leave"
  BY DEF Post, waitVars, SInv, IInv, TypeOK
<1>4. /\ \A x \in Procs : x # p => (Ended(x)' <=> Ended(x))
      /\ Ended(p)' /\ ~Ended(p)
  BY <1>3 DEF Ended
<1>5. grp[h] \in GrpType /\ grp[h].stat \in Seq(Procs) /\ grp[h].sema \in SemaType(Threads)
  BY DEF SInv, IInv, TypeOK, GrpType
<1>6. \A g \in Groups : grp'[g] = IF g = h THEN Posted(grp[h], p) ELSE grp[g]
  BY <1>2 DEF Post, SInv, IInv, TypeOK
<1>7. CASE ~grp[h].parent
  <2>1. \A g \in Groups : grp'[g] = grp[g]
    BY <1>6, <1>7 DEF Posted
  <2>2. Waiting'
    BY <1>3, <2>1, WaitersStay DEF SInv, Waiting
  <2>3. SemasOK'
    BY <2>1, SemasStay
  <2>4. Posters'
    <3>1. \A g \in Groups, q \in Procs : (OnList(g, q) => par[q] = g /\ Ended(q))'
      BY <1>3, <1>4, <2>1 DEF SInv, Posters, OnList
    <3> QED  BY <1>2, <1>3, <1>4, <3>1, PostersStay
  <2>5. Once'
    <3>1. \A q, x \in Procs : InHand(q, x)' <=> InHand(q, x)
      BY <1>3 DEF InHand
    <3>2. \A q \in Procs : q \in Groups
      BY DEF Groups
    <3>3. \A q, x \in Procs : OnList(q, x)' <=> OnList(q, x)
      BY <2>1, <3>2 DEF OnList
    <3> QED  BY <1>2, <1>3, <1>4, <1>7, <2>1, <3>1, <3>2, <3>3 DEF SInv, Once
  <2> QED  BY <1>1, <2>2, <2>3, <2>4, <2>5 DEF SInv
<1>8. CASE grp[h].parent
  <2>1. /\ Posted(grp[h], p).stat = <<p>> \o grp[h].stat
        /\ Posted(grp[h], p).sema = VSema(grp[h].sema)
        /\ Posted(grp[h], p).parent
    BY <1>5, <1>8 DEF Posted, GrpType
  <2>2. /\ \A q \in Procs : ~Contains(grp[h].stat, p)
        /\ \A u \in Threads : got[u] # p
        /\ p \notin collected
    BY <1>4, ExitGrpAssumption DEF SInv, Posters, OnList
  <2>3. \A g \in Groups, q \in Procs : OnList(g, q)' <=> OnList(g, q) \/ (g = h /\ q = p)
    <3>1. \A q \in Procs : Contains(<<p>> \o grp[h].stat, q) <=> Contains(grp[h].stat, q) \/ q = p
      BY <1>5, ListSteps
    <3> QED  BY <1>6, <2>1, <3>1 DEF OnList
  <2>4. /\ \A u \in Threads : Queued(VSema(grp[h].sema), u) => Queued(grp[h].sema, u)
        /\ QueueDistinct(VSema(grp[h].sema)) /\ CountIsQueue(VSema(grp[h].sema))
    <3>1. CountIsQueue(grp[h].sema) /\ QueueDistinct(grp[h].sema)
      BY DEF SInv, SemasOK
    <3>2. CASE grp[h].sema.q = << >>
      BY <1>5, <3>1, <3>2, GiveFreeOK
    <3>3. CASE grp[h].sema.q # << >>
      BY <1>5, <3>1, <3>3, GiveOK
    <3> QED  BY <3>2, <3>3
  <2>5. SemasOK'
    BY <1>6, <2>1, <2>4 DEF SInv, SemasOK
  <2>6. Waiting'
    <3>1. \A u \in Threads : P(u) \in Groups
      BY DEF Threads, Groups
    <3>2. \A u \in Threads : Queued(E(u).sema, u)' => Queued(E(u).sema, u)
      BY <1>6, <2>1, <2>4, <3>1 DEF E
    <3> QED  BY <1>3, <3>2 DEF SInv, Waiting, waitVars
  <2>7. Posters'
    <3>1. \A g \in Groups, q \in Procs : (OnList(g, q) => par[q] = g /\ Ended(q))'
      BY <1>2, <1>3, <1>4, <2>3 DEF SInv, Posters
    <3> QED  BY <1>2, <1>3, <1>4, <3>1, PostersStay
  <2>8. Once'
    <3>1. \A q, x \in Procs : InHand(q, x)' <=> InHand(q, x)
      BY <1>3 DEF InHand
    <3>2. \A q \in Procs : q \in Groups
      BY DEF Groups
    <3>3. \A q \in Procs : grp'[q].parent => grp[q].parent
      BY <1>6, <1>8, <3>2
    <3>4. \A q \in Procs : grp[q].parent => IsInjective(grp[q].stat)
      BY DEF SInv, Once
    <3>5. \A q \in Procs : grp'[q].parent => IsInjective(grp'[q].stat)
      <4>1. IsInjective(grp[h].stat) => IsInjective(<<p>> \o grp[h].stat)
        BY <1>5, <2>2, ListSteps
      <4> QED  BY <1>6, <2>1, <3>2, <3>3, <3>4, <4>1
    <3>6. \A q \in Procs : ~InHand(q, p)
      BY <2>2 DEF InHand, Threads
    <3> QED  BY <1>2, <1>3, <1>4, <2>2, <2>3, <3>1, <3>2, <3>3, <3>5, <3>6 DEF SInv, Once
  <2> QED  BY <1>1, <2>5, <2>6, <2>7, <2>8 DEF SInv
<1> QED  BY <1>7, <1>8

\* A step of waits() on the semaphore of its group: the statuses stay, and a
\* thread queued there sleeps.
LEMMA SemaStatus ==
  ASSUME SInv, NEW t \in Threads, WaitSleep(t) \/ Settle(t) \/ Signal(t)
  PROVE  SInv'
<1> DEFINE s == E(t).sema
           n == IF Signal(t) THEN Cunsleep(s, t) ELSE PSema(s, t)
<1>1. IInv'
  BY WaitStep DEF SInv, WaitRuns
<1>0. Signal(t) => ~WaitSleep(t) /\ ~Settle(t)
  BY DEF Signal, WaitSleep, Settle, Runs
<1>2. /\ P(t) \in Groups /\ grp[P(t)] \in GrpType /\ s \in SemaType(Threads)
      /\ CountIsQueue(s) /\ QueueDistinct(s)
  BY DEF Threads, Groups, E, SInv, IInv, TypeOK, SemasOK, GrpType
<1>3. pc[t] \in {"out", "taken"} => ~Queued(s, t)
  BY DEF SInv, Waiting
<1>4. grp' = [grp EXCEPT ![P(t)].sema = n]
  <2>1. CASE Signal(t)
    BY <2>1 DEF Signal, E
  <2>2. CASE ~Signal(t)
    BY <2>2 DEF WaitSleep, Settle, Settled, E
  <2> QED  BY <2>1, <2>2
<1>5. /\ CountIsQueue(n) /\ QueueDistinct(n)
      /\ Signal(t) => \A u \in Threads : Queued(n, u) <=> Queued(s, u) /\ u # t
      /\ WaitSleep(t) \/ Settle(t) =>
           \A u \in Threads : Queued(n, u) => Queued(s, u) \/ u = t
  <2>1. CASE Signal(t)
    <3>1. Queued(s, t)
      BY <2>1 DEF Signal
    <3> QED  BY <1>0, <1>2, <2>1, <3>1, CunsleepOK
  <2>2. CASE ~Signal(t)
    <3>1. ~Queued(s, t)
      BY <1>3, <2>2 DEF WaitSleep, Settle, Runs
    <3>2. CASE Free(s)
      BY <1>2, <2>2, <3>2, TakeOK
    <3>3. CASE ~Free(s)
      BY <1>2, <2>2, <3>1, <3>3, WaitOK
    <3> QED  BY <3>2, <3>3
  <2> QED  BY <2>1, <2>2
<1>6. \A g \in Groups : /\ grp'[g].stat = grp[g].stat /\ grp'[g].parent = grp[g].parent
                        /\ grp'[g].sema = IF g = P(t) THEN n ELSE grp[g].sema
  BY <1>2, <1>4 DEF SInv, IInv, TypeOK, GrpType
<1>7. UNCHANGED <<phase, threads, par, got, collected>>
  BY DEF WaitSleep, Settle, Signal, procVars
<1>8. Posters' /\ Once'
  BY <1>6, <1>7, StatusesStay DEF Ended
<1>9. SemasOK'
  BY <1>5, <1>6 DEF SInv, SemasOK
<1>10. Waiting'
  <2>1. ASSUME NEW u \in Threads, u # t
        PROVE  /\ pc'[u] = pc[u] /\ intr'[u] = intr[u] /\ got'[u] = got[u]
               /\ Queued(E(u).sema, u)' => Queued(E(u).sema, u)
    <3>1. P(u) \in Groups
      BY DEF Threads, Groups
    <3>2. E(u)'.sema = IF P(u) = P(t) THEN n ELSE E(u).sema
      BY <1>6, <3>1 DEF E
    <3> QED  BY <1>5, <1>7, <2>1, <3>2 DEF E, WaitSleep, Settle, Signal, SInv, IInv, TypeOK
  <2>2. /\ pc'[t] # "out" => t[2] \in threads'[P(t)]
        /\ got'[t] # Null => pc'[t] \in {"taken", "settle"}
    BY <1>7 DEF SInv, Waiting, WaitSleep, Settle, Signal, Runs, IInv, TypeOK
  <2>3. Queued(E(t).sema, t)' => pc'[t] = "settle" \/ (pc'[t] = "asleep" /\ ~intr'[t])
    <3>1. CASE Signal(t)
      BY <1>2, <1>5, <1>6, <3>1 DEF E
    <3>2. CASE WaitSleep(t) \/ Settle(t)
      BY <3>2 DEF WaitSleep, Settle, SInv, IInv, TypeOK
    <3> QED  BY <3>1, <3>2
  <2> QED  BY <1>7, <2>1, <2>2, <2>3 DEF SInv, Waiting
<1> QED  BY <1>1, <1>8, <1>9, <1>10 DEF SInv

\* A step of waits() that leaves the semaphores alone, and whose thread is not
\* queued on one, keeps Waiting if it does not forget a status.
LEMMA WaiterMoves ==
  ASSUME SInv, NEW t \in Threads, UNCHANGED <<threads, intr>>,
         \A g \in Groups : grp'[g].sema = grp[g].sema,
         \A u \in Threads : u # t => pc'[u] = pc[u] /\ got'[u] = got[u],
         pc'[t] \in {"out", "taken"}, t[2] \in threads[P(t)],
         ~Queued(E(t).sema, t),
         got'[t] # Null => pc'[t] = "taken"
  PROVE  Waiting' /\ SemasOK'
<1>1. \A u \in Threads : P(u) \in Groups
  BY DEF Threads, Groups
<1>2. \A u \in Threads : Queued(E(u).sema, u)' <=> Queued(E(u).sema, u)
  BY <1>1 DEF E
<1>3. Waiting'
  BY <1>2 DEF SInv, Waiting
<1> QED  BY <1>3, SemasStay

\* Taking the first status off the list; t is the thread that takes it.
LEMMA TakeStatus ==
  ASSUME SInv, NEW t \in Threads, WaitTake(t) \/ WaitWoken(t)
  PROVE  SInv'
<1> DEFINE l == grp[P(t)].stat
<1>1. IInv'
  BY WaitStep DEF SInv, WaitRuns
<1>2. /\ P(t) \in Groups /\ P(t) \in Procs /\ grp[P(t)] \in GrpType /\ l \in Seq(Procs)
      /\ l # << >> /\ grp[P(t)].parent
  BY DEF Threads, Groups, SInv, IInv, TypeOK, GrpType, Parents, WaitTake, WaitWoken, E
<1>3. \A g \in Groups : /\ grp'[g].parent = grp[g].parent /\ grp'[g].sema = grp[g].sema
                        /\ grp'[g].stat = IF g = P(t) THEN Tail(l) ELSE grp[g].stat
  <2>1. grp' = [grp EXCEPT ![P(t)].stat = Tail(l)]
    BY <1>2 DEF WaitTake, WaitWoken, Rest
  <2> QED  BY <1>2, <2>1 DEF SInv, IInv, TypeOK, GrpType
<1>4. PICK h \in Procs :
      /\ h = Head(l)
      /\ IsInjective(l) /\ IsInjective(Tail(l)) /\ Contains(l, h)
      /\ \A q \in Procs : Contains(Tail(l), q) <=> Contains(l, q) /\ q # h
  <2>1. IsInjective(l)
    BY <1>2 DEF SInv, Once
  <2> QED  BY <1>2, <2>1, TailQueue
<1>5. \A g \in Groups, q \in Procs :
        OnList(g, q)' <=> OnList(g, q) /\ ~(g = P(t) /\ q = h)
  BY <1>3, <1>4 DEF OnList
<1>6. /\ OnList(P(t), h) /\ par[h] = P(t) /\ Ended(h)
      /\ ~InHand(P(t), h) /\ h \notin collected /\ \A u \in Threads : got[u] # h
  <2>1. OnList(P(t), h)
    BY <1>4 DEF OnList
  <2>2. par[h] = P(t) /\ Ended(h)
    BY <1>2, <1>4, <2>1 DEF SInv, Posters
  <2>3. ~InHand(P(t), h) /\ h \notin collected
    BY <1>2, <1>4, <2>1 DEF SInv, Once
  <2>4. ASSUME NEW u \in Threads, got[u] = h
        PROVE  FALSE
    <3>1. P(u) = P(t)
      BY <1>4, <2>2, <2>4, ExitGrpAssumption DEF SInv, Posters
    <3>2. u = <<P(t), u[2]>> /\ u[2] \in Tids
      BY <3>1 DEF Threads
    <3> QED  BY <2>3, <2>4, <3>2 DEF InHand
  <2> QED  BY <2>1, <2>2, <2>3, <2>4
<1>7. /\ UNCHANGED <<phase, threads, par, intr>>
      /\ \A u \in Threads : u # t => pc'[u] = pc[u] /\ got'[u] = got[u]
      /\ got[t] = Null
      /\ WaitTake(t) => got'[t] = h /\ pc'[t] = "taken" /\ collected' = collected
      /\ WaitWoken(t) => got'[t] = Null /\ pc'[t] = "out" /\ collected' = collected \cup {h}
  BY <1>4 DEF WaitTake, WaitWoken, Runs, HasUnit, E, procVars, SInv, Waiting, IInv, TypeOK
<1>8. Waiting' /\ SemasOK'
  <2>1. t[2] \in threads[P(t)] /\ ~Queued(E(t).sema, t)
    BY DEF WaitTake, WaitWoken, Runs, HasUnit, SInv, Waiting
  <2> QED  BY <1>3, <1>7, <2>1, WaiterMoves
<1>9. \A q \in Procs : Ended(q)' <=> Ended(q)
  BY <1>7 DEF Ended
<1>10. Posters'
  <2>1. \A g \in Groups, q \in Procs : (OnList(g, q) => par[q] = g /\ Ended(q))'
    BY <1>5, <1>7, <1>9 DEF SInv, Posters
  <2>2. \A u \in Threads : got[u] # Null => par[got[u]] = P(u) /\ Ended(got[u])
    BY DEF SInv, Posters
  <2>3. \A u \in Threads : (got[u] # Null => par[got[u]] = P(u) /\ Ended(got[u]))'
    <3>1. got'[t] # Null => got'[t] = h
      BY <1>7
    <3>2. \A u \in Threads : u # t => got'[u] = got[u]
      BY <1>7
    <3> QED  BY <1>6, <1>7, <2>2, <3>1, <3>2 DEF Ended
  <2>4. \A q \in collected' : Ended(q)'
    BY <1>6, <1>7 DEF SInv, Posters, Ended
  <2>5. \A u, v \in Threads : (got[u] # Null /\ got[u] = got[v] => u = v)'
    <3>1. \A u, v \in Threads : got[u] # Null /\ got[u] = got[v] => u = v
      BY DEF SInv, Posters
    <3> QED  BY <1>6, <1>7, <3>1
  <2> QED  BY <2>1, <2>3, <2>4, <2>5 DEF Posters
<1>11. Once'
  <2>1. \A p, q \in Procs : InHand(p, q)' <=> InHand(p, q) \/ (WaitTake(t) /\ p = P(t) /\ q = h)
    <3>1. \A p \in Procs, i \in Tids : <<p, i>> \in Threads
      BY DEF Threads
    <3>2. t = <<P(t), t[2]>> /\ t[2] \in Tids
      BY DEF Threads
    <3>3. \A q \in Procs : got[t] # q
      BY <1>7, ExitGrpAssumption
    <3>4. ASSUME NEW p \in Procs, NEW i \in Tids
          PROVE  got'[<<p, i>>] = got[<<p, i>>] \/ <<p, i>> = t
      <4>1. PICK u \in Threads : u = <<p, i>>
        BY <3>1
      <4>2. got'[u] = got[u] \/ u = t
        BY <1>7
      <4> QED  BY <4>1, <4>2
    <3>5. ASSUME NEW p \in Procs, NEW q \in Procs, InHand(p, q)
          PROVE  InHand(p, q)'
      BY <3>3, <3>4, <3>5 DEF InHand
    <3>6. ASSUME NEW p \in Procs, NEW q \in Procs, InHand(p, q)'
          PROVE  InHand(p, q) \/ (WaitTake(t) /\ p = P(t) /\ q = h)
      <4>1. PICK i \in Tids : got'[<<p, i>>] = q
        BY <3>6 DEF InHand
      <4>2. CASE <<p, i>> = t
        <5>1. p = P(t) /\ got'[t] = q /\ q # Null
          BY <4>1, <4>2, ExitGrpAssumption
        <5> QED  BY <1>7, <5>1
      <4> QED  BY <3>4, <4>1, <4>2 DEF InHand
    <3>7. ASSUME WaitTake(t)
          PROVE  InHand(P(t), h)'
      <4>1. got'[t] = h
        BY <1>7, <3>7
      <4>2. got'[<<P(t), t[2]>>] = h /\ t[2] \in Tids
        BY <3>2, <4>1
      <4> QED  BY <4>2 DEF InHand
    <3> QED  BY <3>5, <3>6, <3>7
  <2>2. \A q \in Procs : q \in collected' <=> q \in collected \/ (WaitWoken(t) /\ q = h)
    BY <1>7, <2>1 DEF WaitTake, WaitWoken, Runs, HasUnit
  <2>3. \A p \in Procs : p \in Groups
    BY DEF Groups
  <2>4. \A p \in Procs : grp'[p].parent => grp[p].parent /\ IsInjective(grp'[p].stat)
    BY <1>3, <1>4, <2>3 DEF SInv, Once
  <2>5. WaitTake(t) => ~WaitWoken(t)
    BY DEF WaitTake, WaitWoken, Runs, HasUnit
  <2>6. \A p \in Procs : p # P(t) => ~OnList(p, h) /\ ~InHand(p, h)
    BY <1>4, <1>6, <2>3 DEF SInv, Posters, InHand, Threads
  <2>7. \A p, q \in Procs : grp[p].parent =>
          /\ ~(OnList(p, q) /\ (InHand(p, q) \/ q \in collected))
          /\ ~(InHand(p, q) /\ q \in collected)
          /\ par[q] = p => (Ended(q) <=> OnList(p, q) \/ InHand(p, q) \/ q \in collected)
    BY DEF SInv, Once
  <2>8. \A p, q \in Procs : OnList(p, q)' <=> OnList(p, q) /\ ~(p = P(t) /\ q = h)
    BY <1>5, <2>3
  <2> QED  BY <1>6, <1>7, <1>9, <2>1, <2>2, <2>4, <2>5, <2>6, <2>7, <2>8 DEF Once
<1> QED  BY <1>1, <1>8, <1>10, <1>11 DEF SInv

\* waits() returns the status a thread held; it is nowhere else.
LEMMA ReturnStatus ==
  ASSUME SInv, NEW t \in Threads, SettleDone(t)
  PROVE  SInv'
<1>1. IInv'
  BY WaitStep DEF SInv, WaitRuns
<1>2. PICK h \in Procs : h = got[t]
  BY DEF SettleDone, SInv, IInv, Holders, TypeOK
<1>3. /\ UNCHANGED <<phase, threads, par, grp, intr>>
      /\ \A u \in Threads : u # t => pc'[u] = pc[u] /\ got'[u] = got[u]
      /\ got'[t] = Null /\ pc'[t] = "out" /\ collected' = collected \cup {h}
      /\ P(t) \in Procs /\ t = <<P(t), t[2]>> /\ t[2] \in Tids
  BY <1>2 DEF SettleDone, procVars, SInv, IInv, TypeOK, Threads
<1>4. h # Null
  BY ExitGrpAssumption
<1>5. /\ par[h] = P(t) /\ Ended(h)
      /\ \A u \in Threads : u # t => got[u] # h
  BY <1>2, <1>4 DEF SInv, Posters
<1>6. Waiting' /\ SemasOK'
  <2>1. t[2] \in threads[P(t)] /\ ~Queued(E(t).sema, t)
    BY DEF SettleDone, SInv, Waiting
  <2> QED  BY <1>3, <2>1, WaiterMoves
<1>7. /\ \A q \in Procs : Ended(q)' <=> Ended(q)
      /\ \A g \in Groups, q \in Procs : OnList(g, q)' <=> OnList(g, q)
  BY <1>3 DEF Ended, OnList
<1>8. Posters'
  <2>1. \A g \in Groups, q \in Procs : (OnList(g, q) => par[q] = g /\ Ended(q))'
    BY <1>3, <1>7 DEF SInv, Posters
  <2>2. \A u \in Threads : got[u] # Null => par[got[u]] = P(u) /\ Ended(got[u])
    BY DEF SInv, Posters
  <2>3. \A u \in Threads : (got[u] # Null => par[got[u]] = P(u) /\ Ended(got[u]))'
    BY <1>3, <2>2 DEF Ended
  <2>4. \A q \in collected' : Ended(q)'
    BY <1>3, <1>5 DEF SInv, Posters, Ended
  <2>5. \A u, v \in Threads : (got[u] # Null /\ got[u] = got[v] => u = v)'
    BY <1>3 DEF SInv, Posters
  <2> QED  BY <2>1, <2>3, <2>4, <2>5 DEF Posters
<1>9. \A p, q \in Procs : InHand(p, q)' <=> InHand(p, q) /\ ~(p = P(t) /\ q = h)
  <2>1. ASSUME NEW p \in Procs, NEW i \in Tids
        PROVE  IF <<p, i>> = t THEN got[<<p, i>>] = h /\ got'[<<p, i>>] = Null
               ELSE got'[<<p, i>>] = got[<<p, i>>] /\ got[<<p, i>>] # h
    <3>1. PICK u \in Threads : u = <<p, i>>
      BY DEF Threads
    <3>2. IF u = t THEN got[u] = h /\ got'[u] = Null
                   ELSE got'[u] = got[u] /\ got[u] # h
      BY <1>2, <1>3, <1>5
    <3> QED  BY <3>1, <3>2
  <2>2. ASSUME NEW p \in Procs, NEW q \in Procs, InHand(p, q)'
        PROVE  InHand(p, q) /\ ~(p = P(t) /\ q = h)
    <3>1. PICK i \in Tids : got'[<<p, i>>] = q
      BY <2>2 DEF InHand
    <3>2. q # Null
      BY ExitGrpAssumption
    <3>3. got[<<p, i>>] = q /\ q # h
      BY <2>1, <3>1, <3>2
    <3> QED  BY <3>3 DEF InHand
  <2>3. ASSUME NEW p \in Procs, NEW q \in Procs, InHand(p, q), ~(p = P(t) /\ q = h)
        PROVE  InHand(p, q)'
    <3>1. PICK i \in Tids : got[<<p, i>>] = q
      BY <2>3 DEF InHand
    <3>2. <<p, i>> # t
      BY <1>2, <2>3, <3>1
    <3>3. got'[<<p, i>>] = q
      BY <2>1, <3>1, <3>2
    <3> QED  BY <3>3 DEF InHand
  <2> QED  BY <2>2, <2>3
<1>10. Once'
  <2>1. \A p \in Procs : p \in Groups
    BY DEF Groups
  <2>2. \A p \in Procs : p # P(t) => ~OnList(p, h) /\ ~InHand(p, h)
    BY <1>4, <1>5, <2>1 DEF SInv, Posters, InHand, Threads
  <2>3. InHand(P(t), h)
    BY <1>2, <1>3 DEF InHand
  <2>4. \A p, q \in Procs : grp[p].parent =>
          /\ IsInjective(grp[p].stat)
          /\ ~(OnList(p, q) /\ (InHand(p, q) \/ q \in collected))
          /\ ~(InHand(p, q) /\ q \in collected)
          /\ par[q] = p => (Ended(q) <=> OnList(p, q) \/ InHand(p, q) \/ q \in collected)
    BY DEF SInv, Once
  <2>5. ASSUME NEW p \in Procs, NEW q \in Procs, grp[p].parent
        PROVE  /\ ~(OnList(p, q)' /\ (InHand(p, q)' \/ q \in collected'))
               /\ ~(InHand(p, q)' /\ q \in collected')
               /\ par[q] = p =>
                    (Ended(q)' <=> OnList(p, q)' \/ InHand(p, q)' \/ q \in collected')
    <3>1. OnList(p, q)' <=> OnList(p, q)
      BY <1>7, <2>1
    <3>2. CASE q = h /\ p = P(t)
      BY <1>3, <1>7, <1>9, <2>3, <2>4, <2>5, <3>1, <3>2
    <3>3. CASE q = h /\ p # P(t)
      BY <1>3, <1>5, <1>9, <2>2, <3>1, <3>3
    <3>4. CASE q # h
      BY <1>3, <1>7, <1>9, <2>4, <2>5, <3>1, <3>4
    <3> QED  BY <3>2, <3>3, <3>4
  <2> QED  BY <1>3, <2>4, <2>5 DEF Once
<1> QED  BY <1>1, <1>6, <1>8, <1>10 DEF SInv

\* A sleep that an event has ended, and one that finds an empty list.
LEMMA BrokenStatus ==
  ASSUME SInv, NEW t \in Threads, WaitBroken(t) \/ WaitNothing(t)
  PROVE  SInv'
<1>1. IInv'
  BY WaitStep DEF SInv, WaitRuns
<1>2. UNCHANGED <<phase, threads, par, grp, intr, got, collected>>
  BY DEF WaitBroken, WaitNothing, procVars
<1>3. Posters' /\ Once'
  BY <1>2, StatusesStay DEF Ended
<1>4. Waiting' /\ SemasOK'
  <2>1. CASE WaitBroken(t)
    <3>1. t[2] \in threads[P(t)] /\ ~Queued(E(t).sema, t) /\ got[t] = Null
      BY <2>1 DEF WaitBroken, SInv, Waiting
    <3>2. pc'[t] = "out" /\ \A u \in Threads : u # t => pc'[u] = pc[u]
      BY <2>1 DEF WaitBroken, SInv, IInv, TypeOK
    <3> QED  BY <1>2, <3>1, <3>2, WaiterMoves
  <2>2. CASE WaitNothing(t)
    BY <1>2, <2>2 DEF WaitNothing, SInv, Waiting, SemasOK, E
  <2> QED  BY <2>1, <2>2
<1> QED  BY <1>1, <1>3, <1>4 DEF SInv

LEMMA SInvStep == SInv /\ [Next]_vars => SInv'
<1> SUFFICES ASSUME SInv, [Next]_vars
             PROVE  SInv'
  OBVIOUS
<1>1. ASSUME NEW p \in Procs, ExitRuns(p)
      PROVE  SInv'
  BY <1>1, DerefStatus, LookStatus, PostStatus DEF ExitRuns
<1>2. ASSUME NEW t \in Threads,
             \/ \E q \in Procs : Fork(t, q)
             \/ ThreadExit(t) \/ \E i \in Tids : ForkThread(t, i)
             \/ NoParent(t)
      PROVE  SInv'
  BY <1>2, ForkStatus, ThreadStatus, NoParentStatus
<1>3. ASSUME NEW t \in Threads,
             WaitTake(t) \/ WaitSleep(t) \/ WaitRuns(t) \/ Signal(t)
      PROVE  SInv'
  BY <1>3, TakeStatus, SemaStatus, ReturnStatus, BrokenStatus DEF WaitRuns
<1>4. ASSUME UNCHANGED vars
      PROVE  SInv'
  <2>1. IInv'
    BY <1>4, IInvStep DEF SInv
  <2>2. UNCHANGED <<phase, threads, par, grp, pc, intr, got, collected>>
    BY <1>4 DEF vars
  <2>3. Posters' /\ Once'
    BY <2>2, StatusesStay DEF Ended
  <2> QED  BY <2>1, <2>2, <2>3 DEF SInv, Waiting, SemasOK, E
<1> QED  BY <1>1, <1>2, <1>3, <1>4 DEF Next

LEMMA SInvInit == Init => SInv
<1> SUFFICES ASSUME Init
             PROVE  SInv
  OBVIOUS
<1>1. IInv
  BY IInvInit
<1>2. \A g \in Groups : grp[g].stat = << >> /\ grp[g].sema = NewSema(0)
  BY DEF Init, NewGrp, RootGrp, FreeGrp
<1>3. SemasOK
  BY <1>2, NewSemaOK DEF SemasOK
<1>4. Waiting
  <2>1. NewSema(0).q = << >>
    BY DEF NewSema
  <2>2. \A t \in Threads : P(t) \in Groups
    BY DEF Threads, Groups
  <2>3. \A t \in Threads : ~Queued(E(t).sema, t)
    BY <1>2, <2>1, <2>2 DEF E, Queued, Contains
  <2> QED  BY <2>3 DEF Init, Waiting
<1>5. /\ \A g \in Groups, q \in Procs : ~OnList(g, q)
      /\ \A p, q \in Procs : ~InHand(p, q)
      /\ \A q \in Procs : ~Ended(q) /\ q \notin collected
  <2>1. \A g \in Groups, q \in Procs : ~OnList(g, q)
    BY <1>2 DEF OnList, Contains
  <2>2. \A p, q \in Procs : ~InHand(p, q)
    <3>1. \A t \in Threads : got[t] = Null
      BY DEF Init
    <3> QED  BY <3>1, ExitGrpAssumption DEF InHand, Threads
  <2>3. \A q \in Procs : ~Ended(q) /\ q \notin collected
    BY DEF Ended, Init
  <2> QED  BY <2>1, <2>2, <2>3
<1>6. Posters
  BY <1>5 DEF Posters, Init
<1>7. Once
  <2>1. IsInjective(<< >>)
    BY DEF IsInjective
  <2>2. \A p \in Procs : p \in Groups
    BY DEF Groups
  <2> QED  BY <1>2, <1>5, <2>1, <2>2 DEF Once
<1> QED  BY <1>1, <1>3, <1>4, <1>6, <1>7 DEF SInv

\* While a parent lives, the status of each child that has come to the end of
\* post_exitgrp() is on the list, held by one thread in waits(), or returned:
\* none is lost and none returned twice, however the threads of the parent
\* race for them and events break their sleeps.
THEOREM StatusesOnce == Spec => []StatusOnce
<1>1. SInv => StatusOnce
  BY OnceIsStatusOnce DEF SInv, IInv
<1> QED  BY <1>1, SInvInit, SInvStep, PTL DEF Spec

-----------------------------------------------------------------------------
(* The units of e_sema.                                                    *)

Taken(p)  == {i \in Tids : pc[<<p, i>>] = "taken"}
Asleep(p) == {i \in Tids : pc[<<p, i>>] = "asleep" /\ ~intr[<<p, i>>]}

\* The units that a thread adds to those of the list: it has taken a status
\* and still owes p_sema() for it, or it sleeps for one.
Owes(k, broken) == IF k = "taken" THEN 1
                   ELSE IF k = "asleep" /\ ~broken THEN -1 ELSE 0

\* The semaphore of p counts its statuses and what its threads owe.
UnitsOf(p) ==
  grp[p].sema.cnt = Len(grp[p].stat) + Cardinality(Taken(p)) - Cardinality(Asleep(p))

LEMMA UnitsOfEach == UnitPerStatus <=> \A p \in Procs : grp[p].parent => UnitsOf(p)
BY DEF UnitPerStatus, UnitsOf, Taken, Asleep

\* Counting threads.
LEMMA TidCount ==
  ASSUME NEW A \in SUBSET Tids
  PROVE  /\ Cardinality(A) \in Nat
         /\ \A x \in Tids \ A : Cardinality(A \cup {x}) = Cardinality(A) + 1
         /\ \A x \in A : Cardinality(A \ {x}) = Cardinality(A) - 1
<1>1. IsFiniteSet(A)
  BY ExitGrpAssumption, FS_Subset
<1> QED  BY <1>1, FS_CardinalityType, FS_AddElement, FS_RemoveElement

\* A set of threads that differs in one of them at most.
LEMMA OneTid ==
  ASSUME NEW A \in SUBSET Tids, NEW B \in SUBSET Tids, NEW i \in Tids,
         \A j \in Tids : j # i => (j \in A <=> j \in B)
  PROVE  /\ Cardinality(A) \in Nat /\ Cardinality(B) \in Nat
         /\ Cardinality(B) = Cardinality(A) + (IF i \in B THEN 1 ELSE 0)
                                            - (IF i \in A THEN 1 ELSE 0)
<1>1. Cardinality(A) \in Nat /\ Cardinality(B) \in Nat
  BY TidCount
<1>2. CASE i \in A <=> i \in B
  <2>1. A = B
    BY <1>2
  <2> QED  BY <1>1, <1>2, <2>1
<1>3. CASE i \in B /\ i \notin A
  <2>1. B = A \cup {i}
    BY <1>3
  <2> QED  BY <1>1, <1>3, <2>1, TidCount
<1>4. CASE i \notin B /\ i \in A
  <2>1. B = A \ {i}
    BY <1>4
  <2> QED  BY <1>1, <1>4, <2>1, TidCount
<1> QED  BY <1>2, <1>3, <1>4

\* One thread of p moves, and the list and the count of p make up for it.
LEMMA UnitsMove ==
  ASSUME TypeOK, TypeOK', UnitPerStatus, NEW t \in Threads,
         \A u \in Threads : u # t => pc'[u] = pc[u] /\ intr'[u] = intr[u],
         \A g \in Groups : g # P(t) => grp'[g] = grp[g],
         grp'[P(t)].parent => grp[P(t)].parent,
         grp'[P(t)].sema.cnt - Len(grp'[P(t)].stat) - Owes(pc'[t], intr'[t])
           = grp[P(t)].sema.cnt - Len(grp[P(t)].stat) - Owes(pc[t], intr[t])
  PROVE  UnitPerStatus'
<1> DEFINE p == P(t)
           i == t[2]
<1>1. p \in Procs /\ i \in Tids /\ t = <<p, i>> /\ p \in Groups
  BY DEF Threads, Groups
<1>2. \A q \in Procs, j \in Tids : <<q, j>> # t =>
        /\ pc'[<<q, j>>] = pc[<<q, j>>] /\ intr'[<<q, j>>] = intr[<<q, j>>]
  <2> SUFFICES ASSUME NEW q \in Procs, NEW j \in Tids, <<q, j>> # t
               PROVE  /\ pc'[<<q, j>>] = pc[<<q, j>>]
                      /\ intr'[<<q, j>>] = intr[<<q, j>>]
    OBVIOUS
  <2>1. PICK u \in Threads : u = <<q, j>>
    BY DEF Threads
  <2> QED  BY <2>1
<1>3. ASSUME NEW q \in Procs, q # p, grp'[q].parent
      PROVE  UnitsOf(q)'
  <2>1. Taken(q)' = Taken(q) /\ Asleep(q)' = Asleep(q)
    BY <1>1, <1>2, <1>3 DEF Taken, Asleep
  <2>2. q \in Groups
    BY DEF Groups
  <2> QED  BY <1>3, <2>1, <2>2, UnitsOfEach DEF UnitsOf
<1>4. ASSUME grp'[p].parent
      PROVE  UnitsOf(p)'
  <2>1. PICK A \in SUBSET Tids : A = Taken(p)
    BY DEF Taken
  <2>2. PICK B \in SUBSET Tids : B = Taken(p)'
    BY DEF Taken
  <2>3. PICK C \in SUBSET Tids : C = Asleep(p)
    BY DEF Asleep
  <2>4. PICK D \in SUBSET Tids : D = Asleep(p)'
    BY DEF Asleep
  <2>5. \A j \in Tids : j # i => (j \in A <=> j \in B) /\ (j \in C <=> j \in D)
    BY <1>1, <1>2, <2>1, <2>2, <2>3, <2>4 DEF Taken, Asleep
  <2>6. /\ i \in A <=> pc[t] = "taken"
        /\ i \in B <=> pc'[t] = "taken"
        /\ i \in C <=> pc[t] = "asleep" /\ ~intr[t]
        /\ i \in D <=> pc'[t] = "asleep" /\ ~intr'[t]
    BY <1>1, <2>1, <2>2, <2>3, <2>4 DEF Taken, Asleep
  <2>7. PICK a \in {0, 1}, b \in {0, 1}, c \in {0, 1}, d \in {0, 1} :
          /\ a = IF i \in A THEN 1 ELSE 0
          /\ b = IF i \in B THEN 1 ELSE 0
          /\ c = IF i \in C THEN 1 ELSE 0
          /\ d = IF i \in D THEN 1 ELSE 0
    OBVIOUS
  <2>8. Owes(pc[t], intr[t]) = a - c /\ Owes(pc'[t], intr'[t]) = b - d
    BY <2>6, <2>7 DEF Owes
  <2>9. /\ Cardinality(A) \in Nat /\ Cardinality(B) \in Nat
        /\ Cardinality(C) \in Nat /\ Cardinality(D) \in Nat
        /\ Cardinality(B) = Cardinality(A) + b - a
        /\ Cardinality(D) = Cardinality(C) + d - c
    BY <1>1, <2>5, <2>7, OneTid
  <2>10. /\ grp[p].sema.cnt \in Int /\ grp'[p].sema.cnt \in Int
         /\ Len(grp[p].stat) \in Nat /\ Len(grp'[p].stat) \in Nat
    <3>1. grp[p] \in GrpType /\ grp'[p] \in GrpType
      BY <1>1 DEF TypeOK
    <3> QED  BY <3>1 DEF GrpType, SemaType
  <2>11. PICK n \in Int, m \in Int, l \in Nat, k \in Nat :
          /\ n = grp[p].sema.cnt /\ m = grp'[p].sema.cnt
          /\ l = Len(grp[p].stat) /\ k = Len(grp'[p].stat)
    BY <2>10
  <2>12. n = l + Cardinality(A) - Cardinality(C)
    BY <1>1, <1>4, <2>1, <2>3, <2>11, UnitsOfEach DEF UnitsOf
  <2>13. m - k - (b - d) = n - l - (a - c)
    BY <2>8, <2>11
  <2>14. m = k + Cardinality(B) - Cardinality(D)
    <3>1. PICK x \in Int, y \in Int, z \in Int, w \in Int :
            x = Cardinality(A) /\ y = Cardinality(B) /\ z = Cardinality(C) /\ w = Cardinality(D)
      BY <2>9
    <3>2. y = x + b - a /\ w = z + d - c /\ n = l + x - z
      BY <2>9, <2>12, <3>1, Zenon
    <3>3. m = k + y - w
      BY <2>13, <3>2
    <3> QED  BY <3>1, <3>3, Zenon
  <2> QED  BY <2>2, <2>4, <2>11, <2>14 DEF UnitsOf
<1>5. \A q \in Procs : (grp[q].parent => UnitsOf(q))'
  BY <1>3, <1>4
<1> QED  BY <1>5 DEF UnitPerStatus, UnitsOf, Taken, Asleep

\* A step that moves no thread in waits() and adds a unit for each status.
LEMMA UnitsStay ==
  ASSUME UnitPerStatus, UNCHANGED <<pc, intr>>,
         \A p \in Procs : grp'[p].parent =>
           /\ grp[p].parent
           /\ \/ grp'[p].sema = grp[p].sema /\ grp'[p].stat = grp[p].stat
              \/ grp'[p].sema.cnt - Len(grp'[p].stat) = grp[p].sema.cnt - Len(grp[p].stat)
                 /\ TypeOK /\ TypeOK'
  PROVE  UnitPerStatus'
<1> SUFFICES ASSUME NEW p \in Procs, grp'[p].parent
             PROVE  UnitsOf(p)'
  BY DEF UnitPerStatus, UnitsOf, Taken, Asleep
<1>1. Taken(p)' = Taken(p) /\ Asleep(p)' = Asleep(p) /\ UnitsOf(p)
  BY UnitsOfEach DEF Taken, Asleep
<1>2. CASE grp'[p].sema = grp[p].sema /\ grp'[p].stat = grp[p].stat
  BY <1>1, <1>2 DEF UnitsOf
<1>3. CASE /\ grp'[p].sema.cnt - Len(grp'[p].stat) = grp[p].sema.cnt - Len(grp[p].stat)
           /\ TypeOK /\ TypeOK'
  <2>1. grp[p] \in GrpType /\ grp'[p] \in GrpType
    BY <1>3 DEF TypeOK, Groups
  <2>2. PICK A \in SUBSET Tids, B \in SUBSET Tids : A = Taken(p) /\ B = Asleep(p)
    BY DEF Taken, Asleep
  <2>3. Cardinality(A) \in Nat /\ Cardinality(B) \in Nat
    BY TidCount
  <2>4. PICK n \in Int, m \in Int, l \in Nat, k \in Nat :
          /\ n = grp[p].sema.cnt /\ m = grp'[p].sema.cnt
          /\ l = Len(grp[p].stat) /\ k = Len(grp'[p].stat)
    BY <2>1 DEF GrpType, SemaType
  <2>5. n = l + Cardinality(A) - Cardinality(B) /\ m - k = n - l
    BY <1>1, <1>3, <2>2, <2>4 DEF UnitsOf
  <2>6. m = k + Cardinality(A) - Cardinality(B)
    BY <2>3, <2>5
  <2> QED  BY <1>1, <2>2, <2>4, <2>6 DEF UnitsOf
<1> QED  BY <1>2, <1>3

\* The semaphore operations move the count by one.
LEMMA CountMoves ==
  ASSUME NEW s \in SemaType(Threads), NEW t \in Threads
  PROVE  /\ s.cnt \in Int
         /\ PSema(s, t).cnt = s.cnt - 1
         /\ VSema(s).cnt = s.cnt + 1
         /\ Cunsleep(s, t).cnt = s.cnt + 1
BY DEF SemaType, PSema, VSema, Cunsleep

LEMMA ForkUnits ==
  ASSUME SInv, UnitPerStatus, NEW t \in Threads, NEW q \in Procs, Fork(t, q)
  PROVE  UnitPerStatus'
<1>1. /\ UNCHANGED <<pc, intr>>
      /\ \A g \in Groups : grp'[g] = IF g = q THEN NewGrp
                                     ELSE IF g = P(t) THEN RefGrp(grp[P(t)]) ELSE grp[g]
  BY DEF Fork, waitVars, SInv, IInv, TypeOK, Groups, Threads
<1>2. \A g \in Groups : grp[g] \in GrpType
  BY DEF SInv, IInv, TypeOK
<1>3. P(t) \in Groups
  BY DEF Groups, Threads
<1>4. ASSUME NEW p \in Procs, p # q, grp'[p].parent
      PROVE  UnitsOf(p)'
  <2>1. p \in Groups
    BY DEF Groups
  <2>2. /\ grp'[p].sema = grp[p].sema /\ grp'[p].stat = grp[p].stat
        /\ grp'[p].parent = grp[p].parent
    <3>1. \A e \in GrpType : /\ RefGrp(e).sema = e.sema /\ RefGrp(e).stat = e.stat
                            /\ RefGrp(e).parent = e.parent
      BY DEF RefGrp, GrpType
    <3>2. grp'[p] = grp[p] \/ (grp'[p] = RefGrp(grp[p]) /\ grp[p] \in GrpType)
      BY <1>1, <1>2, <1>3, <1>4, <2>1
    <3> QED  BY <3>1, <3>2
  <2>3. Taken(p)' = Taken(p) /\ Asleep(p)' = Asleep(p)
    BY <1>1 DEF Taken, Asleep
  <2> QED  BY <1>4, <2>2, <2>3, UnitsOfEach DEF UnitsOf
<1>5. UnitsOf(q)'
  <2>1. q \in Groups /\ phase[q] = "none"
    BY DEF Groups, Fork
  <2>2. \A i \in Tids : <<q, i>> \in Threads
    BY DEF Threads
  <2>3. \A i \in Tids : pc[<<q, i>>] = "out"
    BY <2>1, <2>2, NothingYet
  <2>4. Taken(q)' = {} /\ Asleep(q)' = {}
    BY <1>1, <2>3 DEF Taken, Asleep
  <2>5. grp'[q].sema.cnt = 0 /\ Len(grp'[q].stat) = 0
    BY <1>1, <2>1 DEF NewGrp, NewSema
  <2> QED  BY <2>4, <2>5, FS_EmptySet DEF UnitsOf
<1>6. \A p \in Procs : (grp[p].parent => UnitsOf(p))'
  BY <1>4, <1>5
<1> QED  BY <1>6 DEF UnitPerStatus, UnitsOf, Taken, Asleep

\* Every step of do_exit(): a status that is posted brings its unit.
LEMMA ExitUnits ==
  ASSUME SInv, UnitPerStatus, NEW p \in Procs, ExitRuns(p)
  PROVE  UnitPerStatus'
<1>1. TypeOK /\ TypeOK' /\ UNCHANGED <<pc, intr>>
  <2>1. UNCHANGED waitVars
    BY DEF ExitRuns, DropChildren, Look, Post, Leave
  <2>2. IInv'
    BY DropStep, LookStep, PostStep, LeaveStep DEF ExitRuns, SInv
  <2> QED  BY <2>1, <2>2 DEF SInv, IInv, waitVars
<1>2. PICK h : h = par[p]
  OBVIOUS
<1>3. \A q \in Procs : q \in Groups /\ grp[q] \in GrpType
  BY <1>1 DEF TypeOK, Groups
<1>4. \A q \in Procs : \/ grp'[q] = grp[q] \/ grp'[q] = DerefGrp(grp[q])
                       \/ grp'[q] = Posted(grp[q], p)
  BY <1>1, <1>3 DEF ExitRuns, DropChildren, Look, Post, Leave, TypeOK
<1>5. ASSUME NEW q \in Procs, grp'[q].parent
      PROVE  /\ grp[q].parent
             /\ \/ grp'[q].sema = grp[q].sema /\ grp'[q].stat = grp[q].stat
                \/ grp'[q].sema.cnt - Len(grp'[q].stat) = grp[q].sema.cnt - Len(grp[q].stat)
  <2>1. CASE grp'[q] = grp[q]
    BY <1>5, <2>1
  <2>2. CASE grp'[q] = DerefGrp(grp[q])
    BY <1>3, <1>5, <2>2 DEF DerefGrp, FreeGrp, GrpType
  <2>3. CASE grp'[q] = Posted(grp[q], p)
    <3>1. CASE ~grp[q].parent
      BY <2>1, <2>3, <3>1 DEF Posted
    <3>2. CASE grp[q].parent
      <4>1. grp[q].sema \in SemaType(Threads) /\ grp[q].stat \in Seq(Procs)
        BY <1>3 DEF GrpType
      <4>2. /\ grp'[q].sema = VSema(grp[q].sema)
            /\ grp'[q].stat = <<p>> \o grp[q].stat
        BY <1>3, <2>3, <3>2 DEF Posted, GrpType
      <4>3. PICK n \in Int, l \in Nat : n = grp[q].sema.cnt /\ l = Len(grp[q].stat)
        BY <4>1 DEF SemaType
      <4>4. grp'[q].sema.cnt = n + 1
        BY <4>1, <4>2, <4>3 DEF VSema, SemaType
      <4>5. Len(grp'[q].stat) = l + 1
        BY <4>1, <4>2, <4>3, ListSteps
      <4>6. grp'[q].sema.cnt - Len(grp'[q].stat) = grp[q].sema.cnt - Len(grp[q].stat)
        <5>1. (n + 1) - (l + 1) = n - l
          OBVIOUS
        <5> QED  BY <4>3, <4>4, <4>5, <5>1, Zenon
      <4> QED  BY <3>2, <4>6
    <3> QED  BY <3>1, <3>2
  <2> QED  BY <1>4, <2>1, <2>2, <2>3
<1> QED  BY <1>1, <1>5, UnitsStay

\* The other steps of the threads in do_exit() and fork_thread().
LEMMA ThreadUnits ==
  ASSUME SInv, UnitPerStatus, NEW t \in Threads,
         ThreadExit(t) \/ NoParent(t) \/ \E i \in Tids : ForkThread(t, i)
  PROVE  UnitPerStatus'
<1>1. UNCHANGED <<pc, intr>>
  BY DEF ThreadExit, NoParent, ForkThread, waitVars
<1>2. ASSUME NEW p \in Procs, grp'[p].parent
      PROVE  /\ grp[p].parent
             /\ grp'[p].sema = grp[p].sema /\ grp'[p].stat = grp[p].stat
  <2>1. p \in Groups /\ P(t) \in Groups /\ grp[P(t)] \in GrpType
    BY DEF Groups, Threads, SInv, IInv, TypeOK
  <2>2. grp'[p] = grp[p] \/ (grp'[p] = Orphan(grp[p]) /\ grp[p] \in GrpType)
    BY <2>1 DEF ThreadExit, NoParent, ForkThread, SInv, IInv, TypeOK
  <2>3. grp'[p] = grp[p]
    BY <1>2, <2>2 DEF Orphan, GrpType
  <2> QED  BY <1>2, <2>3
<1> QED  BY <1>1, <1>2, UnitsStay

\* The operations of waits() on e_sema.
LEMMA SemaUnits ==
  ASSUME SInv, UnitPerStatus, NEW t \in Threads,
         WaitSleep(t) \/ Settle(t) \/ Signal(t)
  PROVE  UnitPerStatus'
<1>1. TypeOK /\ TypeOK'
  BY SemaStatus DEF SInv, IInv
<1>2. P(t) \in Groups /\ grp[P(t)] \in GrpType /\ E(t).sema \in SemaType(Threads)
  BY <1>1 DEF TypeOK, Groups, Threads, GrpType, E
<1>3. PICK n \in Int, l \in Nat : n = E(t).sema.cnt /\ l = Len(E(t).stat)
  BY <1>2 DEF E, GrpType, SemaType
<1>4. /\ PSema(E(t).sema, t).cnt = n - 1
      /\ Cunsleep(E(t).sema, t).cnt = n + 1
  BY <1>2, <1>3, CountMoves
<1>5. /\ \A g \in Groups : g # P(t) => grp'[g] = grp[g]
      /\ grp'[P(t)].parent = grp[P(t)].parent
      /\ grp'[P(t)].stat = grp[P(t)].stat
      /\ WaitSleep(t) \/ Settle(t) => grp'[P(t)].sema = PSema(E(t).sema, t)
      /\ Signal(t) => grp'[P(t)].sema = Cunsleep(E(t).sema, t)
  BY <1>1, <1>2 DEF WaitSleep, Settle, Settled, Signal, E, TypeOK, GrpType
<1>6. \A u \in Threads : u # t => pc'[u] = pc[u] /\ intr'[u] = intr[u]
  BY <1>1 DEF WaitSleep, Settle, Signal, TypeOK
<1>7. /\ WaitSleep(t) => /\ Owes(pc[t], intr[t]) = 0 /\ Owes(pc'[t], intr'[t]) = -1
      /\ Settle(t) => /\ Owes(pc[t], intr[t]) = 1 /\ Owes(pc'[t], intr'[t]) = 0
      /\ Signal(t) => /\ Owes(pc[t], intr[t]) = -1 /\ Owes(pc'[t], intr'[t]) = 0
  <2>1. Queued(E(t).sema, t) /\ pc[t] = "asleep" => ~intr[t]
    BY DEF SInv, Waiting
  <2> QED  BY <1>1, <2>1 DEF WaitSleep, Settle, Signal, Runs, Owes, TypeOK
<1>8. Len(grp'[P(t)].stat) = l /\ n = grp[P(t)].sema.cnt /\ l = Len(grp[P(t)].stat)
  BY <1>3, <1>5 DEF E
<1>9. grp'[P(t)].sema.cnt - Len(grp'[P(t)].stat) - Owes(pc'[t], intr'[t])
        = grp[P(t)].sema.cnt - Len(grp[P(t)].stat) - Owes(pc[t], intr[t])
  <2>1. /\ (n - 1) - l - (-1) = n - l - 0
        /\ (n - 1) - l - 0 = n - l - 1
        /\ (n + 1) - l - 0 = n - l - (-1)
    OBVIOUS
  <2>2. /\ WaitSleep(t) \/ Settle(t) => grp'[P(t)].sema.cnt = n - 1
        /\ Signal(t) => grp'[P(t)].sema.cnt = n + 1
    BY <1>4, <1>5
  <2> QED  BY <1>7, <1>8, <2>1, <2>2, Zenon
<1> QED  BY <1>1, <1>5, <1>6, <1>9, UnitsMove

\* The other steps of waits(): a status that leaves the list takes along the
\* unit that its thread slept for, or leaves it to settle.
LEMMA ListUnits ==
  ASSUME SInv, UnitPerStatus, NEW t \in Threads,
         \/ WaitTake(t) \/ SettleDone(t) \/ WaitWoken(t)
         \/ WaitNothing(t) \/ WaitBroken(t)
  PROVE  UnitPerStatus'
<1>1. TypeOK /\ TypeOK'
  BY WaitStep DEF SInv, IInv, WaitRuns
<1>2. P(t) \in Groups /\ grp[P(t)] \in GrpType /\ E(t) = grp[P(t)]
  BY <1>1 DEF TypeOK, Groups, Threads, E
<1>3. PICK n \in Int, l \in Nat : n = grp[P(t)].sema.cnt /\ l = Len(grp[P(t)].stat)
  BY <1>2 DEF GrpType, SemaType
<1>4. grp[P(t)].stat # << >> => Len(Rest(grp[P(t)].stat)) = l - 1
  BY <1>2, <1>3 DEF Rest, GrpType
<1>5. /\ \A g \in Groups : g # P(t) => grp'[g] = grp[g]
      /\ grp'[P(t)].parent = grp[P(t)].parent
      /\ grp'[P(t)].sema = grp[P(t)].sema
      /\ WaitTake(t) \/ WaitWoken(t) => grp'[P(t)].stat = Rest(grp[P(t)].stat)
      /\ SettleDone(t) \/ WaitNothing(t) \/ WaitBroken(t) => grp'[P(t)].stat = grp[P(t)].stat
  <2>1. CASE WaitTake(t) \/ WaitWoken(t)
    <3>1. /\ grp' = [grp EXCEPT ![P(t)].stat = Rest(@)]
          /\ ~SettleDone(t) /\ ~WaitNothing(t) /\ ~WaitBroken(t)
      BY <1>2, <2>1 DEF WaitTake, WaitWoken, SettleDone, WaitNothing, WaitBroken, HasUnit, Runs
    <3> QED  BY <1>1, <1>2, <3>1 DEF TypeOK, GrpType
  <2>2. CASE SettleDone(t) \/ WaitNothing(t) \/ WaitBroken(t)
    <3>1. grp' = grp /\ ~WaitTake(t) /\ ~WaitWoken(t)
      BY <1>2, <2>2 DEF WaitTake, WaitWoken, SettleDone, WaitNothing, WaitBroken, HasUnit, Runs
    <3> QED  BY <3>1
  <2> QED  BY <2>1, <2>2
<1>6. \A u \in Threads : u # t => pc'[u] = pc[u] /\ intr'[u] = intr[u]
  BY <1>1 DEF WaitTake, SettleDone, WaitWoken, WaitNothing, WaitBroken, TypeOK
<1>7. /\ WaitTake(t) => /\ Owes(pc[t], intr[t]) = 0 /\ Owes(pc'[t], intr'[t]) = 1
                        /\ grp[P(t)].stat # << >>
      /\ WaitWoken(t) => /\ Owes(pc[t], intr[t]) = -1 /\ Owes(pc'[t], intr'[t]) = 0
                         /\ grp[P(t)].stat # << >>
      /\ SettleDone(t) \/ WaitNothing(t) \/ WaitBroken(t) =>
           Owes(pc'[t], intr'[t]) = Owes(pc[t], intr[t]) /\ Owes(pc[t], intr[t]) \in Int
  BY <1>1, <1>2 DEF WaitTake, SettleDone, WaitWoken, WaitNothing, WaitBroken, HasUnit,
                    Runs, Owes, TypeOK
<1>8. grp'[P(t)].sema.cnt - Len(grp'[P(t)].stat) - Owes(pc'[t], intr'[t])
        = grp[P(t)].sema.cnt - Len(grp[P(t)].stat) - Owes(pc[t], intr[t])
  <2>1. CASE WaitTake(t) \/ WaitWoken(t)
    <3>1. grp'[P(t)].sema.cnt = n /\ Len(grp'[P(t)].stat) = l - 1
      BY <1>3, <1>4, <1>5, <1>7, <2>1
    <3>2. n - (l - 1) - 1 = n - l - 0 /\ n - (l - 1) - 0 = n - l - (-1)
      OBVIOUS
    <3> QED  BY <1>3, <1>7, <2>1, <3>1, <3>2, Zenon
  <2>2. CASE SettleDone(t) \/ WaitNothing(t) \/ WaitBroken(t)
    BY <1>5, <1>7, <2>2
  <2> QED  BY <2>1, <2>2
<1> QED  BY <1>1, <1>5, <1>6, <1>8, UnitsMove

LEMMA UnitsStep == SInv /\ UnitPerStatus /\ [Next]_vars => UnitPerStatus'
<1> SUFFICES ASSUME SInv, UnitPerStatus, [Next]_vars
             PROVE  UnitPerStatus'
  OBVIOUS
<1>1. ASSUME NEW t \in Threads,
             WaitTake(t) \/ WaitSleep(t) \/ WaitRuns(t) \/ Signal(t)
      PROVE  UnitPerStatus'
  BY <1>1, SemaUnits, ListUnits DEF WaitRuns
<1>2. ASSUME UNCHANGED vars
      PROVE  UnitPerStatus'
  BY <1>2 DEF vars, UnitPerStatus
<1> QED  BY <1>1, <1>2, ExitUnits, ForkUnits, ThreadUnits DEF Next

LEMMA UnitsInit == Init => UnitPerStatus
<1> SUFFICES ASSUME Init, NEW p \in Procs
             PROVE  UnitsOf(p)
  BY UnitsOfEach
<1>1. p \in Groups /\ \A i \in Tids : <<p, i>> \in Threads
  BY DEF Groups, Threads
<1>2. Taken(p) = {} /\ Asleep(p) = {}
  BY <1>1 DEF Init, Taken, Asleep
<1>3. grp[p].sema.cnt = 0 /\ Len(grp[p].stat) = 0
  BY <1>1 DEF Init, NewGrp, RootGrp, FreeGrp, NewSema
<1> QED  BY <1>2, <1>3, FS_EmptySet DEF UnitsOf

\* e_sema has a unit for each status on the list of a living parent or just
\* taken off it, less those its sleepers have been given or still wait for:
\* wait_exitgrp() "keep[s] the sema count right" whichever way it gets a
\* status, and an event that ends a sleep takes no unit along.
THEOREM UnitsPerStatus == Spec => []UnitPerStatus
<1> DEFINE UInv == SInv /\ UnitPerStatus
<1>1. Init => UInv
  BY SInvInit, UnitsInit
<1>2. UInv /\ [Next]_vars => UInv'
  BY SInvStep, UnitsStep
<1>3. UInv => UnitPerStatus
  OBVIOUS
<1> QED  BY <1>1, <1>2, <1>3, PTL DEF Spec

=============================================================================
