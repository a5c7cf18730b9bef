---------------------------- MODULE Pages_proofs ----------------------------
(***************************************************************************)
(* Virtual memory while pageout() does not run (Troubles = {}): no page is *)
(* lost or freed twice, p_refs counts what it says it counts, no ASSERT of *)
(* faults, fork() and exit() fails, and what programs see is what was      *)
(* stored last.                                                            *)
(***************************************************************************)
EXTENDS Pages, FiniteSetTheorems, TLAPS

Pcs == {"none", "user", "dead", "lock", "master", "alloc", "core", "read", "got", "calloc", "ccore",
        "dlock", "clast", "drop", "flock", "falloc", "fcore", "attach", "link", "linked"}

Alive(t)   == Pc(t) \notin {"none", "dead"}
Leaving(t) == Pc(t) \in {"dlock", "clast", "drop"}
Filling(t) == Pc(t) \in {"alloc", "core", "read"}
Forking(t) == Pc(t) \in {"flock", "falloc", "fcore", "attach", "link", "linked"}
Linking(t) == Pc(t) \in {"link", "linked"}
Counted    == {"got", "calloc", "ccore"}
Working    == {"master", "alloc", "core", "read", "got", "calloc", "ccore", "falloc", "fcore", "clast"}
WithPage   == {"core", "read", "ccore", "fcore"}

\* The slots a thread holds.
Locked(t) == IF Pc(t) \notin Working THEN {}
             ELSE IF Filling(t) THEN {SetOf(t), thr[t].on} ELSE {SetOf(t)}
FillSet(s) == IF Kind[s] = "COW" THEN Master[s] ELSE s

HandRests == hand.pc = "scan" /\ hand.f = None /\ qio = << >>

SlotType == [v : BOOLEAN, cow : BOOLEAN, swapped : BOOLEAN, m : BOOLEAN, refs : Int,
             pfn : Frames \cup {None}, atl : SUBSET (Views \cup {Cache})]
ThrType  == [pc : Pcs, w : BOOLEAN, was : BOOLEAN, on : Sets \cup {None}, pg : Frames \cup {None}]
PteType  == [v : BOOLEAN, ro : BOOLEAN, m : BOOLEAN, pfn : Frames \cup {None}]
Types ==
  /\ thr \in [Users -> ThrType]
  /\ slot \in [Sets -> SlotType]
  /\ held \in [Sets -> Users \cup {None}]
  /\ prefs \in [Sets -> Int] /\ gone \subseteq Sets
  /\ pvalid \in [Views -> BOOLEAN]
  /\ pte \in [Views -> PteType]
  /\ free \subseteq Frames

\* What frames and swap blocks contain.
Data == mem \in [Frames -> Contents] /\ swap \in [Sets -> Contents] /\ latest \in [Sets -> Contents]

\* A thread holds the slots it works on, and no others.
LockOf(t) ==
  /\ \A x \in Sets : held[x] = t <=> x \in Locked(t)
  /\ Filling(t) => thr[t].on = FillSet(SetOf(t))
  /\ Pc(t) = "master" => Kind[SetOf(t)] = "COW"
  /\ thr[t].pg \in Frames <=> Pc(t) \in WithPage
LocksOK == \A t \in Users : LockOf(t)

\* fork() makes threads that are not yet, and who leaves leaves alone.
ThreadsOK ==
  /\ \A t \in Users : Forking(t) => Child[t] \in Users /\ Pc(Child[t]) = "none"
  /\ \A t \in Users : Pc(t) = "none" => t \notin Born
  /\ \A t, u \in Users : Leaving(t) /\ ViewOf[u] = ViewOf[t] /\ u # t => Pc(u) = "dead"

\* What the slot of a set can look like.
ShapeOf(s) ==
  /\ ~slot[s].swapped
  /\ slot[s].v => slot[s].pfn \in Frames
  /\ ~slot[s].v => ~slot[s].cow /\ slot[s].atl = {} /\ slot[s].refs = 0
  /\ slot[s].cow => Kind[s] = "COW" /\ Cache \notin slot[s].atl
  /\ Kind[s] = "FILE" /\ slot[s].v => slot[s].atl = {Cache}
ShapeOK == \A s \in Sets : ShapeOf(s)
\* The page that a COW slot shares is there.
MastersOK == \A s \in Sets : slot[s].cow => slot[Master[s]].v

\* What a thread knows of the slot it works on.
WorkOf(t) ==
  LET p == slot[SetOf(t)]  v == ViewOf[t] IN
  /\ Pc(t) = "master" \/ Filling(t) => ~p.v
  /\ Filling(t) => ~slot[thr[t].on].v
  /\ Pc(t) \notin Counted => ~thr[t].was
  /\ Pc(t) = "got" => /\ p.v
                      /\ ~thr[t].was => ~pvalid[v]
                      /\ thr[t].was /\ p.cow => pvalid[v]
  /\ Pc(t) \in {"calloc", "ccore"} => p.v /\ p.cow /\ ~pvalid[v]
  /\ Pc(t) \in {"falloc", "fcore"} => p.v /\ ~p.cow
  /\ Pc(t) = "flock" => p.v
  /\ Pc(t) \in {"flock", "falloc", "fcore"} => ~slot[NewSet(t)].v
  /\ Pc(t) = "clast" => p.v /\ p.cow /\ p.refs = 0 /\ p.atl = {}
  /\ Pc(t) = "dlock" => pvalid[v]
  /\ Pc(t) \in {"clast", "drop"} => ~pvalid[v]
  /\ Pc(t) = "drop" => ~p.cow
WorkOK == \A t \in Users : WorkOf(t)

\* Who shares a page of a master, who has counted it and not yet attached
\* it, and who has attached it and not yet counted it.
Sharing(m) == {s \in CowSets(m) : slot[s].cow}
Pend(s) == IF \E t \in Users : Pc(t) \in Counted /\ SetOf(t) = s THEN 1 ELSE 0
Owed(s) == IF \E t \in Users : Pc(t) = "linked" /\ NewSet(t) = s THEN 1 ELSE 0
Unused(s) == \E t \in Users : \/ Pc(t) = "clast" /\ SetOf(t) = s
                              \/ Forking(t) /\ NewSet(t) = s
RefsOf(s) ==
  /\ slot[s].refs >= 0
  /\ slot[s].v => slot[s].refs = Cardinality(slot[s].atl) + Cardinality(Sharing(s)) + Pend(s) - Owed(s)
  /\ slot[s].v => slot[s].refs > 0 \/ Unused(s)
RefsOK == \A s \in Sets : RefsOf(s)

\* A view is valid exactly if it is on the attach list of its set.
ValidOf(v) == pvalid[v] => /\ v \in slot[Of[v]].atl
                           /\ \E u \in Users : ViewOf[u] = v /\ Alive(u)
ListOf(s) == \A v \in slot[s].atl \ {Cache} :
               Of[v] = s /\ (pvalid[v] \/ \E t \in Users : Pc(t) = "linked" /\ NewView(t) = v)
LinkedOf(t) == Pc(t) = "linked" =>
                 /\ pte[NewView(t)].v <=> slot[NewSet(t)].v
                 /\ slot[NewSet(t)].v => NewView(t) \in slot[NewSet(t)].atl
UnbornOf(u) == Pc(u) = "none" /\ (\A t \in Users : Pc(t) = "linked" => Child[t] # u)
                 => ~pte[ViewOf[u]].v
ViewsOK == /\ \A v \in Views : ValidOf(v)
           /\ \A s \in Sets : ListOf(s)
           /\ \A t \in Users : LinkedOf(t) /\ UnbornOf(t)

\* p_refs counts the views of a set, and the sets of a master.
Attached(v) == \/ \E u \in Users : ViewOf[u] = v /\ Alive(u)
               \/ \E t \in Users : Linking(t) /\ NewView(t) = v
AttachedTo(s) == {v \in Views : Of[v] = s /\ Attached(v)}
Live(s) == AttachedTo(s) # {} \/ \E t \in Users : Forking(t) /\ NewSet(t) = s
LiveSets(m) == {s \in CowSets(m) : Live(s)}
LifeOf(s) ==
  /\ Kind[s] # "FILE" => prefs[s] = Cardinality(AttachedTo(s))
  /\ Kind[s] = "FILE" => prefs[s] = Cardinality(LiveSets(s))
  /\ Kind[s] # "FILE" /\ slot[s].v => Live(s)
  /\ s \in gone => /\ ~slot[s].v
                   /\ Kind[s] # "FILE" => ~Live(s) /\ \A u \in Users : SetOf(u) = s => Pc(u) # "none"
                   /\ Kind[s] = "FILE" => LiveSets(s) = {}
LifeOK == \A s \in Sets : LifeOf(s)

HasFrame(s, f) == slot[s].v /\ ~slot[s].cow /\ slot[s].pfn = f
FramesOK ==
  /\ \A f \in Frames : \/ f \in free
                       \/ \E s \in Sets : HasFrame(s, f)
                       \/ \E t \in Users : thr[t].pg = f
  /\ \A f \in free : (\A s \in Sets : ~HasFrame(s, f)) /\ \A t \in Users : thr[t].pg # f
  /\ \A f \in Frames, s \in Sets : HasFrame(s, f) => \A t \in Users : thr[t].pg # f
  /\ \A f \in Frames, s, x \in Sets : HasFrame(s, f) /\ HasFrame(x, f) => s = x
  /\ \A f \in Frames, t, u \in Users : thr[t].pg = f /\ thr[u].pg = f => t = u

Inv == /\ Types /\ Data /\ HandRests /\ panic = FALSE
       /\ LocksOK /\ ThreadsOK /\ ShapeOK /\ MastersOK /\ WorkOK
       /\ RefsOK /\ ViewsOK /\ LifeOK /\ FramesOK
-----------------------------------------------------------------------------
(* What the constants say.                                               *)

\* Sets, views and threads: what the constants say.
LEMMA Statics ==
  /\ \A t \in Users : SetOf(t) \in Sets /\ ViewOf[t] \in Views /\ SetOf(t) = Of[ViewOf[t]]
                      /\ Kind[SetOf(t)] # "FILE"
  /\ \A s \in Sets : Kind[s] \in {"ZERO", "FILE", "COW"}
  /\ \A s \in Sets : Kind[s] = "COW" => Master[s] \in Sets /\ Kind[Master[s]] = "FILE"
  /\ \A s \in Sets : Kind[s] # "FILE" => CowSets(s) = {}
  /\ \A t \in Users : FillSet(SetOf(t)) \in Sets
  /\ \A v, w \in Views : Of[v] = Of[w] /\ Kind[Of[v]] = "COW" => v = w
  /\ \A v \in Views : Of[v] \in Sets /\ Kind[Of[v]] # "FILE" /\ v # Cache
  /\ \A t \in Users : t # None /\ t \notin {"pageout", "io"}
  /\ None \notin Users /\ None \notin Frames /\ None \notin Sets
<1>1. PICK kind \in [Sets -> {"ZERO", "FILE", "COW"}] : kind = Kind
  BY PagesAssumption, Zenon
<1>2. \A s \in Sets : Kind[s] \in {"ZERO", "FILE", "COW"}
  BY <1>1
<1>3. /\ ViewOf \in [Users -> Views] /\ Of \in [Views -> Sets]
      /\ \A s \in Sets : Kind[s] = "COW" => Kind[Master[s]] = "FILE"
      /\ \A v, w \in Views : Of[v] = Of[w] /\ v # w => Kind[Of[v]] # "COW"
      /\ \A v \in Views : Kind[Of[v]] # "FILE"
  BY PagesAssumption, Zenon
<1>4. /\ None \notin Users /\ None \notin Frames /\ None \notin Sets /\ Cache \notin Views
      /\ \A s \in Sets : Kind[s] = "COW" => Master[s] \in Sets
      /\ \A t \in Users : t # None /\ t \notin {"pageout", "io"}
  BY NamesAssumption, SMT DEF Cache
<1>5. \A s \in Sets : Kind[s] # "FILE" => CowSets(s) = {}
  BY <1>3 DEF CowSets
<1> QED BY <1>2, <1>3, <1>4, <1>5 DEF SetOf, FillSet

\* The thread, the view and the set that fork() by t makes are its own.
LEMMA ForkStatics ==
  ASSUME NEW t \in Users, Child[t] # None
  PROVE  /\ Child[t] \in Users /\ NewView(t) \in Views /\ NewSet(t) \in Sets
         /\ NewView(t) = ViewOf[Child[t]] /\ NewSet(t) = Of[NewView(t)] /\ NewSet(t) = SetOf(Child[t])
         /\ Kind[NewSet(t)] = Kind[SetOf(t)] /\ Kind[NewSet(t)] # "FILE"
         /\ Kind[SetOf(t)] = "COW" => Master[NewSet(t)] = Master[SetOf(t)]
         /\ \A u \in Users : Child[u] = Child[t] => u = t
         /\ \A u \in Users : SetOf(u) = NewSet(t) => u = Child[t]
         /\ \A u \in Users : ViewOf[u] = NewView(t) => u = Child[t]
         /\ \A w \in Views : Of[w] = NewSet(t) => w = NewView(t)
         /\ \A w \in Views : Of[w] = SetOf(t) => w = ViewOf[t]
         /\ \A u \in Users : SetOf(u) = SetOf(t) => ViewOf[u] = ViewOf[t]
<1>1. Child[t] \in Users
  BY PagesAssumption, Zenon
<1>2. /\ \A u \in Users : Child[u] = Child[t] => u = t
      /\ \A u \in Users : ViewOf[u] = ViewOf[Child[t]] => u = Child[t]
      /\ \A w \in Views : (Of[w] = Of[ViewOf[Child[t]]] => w = ViewOf[Child[t]])
                          /\ (Of[w] = Of[ViewOf[t]] => w = ViewOf[t])
      /\ Kind[Of[ViewOf[Child[t]]]] = Kind[Of[ViewOf[t]]]
      /\ Kind[Of[ViewOf[t]]] = "COW" => Master[Of[ViewOf[Child[t]]]] = Master[Of[ViewOf[t]]]
  BY ForkAssumption, Zenon
<1> QED BY <1>1, <1>2, Statics, Zenon DEF NewView, NewSet, SetOf

LEMMA Forks2 ==
  ASSUME ThreadsOK, NEW t \in Users, Forking(t)
  PROVE  /\ Child[t] # None /\ Child[t] \in Users /\ Pc(Child[t]) = "none"
         /\ \A u \in Users : SetOf(u) = NewSet(t) \/ ViewOf[u] = NewView(t) => Pc(u) = "none"
         /\ \A u \in Users : Forking(u) /\ (NewSet(u) = NewSet(t) \/ NewView(u) = NewView(t)) => u = t
<1>1. Child[t] # None /\ Child[t] \in Users /\ Pc(Child[t]) = "none"
  BY Statics DEF ThreadsOK
<1>2. \A u \in Users : SetOf(u) = NewSet(t) \/ ViewOf[u] = NewView(t) => Pc(u) = "none"
  BY <1>1, ForkStatics
<1>3. ASSUME NEW u \in Users, Forking(u), NewSet(u) = NewSet(t) \/ NewView(u) = NewView(t)
      PROVE  u = t
  <2>1. Child[u] # None
    BY <1>3, Statics DEF ThreadsOK
  <2>2. NewView(u) = NewView(t)
    BY <1>3, <2>1, <1>1, ForkStatics
  <2>3. Child[u] = Child[t]
    BY <2>1, <2>2, <1>1, ForkStatics
  <2> QED BY <2>3, <1>1, ForkStatics
<1> QED BY <1>1, <1>2, <1>3

\* A thread that is not yet is the child of one thread, and alone in its set.
LEMMA Unborn ==
  ASSUME ThreadsOK, NEW u \in Users, Pc(u) = "none"
  PROVE  \E t \in Users : Child[t] = u /\ Child[t] # None
                          /\ \A w \in Users : SetOf(w) = SetOf(u) \/ ViewOf[w] = ViewOf[u] => w = u
<1>1. PICK t \in Users : Child[t] = u
  BY DEF ThreadsOK, Born
<1>2. Child[t] # None
  BY <1>1, Statics
<1> QED BY <1>1, <1>2, ForkStatics
-----------------------------------------------------------------------------
(* What a step leaves alone: locks, threads, counts, frames.             *)

\* What a step of t that leaves the other threads alone does not disturb.
LEMMA LocksFrame ==
  ASSUME Types, LocksOK, NEW t \in Users,
         \A u \in Users : u # t => thr'[u] = thr[u],
         \A x \in Sets : held'[x] = held[x] \/ (held[x] \in {t, None} /\ held'[x] \in {t, None}),
         LockOf(t)'
  PROVE  LocksOK'
<1> SUFFICES ASSUME NEW u \in Users, u # t PROVE LockOf(u)'
  BY DEF LocksOK
<1>1. LockOf(u) /\ thr'[u] = thr[u] /\ u # None
  BY Statics DEF LocksOK
<1>2. Pc(u)' = Pc(u) /\ (Filling(u)' <=> Filling(u)) /\ SetOf(u)' = SetOf(u)
  BY <1>1 DEF Pc, Filling, SetOf
<1>3. Locked(u)' = Locked(u)
  BY <1>1, <1>2 DEF Locked
<1>4. \A x \in Sets : held'[x] = u <=> held[x] = u
  BY <1>1
<1> QED BY <1>1, <1>2, <1>3, <1>4 DEF LockOf, FillSet

LEMMA ThreadsFrame ==
  ASSUME ThreadsOK, NEW t \in Users,
         \A u \in Users : u # t => thr'[u] = thr[u],
         Alive(t), Alive(t)', Forking(t)' => Forking(t), Leaving(t)' => Leaving(t)
  PROVE  ThreadsOK'
<1>1. \A u \in Users : u # t => /\ Pc(u)' = Pc(u) /\ (Forking(u)' <=> Forking(u))
                                /\ (Leaving(u)' <=> Leaving(u))
  BY DEF Pc, Forking, Leaving
<1>2. Pc(t) \notin {"none", "dead"} /\ Pc(t)' \notin {"none", "dead"}
  BY DEF Alive
<1>3. \A u \in Users : Forking(u)' => Child[u] \in Users /\ Pc(Child[u])' = "none"
  BY <1>1, <1>2 DEF ThreadsOK
<1>4. \A u \in Users : Pc(u)' = "none" => u \notin Born
  BY <1>1, <1>2 DEF ThreadsOK
<1>5. \A u, w \in Users : Leaving(u)' /\ ViewOf[w] = ViewOf[u] /\ w # u => Pc(w)' = "dead"
  BY <1>1, <1>2 DEF ThreadsOK
<1> QED BY <1>3, <1>4, <1>5 DEF ThreadsOK, Born

LEMMA LiveFrame ==
  ASSUME NEW t \in Users,
         \A u \in Users : u # t => thr'[u] = thr[u],
         Alive(t)' <=> Alive(t), Forking(t)' <=> Forking(t), Linking(t)' <=> Linking(t)
  PROVE  /\ \A v \in Views : Attached(v)' <=> Attached(v)
         /\ \A s \in Sets : AttachedTo(s)' = AttachedTo(s) /\ (Live(s)' <=> Live(s))
                            /\ LiveSets(s)' = LiveSets(s)
<1>1. \A u \in Users : (Alive(u)' <=> Alive(u)) /\ (Forking(u)' <=> Forking(u))
                       /\ (Linking(u)' <=> Linking(u)) /\ NewView(u)' = NewView(u)
                       /\ NewSet(u)' = NewSet(u)
  BY DEF Alive, Forking, Linking, Pc, NewView, NewSet
<1>2. \A v \in Views : Attached(v)' <=> Attached(v)
  BY <1>1 DEF Attached
<1>3. \A s \in Sets : AttachedTo(s)' = AttachedTo(s)
  BY <1>2 DEF AttachedTo
<1>4. \A s \in Sets : Live(s)' <=> Live(s)
  BY <1>1, <1>3 DEF Live
<1>5. \A s \in Sets : LiveSets(s)' = LiveSets(s)
  BY <1>4 DEF LiveSets, CowSets
<1> QED BY <1>2, <1>3, <1>4, <1>5

LEMMA LifeFrame ==
  ASSUME LifeOK, NEW t \in Users,
         \A u \in Users : u # t => thr'[u] = thr[u],
         Alive(t)' <=> Alive(t), Forking(t)' <=> Forking(t), Linking(t)' <=> Linking(t),
         prefs' = prefs, gone' = gone,
         \A x \in Sets : slot'[x].v => \/ slot[x].v
                                       \/ Kind[x] # "FILE" /\ Live(x)
                                       \/ Kind[x] = "FILE" /\ LiveSets(x) # {},
         \A x \in Users : Pc(x)' = "none" => Pc(x) = "none"
  PROVE  LifeOK'
<1> SUFFICES ASSUME NEW s \in Sets PROVE LifeOf(s)'
  BY DEF LifeOK
<1>1. AttachedTo(s)' = AttachedTo(s) /\ (Live(s)' <=> Live(s)) /\ LiveSets(s)' = LiveSets(s)
  BY LiveFrame
<1>2. LifeOf(s)
  BY DEF LifeOK
<1> QED BY <1>1, <1>2 DEF LifeOf, SetOf

LEMMA CountFrame ==
  ASSUME LocksOK, NEW t \in Users,
         \A u \in Users : u # t => thr'[u] = thr[u]
  PROVE  /\ \A x \in Sets : x # SetOf(t) => Pend(x)' = Pend(x)
         /\ held[SetOf(t)] \in {t, None} =>
              /\ Pend(SetOf(t)) = (IF Pc(t) \in Counted THEN 1 ELSE 0)
              /\ Pend(SetOf(t))' = (IF Pc(t)' \in Counted THEN 1 ELSE 0)
         /\ (Pc(t)' \in Counted <=> Pc(t) \in Counted) => \A x \in Sets : Pend(x)' = Pend(x)
         /\ (Pc(t)' = "linked" <=> Pc(t) = "linked") => \A x \in Sets : Owed(x)' = Owed(x)
         /\ \A x \in Sets : x # NewSet(t) => Owed(x)' = Owed(x)
         /\ (Forking(t)' <=> Forking(t)) =>
              \A x \in Sets : x # SetOf(t) \/ (Pc(t)' = "clast" <=> Pc(t) = "clast")
                              => (Unused(x)' <=> Unused(x))
<1>1. \A u \in Users : u # t => Pc(u)' = Pc(u) /\ (Forking(u)' <=> Forking(u))
  BY DEF Pc, Forking
<1>2. \A u \in Users : SetOf(u)' = SetOf(u) /\ NewSet(u)' = NewSet(u)
  BY DEF SetOf, NewSet, NewView
<1>3. \A x \in Sets : x # SetOf(t) => Pend(x)' = Pend(x)
  BY <1>1, <1>2 DEF Pend, Counted
<1>4. ASSUME held[SetOf(t)] \in {t, None}
      PROVE  /\ Pend(SetOf(t)) = (IF Pc(t) \in Counted THEN 1 ELSE 0)
             /\ Pend(SetOf(t))' = (IF Pc(t)' \in Counted THEN 1 ELSE 0)
  <2>1. \A u \in Users : u # t /\ SetOf(u) = SetOf(t) => Pc(u) \notin Counted
    <3> SUFFICES ASSUME NEW u \in Users, u # t, SetOf(u) = SetOf(t), Pc(u) \in Counted PROVE FALSE
      OBVIOUS
    <3>1. SetOf(u) \in Locked(u)
      BY DEF Locked, Working, Counted, Filling
    <3>2. held[SetOf(t)] = u
      BY <3>1, Statics DEF LocksOK, LockOf
    <3> QED BY <3>2, <1>4, Statics
  <2> QED BY <2>1, <1>1, <1>2 DEF Pend, Counted
<1>5. (Pc(t)' \in Counted <=> Pc(t) \in Counted) => \A x \in Sets : Pend(x)' = Pend(x)
  BY <1>1, <1>2 DEF Pend, Counted
<1>6. (Pc(t)' = "linked" <=> Pc(t) = "linked") => \A x \in Sets : Owed(x)' = Owed(x)
  BY <1>1, <1>2 DEF Owed
<1>7. \A x \in Sets : x # NewSet(t) => Owed(x)' = Owed(x)
  BY <1>1, <1>2 DEF Owed
<1>8. (Forking(t)' <=> Forking(t)) =>
              \A x \in Sets : x # SetOf(t) \/ (Pc(t)' = "clast" <=> Pc(t) = "clast")
                              => (Unused(x)' <=> Unused(x))
  BY <1>1, <1>2 DEF Unused
<1> QED BY <1>3, <1>4, <1>5, <1>6, <1>7, <1>8

LEMMA RefsFrame ==
  ASSUME NEW x \in Sets, RefsOf(x),
         slot'[x].v = slot[x].v, slot'[x].refs = slot[x].refs, slot'[x].atl = slot[x].atl,
         Sharing(x)' = Sharing(x), Pend(x)' = Pend(x), Owed(x)' = Owed(x), Unused(x) => Unused(x)'
  PROVE  RefsOf(x)'
BY DEF RefsOf

\* Who shares which page.
LEMMA SharingFrame ==
  ASSUME NEW x \in Sets, \A s \in CowSets(x) : slot'[s].cow = slot[s].cow
  PROVE  Sharing(x)' = Sharing(x)
BY DEF Sharing, CowSets

LEMMA FramesFrame ==
  ASSUME FramesOK, free' = free, \A u \in Users : thr'[u].pg = thr[u].pg,
         \A s \in Sets : \A f \in Frames : HasFrame(s, f)' <=> HasFrame(s, f),
         free \subseteq Frames
  PROVE  FramesOK'
BY DEF FramesOK

\* No set of a thread, and no set of a view, is of a file.
LEMMA NoSharing ==
  ASSUME NEW s \in Sets, Kind[s] # "FILE"
  PROVE  Sharing(s) = {} /\ Sharing(s)' = {}
BY Statics DEF Sharing, CowSets
-----------------------------------------------------------------------------
(* Counting, and the types of the parts of a record.                     *)

LEMMA CardAdd ==
  ASSUME NEW S, IsFiniteSet(S), NEW e, e \notin S
  PROVE  IsFiniteSet(S \cup {e}) /\ Cardinality(S \cup {e}) = Cardinality(S) + 1
BY FS_AddElement

LEMMA CardDel ==
  ASSUME NEW S, IsFiniteSet(S), NEW e, e \in S
  PROVE  IsFiniteSet(S \ {e}) /\ Cardinality(S \ {e}) = Cardinality(S) - 1
BY FS_RemoveElement

LEMMA CardOne ==
  ASSUME NEW e
  PROVE  Cardinality({e}) = 1 /\ IsFiniteSet({e}) /\ Cardinality({}) = 0
BY FS_Singleton, FS_EmptySet

LEMMA RecordTypes ==
  ASSUME Types
  PROVE  /\ \A t \in Users : thr[t] \in ThrType
         /\ \A s \in Sets : slot[s] \in SlotType
         /\ \A v \in Views : pte[v] \in PteType
BY DEF Types

LEMMA Finite ==
  ASSUME Types
  PROVE  \A s \in Sets : /\ IsFiniteSet(slot[s].atl) /\ Cardinality(slot[s].atl) \in Nat
                         /\ IsFiniteSet(Sharing(s)) /\ Cardinality(Sharing(s)) \in Nat
                         /\ IsFiniteSet(AttachedTo(s)) /\ Cardinality(AttachedTo(s)) \in Nat
                         /\ IsFiniteSet(LiveSets(s)) /\ Cardinality(LiveSets(s)) \in Nat
                         /\ slot[s].refs \in Int
<1> SUFFICES ASSUME NEW s \in Sets
             PROVE  /\ IsFiniteSet(slot[s].atl) /\ IsFiniteSet(Sharing(s))
                    /\ IsFiniteSet(AttachedTo(s)) /\ IsFiniteSet(LiveSets(s)) /\ slot[s].refs \in Int
  BY FS_CardinalityType
<1>1. IsFiniteSet(Views) /\ IsFiniteSet(Sets)
  BY NamesAssumption
<1>2. IsFiniteSet(Views \cup {Cache})
  BY <1>1, FS_AddElement
<1>3. slot[s].atl \subseteq Views \cup {Cache} /\ slot[s].refs \in Int
  BY RecordTypes DEF SlotType
<1>4. Sharing(s) \subseteq Sets /\ LiveSets(s) \subseteq Sets /\ AttachedTo(s) \subseteq Views
  BY DEF Sharing, LiveSets, CowSets, AttachedTo
<1>5. IsFiniteSet(slot[s].atl)
  BY <1>2, <1>3, FS_Subset
<1>6. IsFiniteSet(Sharing(s)) /\ IsFiniteSet(LiveSets(s)) /\ IsFiniteSet(AttachedTo(s))
  BY <1>1, <1>4, FS_Subset
<1> QED BY <1>3, <1>5, <1>6

LEMMA CountTypes ==
  \A s \in Sets : Pend(s) \in {0, 1} /\ Owed(s) \in {0, 1}
BY DEF Pend, Owed

\* The page of a file is counted by its cache entry and by those that share it.
LEMMA OfFile ==
  ASSUME Inv, NEW m \in Sets, Kind[m] = "FILE"
  PROVE  /\ Pend(m) = 0 /\ Owed(m) = 0 /\ ~Unused(m)
         /\ \A u \in Users : SetOf(u) # m /\ (Forking(u) => NewSet(u) # m)
         /\ slot[m].v => /\ slot[m].atl = {Cache}
                         /\ slot[m].refs = 1 + Cardinality(Sharing(m))
<1>0. Types /\ ThreadsOK /\ ShapeOf(m) /\ RefsOf(m)
  BY DEF Inv, ShapeOK, RefsOK
<1>1. \A u \in Users : SetOf(u) # m /\ (Forking(u) => NewSet(u) # m)
  BY <1>0, Statics, Forks2, ForkStatics
<1>2. Pend(m) = 0 /\ Owed(m) = 0 /\ ~Unused(m)
  BY <1>1 DEF Pend, Owed, Unused, Forking
<1>3. slot[m].v => slot[m].atl = {Cache}
  BY <1>0 DEF ShapeOf
<1>4. slot[m].v => slot[m].refs = 1 + Cardinality(Sharing(m))
  <2>1. slot[m].v => Cardinality(slot[m].atl) = 1
    BY <1>3, CardOne
  <2>2. Cardinality(Sharing(m)) \in Nat
    BY <1>0, Finite
  <2> QED BY <1>0, <1>2, <2>1, <2>2 DEF RefsOf
<1> QED BY <1>1, <1>2, <1>3, <1>4

\* The master of a slot that shares its page has more references than that.
LEMMA OfCow ==
  ASSUME Inv, NEW s \in Sets, slot[s].cow
  PROVE  LET m == Master[s] IN
         /\ Kind[s] = "COW" /\ m \in Sets /\ Kind[m] = "FILE" /\ m # s /\ slot[s].v
         /\ slot[m].v /\ s \in Sharing(m) /\ slot[m].refs >= 2 /\ slot[m].atl = {Cache}
         /\ slot[m].refs = 1 + Cardinality(Sharing(m))
<1> DEFINE m == Master[s]
<1>0. ShapeOf(s) /\ Types
  BY DEF Inv, ShapeOK
<1>1. Kind[s] = "COW" /\ m \in Sets /\ Kind[m] = "FILE" /\ m # s /\ slot[s].v
  BY <1>0, Statics DEF ShapeOf
<1>2. slot[m].v /\ s \in Sharing(m)
  BY <1>1 DEF Inv, MastersOK, Sharing, CowSets
<1>3. slot[m].refs = 1 + Cardinality(Sharing(m)) /\ slot[m].atl = {Cache}
  BY <1>1, <1>2, OfFile
<1>4. Cardinality(Sharing(m)) # 0 /\ Cardinality(Sharing(m)) \in Nat
  BY <1>0, <1>1, <1>2, Finite, FS_EmptySet
<1>5. slot[m].refs >= 2
  BY <1>3, <1>4
<1> QED BY <1>1, <1>2, <1>3, <1>5

\* No one is linking the set of a living thread.
LEMMA OfLiving ==
  ASSUME Inv, NEW t \in Users, Alive(t)
  PROVE  LET s == SetOf(t)  v == ViewOf[t] IN
         /\ Owed(s) = 0 /\ Sharing(s) = {}
         /\ \A u \in Users : Forking(u) => NewSet(u) # s /\ NewView(u) # v
         /\ slot[s].v => /\ slot[s].refs = Cardinality(slot[s].atl) + Pend(s)
                         /\ slot[s].refs > 0 \/ \E u \in Users : Pc(u) = "clast" /\ SetOf(u) = s
         /\ \A w \in slot[s].atl \ {Cache} : Of[w] = s /\ pvalid[w]
<1> DEFINE s == SetOf(t)
<1>0. s \in Sets /\ Kind[s] # "FILE" /\ RefsOf(s) /\ ListOf(s) /\ Types /\ ThreadsOK
  BY Statics DEF Inv, RefsOK, ViewsOK
<1>1. \A u \in Users : Forking(u) => NewSet(u) # s /\ NewView(u) # ViewOf[t]
  BY <1>0, Forks2 DEF Alive
<1>2. Owed(s) = 0
  BY <1>1 DEF Owed, Forking
<1>3. Sharing(s) = {}
  BY <1>0, NoSharing
<1>4. slot[s].v => /\ slot[s].refs = Cardinality(slot[s].atl) + Pend(s)
                   /\ slot[s].refs > 0 \/ \E u \in Users : Pc(u) = "clast" /\ SetOf(u) = s
  <2>1. Cardinality(Sharing(s)) = 0
    BY <1>3, FS_EmptySet
  <2>2. Cardinality(slot[s].atl) \in Nat /\ Pend(s) \in {0, 1}
    BY <1>0, Finite, CountTypes
  <2>3. slot[s].v => slot[s].refs = Cardinality(slot[s].atl) + Pend(s)
    BY <1>0, <1>2, <2>1, <2>2 DEF RefsOf
  <2>4. slot[s].v => slot[s].refs > 0 \/ \E u \in Users : Pc(u) = "clast" /\ SetOf(u) = s
    BY <1>0, <1>1 DEF RefsOf, Unused
  <2> QED BY <2>3, <2>4
<1>5. \A w \in slot[s].atl \ {Cache} : Of[w] = s /\ pvalid[w]
  <2>1. ASSUME NEW w \in slot[s].atl \ {Cache} PROVE Of[w] = s /\ pvalid[w]
    <3>1. Of[w] = s /\ (pvalid[w] \/ \E u \in Users : Pc(u) = "linked" /\ NewView(u) = w)
      BY <1>0 DEF ListOf
    <3>2. \A u \in Users : Pc(u) = "linked" => NewView(u) # w
      <4> SUFFICES ASSUME NEW u \in Users, Pc(u) = "linked", NewView(u) = w PROVE FALSE
        OBVIOUS
      <4>1. Forking(u)
        BY DEF Forking
      <4>2. NewSet(u) = Of[w]
        BY <4>1, <1>0, Forks2, ForkStatics
      <4> QED BY <4>1, <4>2, <3>1, <1>1
    <3> QED BY <3>1, <3>2
  <2> QED BY <2>1
<1> QED BY <1>1, <1>2, <1>3, <1>4, <1>5

\* A shared page is attached to the view alone.
LEMMA OfCowList ==
  ASSUME Inv, NEW t \in Users, Alive(t), Kind[SetOf(t)] = "COW", slot[SetOf(t)].cow
  PROVE  LET s == SetOf(t)  v == ViewOf[t] IN
         slot[s].atl = IF pvalid[v] THEN {v} ELSE {}
<1> DEFINE s == SetOf(t)
           v == ViewOf[t]
<1>1. /\ s \in Sets /\ v \in Views /\ ShapeOf(s) /\ Of[v] = s
      /\ \A w \in slot[s].atl : w \in Views \cup {Cache}
  <2>1. Types /\ ShapeOK
    BY DEF Inv
  <2> QED BY <2>1, Statics, RecordTypes DEF ShapeOK, SlotType
<1>2. \A w \in slot[s].atl : w = v /\ pvalid[w]
  <2>1. Cache \notin slot[s].atl
    BY <1>1 DEF ShapeOf
  <2> QED BY <1>1, <2>1, OfLiving, Statics
<1>3. pvalid[v] => v \in slot[s].atl
  BY <1>1 DEF Inv, ViewsOK, ValidOf
<1> QED BY <1>2, <1>3
-----------------------------------------------------------------------------
(* The processor: stores, and faults that begin.                         *)

\* A step that leaves the slots, the views and fork()s alone.
LEMMA StillSlots ==
  ASSUME Inv, NEW t \in Users,
         \A u \in Users : u # t => thr'[u] = thr[u],
         slot' = slot, pvalid' = pvalid, prefs' = prefs, gone' = gone,
         \A w \in Views : pte'[w].v = pte[w].v,
         Alive(t), Alive(t)', Forking(t)' <=> Forking(t), Linking(t)' <=> Linking(t),
         Pc(t)' = "linked" <=> Pc(t) = "linked",
         Pc(t)' = "clast" <=> Pc(t) = "clast",
         Leaving(t)' => Leaving(t),
         Pc(t)' \in Counted <=> Pc(t) \in Counted,
         WorkOf(t)'
  PROVE  /\ ThreadsOK' /\ ShapeOK' /\ MastersOK' /\ WorkOK' /\ RefsOK' /\ ViewsOK' /\ LifeOK'
<1>0. ThreadsOK /\ ShapeOK /\ MastersOK /\ WorkOK /\ RefsOK /\ ViewsOK /\ LifeOK /\ LocksOK
  BY DEF Inv
<1>a. \A u \in Users : Pc(u)' = "none" <=> Pc(u) = "none"
  BY DEF Alive, Pc
<1>b. \A u \in Users : Pc(u)' = "linked" <=> Pc(u) = "linked"
  BY DEF Pc
<1>c. \A u \in Users : Alive(u)' <=> Alive(u)
  BY DEF Pc, Alive
<1>1. ThreadsOK'
  BY <1>0, ThreadsFrame
<1>2. ShapeOK'
  BY <1>0 DEF ShapeOK, ShapeOf
<1>3. MastersOK'
  BY <1>0 DEF MastersOK
<1>4. WorkOK'
  <2> SUFFICES ASSUME NEW u \in Users, u # t PROVE WorkOf(u)'
    BY DEF WorkOK
  <2>1. thr'[u] = thr[u] /\ WorkOf(u) /\ Pc(u)' = Pc(u)
    BY <1>0 DEF WorkOK, Pc
  <2> QED BY <2>1 DEF WorkOf, Filling, SetOf, NewSet, NewView
<1>5. RefsOK'
  <2> SUFFICES ASSUME NEW s \in Sets PROVE RefsOf(s)'
    BY DEF RefsOK
  <2>1. RefsOf(s) /\ Sharing(s)' = Sharing(s)
    BY <1>0, SharingFrame DEF RefsOK
  <2>2. Pend(s)' = Pend(s) /\ Owed(s)' = Owed(s) /\ (Unused(s)' <=> Unused(s))
    BY <1>0, CountFrame
  <2> QED BY <2>1, <2>2, RefsFrame
<1>6. ViewsOK'
  <2>1. \A v \in Views : ValidOf(v)'
    BY <1>0, <1>c DEF ViewsOK, ValidOf
  <2>2. \A s \in Sets : ListOf(s)'
    BY <1>0, <1>b DEF ViewsOK, ListOf, NewView
  <2>3. ASSUME NEW u \in Users PROVE LinkedOf(u)'
    <3>1. CASE Pc(u) = "linked"
      <4>1. NewView(u) \in Views /\ NewView(u)' = NewView(u) /\ NewSet(u)' = NewSet(u)
        BY <3>1, <1>0, Forks2, ForkStatics DEF Forking, NewView, NewSet
      <4> QED BY <1>0, <1>b, <4>1 DEF ViewsOK, LinkedOf
    <3> QED BY <3>1, <1>b DEF LinkedOf
  <2>4. ASSUME NEW u \in Users PROVE UnbornOf(u)'
    BY <1>0, <1>a, <1>b, Statics DEF ViewsOK, UnbornOf
  <2> QED BY <2>1, <2>2, <2>3, <2>4 DEF ViewsOK
<1>7. LifeOK'
  BY <1>0, <1>a, LifeFrame
<1> QED BY <1>1, <1>2, <1>3, <1>4, <1>5, <1>6, <1>7

\* What these steps have in common, for the frames they leave.
LEMMA StillFrames ==
  ASSUME Inv, free' = free, slot' = slot, \A u \in Users : thr'[u].pg = thr[u].pg
  PROVE  FramesOK'
<1>1. FramesOK /\ free \subseteq Frames
  BY DEF Inv, Types
<1>2. \A s \in Sets : \A f \in Frames : HasFrame(s, f)' <=> HasFrame(s, f)
  BY DEF HasFrame
<1> QED BY <1>1, <1>2, FramesFrame

\* The invariant but for the contents of pages.
Core == /\ Types /\ LocksOK /\ ThreadsOK /\ ShapeOK /\ MastersOK /\ WorkOK
        /\ RefsOK /\ ViewsOK /\ LifeOK /\ FramesOK

LEMMA StoreStep ==
  ASSUME Inv, NEW t \in Users, Store(t)
  PROVE  Core'
<1>1. /\ pte' = [pte EXCEPT ![ViewOf[t]].m = TRUE] /\ Pc(t) = "user"
      /\ UNCHANGED <<thr, slot, held, prefs, gone, pvalid, free>>
  BY Zenon DEF Store, setVars, coreVars
<1>2. ViewOf[t] \in Views /\ pte[ViewOf[t]] \in PteType /\ Types
  BY Statics, RecordTypes DEF Inv
<1>3. pte' \in [Views -> PteType] /\ \A w \in Views : pte'[w].v = pte[w].v
  BY <1>1, <1>2 DEF Types, PteType
<1>4. Types'
  BY <1>1, <1>2, <1>3 DEF Types
<1>5. LocksOK'
  BY <1>1 DEF Inv, LocksOK, LockOf, Locked, Filling, Pc, SetOf, FillSet
<1>6. Pc(t)' = "user" /\ WorkOf(t)'
  BY <1>1 DEF Inv, WorkOK, WorkOf, Pc, Filling, SetOf, NewSet, NewView
<1>7. ThreadsOK' /\ ShapeOK' /\ MastersOK' /\ WorkOK' /\ RefsOK' /\ ViewsOK' /\ LifeOK'
  BY <1>1, <1>3, <1>6, StillSlots DEF Alive, Forking, Linking, Leaving, Counted
<1>8. FramesOK'
  BY <1>1, StillFrames
<1> QED BY <1>4, <1>5, <1>7, <1>8 DEF Core

LEMMA FaultStep ==
  ASSUME Inv, NEW t \in Users, NEW w \in BOOLEAN, Fault(t, w)
  PROVE  Core'
<1>1. /\ thr' = [thr EXCEPT ![t].pc = "lock", ![t].w = w] /\ Pc(t) = "user"
      /\ UNCHANGED <<slot, held, prefs, gone, pvalid, pte, free>>
  BY Zenon DEF Fault, setVars, coreVars, mapVars
<1>2. thr[t] \in ThrType /\ Types /\ LocksOK
  BY RecordTypes DEF Inv
<1>3. /\ thr' \in [Users -> ThrType] /\ \A u \in Users : u # t => thr'[u] = thr[u]
      /\ Pc(t)' = "lock" /\ thr'[t].pg = thr[t].pg /\ thr'[t].was = thr[t].was
  BY <1>1, <1>2 DEF Types, ThrType, Pcs, Pc
<1>4. Types'
  BY <1>1, <1>2, <1>3 DEF Types
<1>5. LocksOK'
  <2>1. LockOf(t)'
    BY <1>1, <1>2, <1>3 DEF LocksOK, LockOf, Locked, Filling, Working, WithPage
  <2> QED BY <1>1, <1>2, <1>3, <2>1, LocksFrame
<1>6. WorkOf(t)'
  BY <1>1, <1>3 DEF Inv, WorkOK, WorkOf, Filling, Counted
<1>7. ThreadsOK' /\ ShapeOK' /\ MastersOK' /\ WorkOK' /\ RefsOK' /\ ViewsOK' /\ LifeOK'
  BY <1>1, <1>3, <1>6, StillSlots DEF Alive, Forking, Linking, Leaving, Counted
<1>8. FramesOK'
  BY <1>1, <1>3, StillFrames
<1> QED BY <1>4, <1>5, <1>7, <1>8 DEF Core
-----------------------------------------------------------------------------
(* The lock of a slot.                                                   *)

LEMMA HeldWork ==
  ASSUME Inv, NEW u \in Users
  PROVE  /\ Pc(u) \in Working => held[SetOf(u)] = u
         /\ Filling(u) => thr[u].on \in Sets /\ held[thr[u].on] = u /\ thr[u].on = FillSet(SetOf(u))
         /\ u # None
<1>1. LockOf(u)
  BY DEF Inv, LocksOK
<1>2. Filling(u) => thr[u].on \in Sets /\ Pc(u) \in Working
  BY <1>1, Statics DEF LockOf, Filling, Working
<1> QED BY <1>1, <1>2, Statics DEF LockOf, Locked

\* Who relies on what its slot looks like.
Minds(u) == Pc(u) \in Working \cup {"dlock", "drop", "flock"}

LEMMA WorkFrame ==
  ASSUME NEW u \in Users, WorkOf(u), thr'[u] = thr[u],
         Minds(u) => slot'[SetOf(u)].v = slot[SetOf(u)].v,
         Minds(u) /\ Pc(u) # "flock" => /\ slot'[SetOf(u)].cow = slot[SetOf(u)].cow
                                        /\ pvalid'[ViewOf[u]] = pvalid[ViewOf[u]],
         Pc(u) = "clast" => /\ slot'[SetOf(u)].refs = slot[SetOf(u)].refs
                            /\ slot'[SetOf(u)].atl = slot[SetOf(u)].atl,
         Filling(u) => slot'[thr[u].on].v = slot[thr[u].on].v,
         Forking(u) => slot'[NewSet(u)].v = slot[NewSet(u)].v
  PROVE  WorkOf(u)'
<1>1. /\ Pc(u)' = Pc(u) /\ thr'[u].was = thr[u].was /\ thr'[u].on = thr[u].on
      /\ SetOf(u)' = SetOf(u) /\ NewSet(u)' = NewSet(u) /\ (Filling(u)' <=> Filling(u))
  BY DEF Pc, SetOf, NewSet, NewView, Filling
<1> DEFINE p == slot[SetOf(u)]
           v == ViewOf[u]
<1>2. CASE ~Minds(u)
  BY <1>1, <1>2 DEF WorkOf, Minds, Working, Filling, Counted
<1>3. CASE Minds(u)
  <2>1. p'.v = p.v /\ (Pc(u) # "flock" => p'.cow = p.cow /\ pvalid'[v] = pvalid[v])
    BY <1>1, <1>3
  <2>2. (Pc(u) = "master" \/ Filling(u) => ~p.v)'
    BY <1>1, <2>1 DEF WorkOf
  <2>3. (Filling(u) => ~slot[thr[u].on].v)'
    BY <1>1 DEF WorkOf
  <2>4. (Pc(u) \notin Counted => ~thr[u].was)'
    BY <1>1 DEF WorkOf, Counted
  <2>5. (Pc(u) = "got" => p.v /\ (~thr[u].was => ~pvalid[v]) /\ (thr[u].was /\ p.cow => pvalid[v]))'
    BY <1>1, <2>1 DEF WorkOf
  <2>6. /\ (Pc(u) \in {"calloc", "ccore"} => p.v /\ p.cow /\ ~pvalid[v])'
        /\ (Pc(u) \in {"falloc", "fcore"} => p.v /\ ~p.cow)'
        /\ (Pc(u) = "flock" => p.v)'
    BY <1>1, <2>1 DEF WorkOf
  <2>7. /\ (Pc(u) = "dlock" => pvalid[v])'
        /\ (Pc(u) \in {"clast", "drop"} => ~pvalid[v])'
        /\ (Pc(u) = "drop" => ~p.cow)'
    BY <1>1, <2>1 DEF WorkOf
  <2>8. (Pc(u) \in {"flock", "falloc", "fcore"} => ~slot[NewSet(u)].v)'
    BY <1>1 DEF WorkOf, Forking
  <2>9. (Pc(u) = "clast" => p.v /\ p.cow /\ p.refs = 0 /\ p.atl = {})'
    BY <1>1, <2>1 DEF WorkOf
  <2> QED BY <2>2, <2>3, <2>4, <2>5, <2>6, <2>7, <2>8, <2>9 DEF WorkOf
<1> QED BY <1>2, <1>3

LEMMA ViewsFrame ==
  ASSUME Inv, NEW t \in Users,
         \A u \in Users : u # t => thr'[u] = thr[u],
         Alive(t), Alive(t)', Pc(t)' = "linked" <=> Pc(t) = "linked",
         pvalid' = pvalid, \A w \in Views : pte'[w].v = pte[w].v,
         \A x \in Sets : slot'[x].atl \ {Cache} = slot[x].atl \ {Cache},
         \A u \in Users : Forking(u) => slot'[NewSet(u)].v = slot[NewSet(u)].v
  PROVE  ViewsOK'
<1>0. ThreadsOK /\ ViewsOK
  BY DEF Inv
<1>a. \A u \in Users : /\ Pc(u)' = "none" <=> Pc(u) = "none"
                       /\ Pc(u)' = "linked" <=> Pc(u) = "linked"
                       /\ Alive(u)' <=> Alive(u)
                       /\ NewView(u)' = NewView(u) /\ NewSet(u)' = NewSet(u)
  BY DEF Alive, Pc, NewView, NewSet
<1>1. ASSUME NEW v \in Views PROVE ValidOf(v)'
  <2>1. v \in slot'[Of[v]].atl <=> v \in slot[Of[v]].atl
    BY Statics
  <2> QED BY <1>0, <1>a, <2>1 DEF ViewsOK, ValidOf
<1>2. \A s \in Sets : ListOf(s)'
  BY <1>0, <1>a DEF ViewsOK, ListOf
<1>3. ASSUME NEW u \in Users PROVE LinkedOf(u)'
  <2>1. CASE Pc(u) = "linked"
    <3>1. /\ NewView(u) \in Views /\ NewSet(u) \in Sets /\ NewView(u) # Cache
          /\ Forking(u) /\ slot'[NewSet(u)].v = slot[NewSet(u)].v
      BY <2>1, <1>0, Forks2, ForkStatics, Statics DEF Forking
    <3>2. NewView(u) \in slot'[NewSet(u)].atl <=> NewView(u) \in slot[NewSet(u)].atl
      BY <3>1
    <3> QED BY <1>0, <1>a, <3>1, <3>2 DEF ViewsOK, LinkedOf
  <2> QED BY <2>1, <1>a DEF LinkedOf
<1>4. ASSUME NEW u \in Users PROVE UnbornOf(u)'
  BY <1>0, <1>a, Statics DEF ViewsOK, UnbornOf
<1> QED BY <1>1, <1>2, <1>3, <1>4 DEF ViewsOK

LEMMA LockSlotStep ==
  ASSUME Inv, NEW t \in Users, LockSlot(t)
  PROVE  Core'
<1> DEFINE s == SetOf(t)
           v == ViewOf[t]
<1>0. /\ thr[t] \in ThrType /\ s \in Sets /\ slot[s] \in SlotType /\ Types /\ LocksOK
      /\ Pc(t) = "lock" /\ held[s] = None /\ t # None /\ Alive(t)
  BY Statics, RecordTypes DEF Inv, LockSlot, Alive
<1>1. /\ held' = [held EXCEPT ![s] = t]
      /\ UNCHANGED <<prefs, gone, pvalid, pte, free>>
  BY Zenon DEF LockSlot, mapVars, coreVars
<1>2. CASE ~slot[s].v
  <2>1. /\ slot' = slot
        /\ thr' = [thr EXCEPT ![t].pc = IF Kind[s] = "COW" THEN "master" ELSE "alloc", ![t].on = s]
    BY <1>2, Zenon DEF LockSlot
  <2>2. /\ thr' \in [Users -> ThrType] /\ \A u \in Users : u # t => thr'[u] = thr[u]
        /\ Pc(t)' = (IF Kind[s] = "COW" THEN "master" ELSE "alloc") /\ thr'[t].on = s
        /\ thr'[t].pg = thr[t].pg /\ thr'[t].was = thr[t].was
    BY <2>1, <1>0 DEF Types, ThrType, Pcs, Pc
  <2>3. Types'
    BY <2>1, <2>2, <1>1, <1>0 DEF Types
  <2>4. LockOf(t)'
    <3>1. LockOf(t)
      BY <1>0 DEF LocksOK
    <3>2. Locked(t) = {} /\ Locked(t)' = {s} /\ SetOf(t)' = s
      BY <2>2, <1>0 DEF Locked, Working, Filling, SetOf
    <3>3. \A x \in Sets : held'[x] = t <=> x \in Locked(t)'
      BY <3>1, <3>2, <1>0, <1>1 DEF LockOf, Types
    <3> QED BY <1>0, <3>1, <3>2, <3>3, <2>2 DEF LockOf, FillSet, Filling, WithPage
  <2>5. LocksOK'
    BY <1>0, <1>1, <2>2, <2>4, LocksFrame DEF Types
  <2>6. WorkOf(t)'
    <3>1. WorkOf(t)
      BY DEF Inv, WorkOK
    <3> QED BY <1>0, <1>1, <1>2, <2>1, <2>2, <3>1 DEF WorkOf, Filling, Counted, SetOf
  <2>7. ThreadsOK' /\ ShapeOK' /\ MastersOK' /\ WorkOK' /\ RefsOK' /\ ViewsOK' /\ LifeOK'
    BY <1>0, <1>1, <2>1, <2>2, <2>6, StillSlots DEF Alive, Forking, Linking, Leaving, Counted
  <2>8. FramesOK'
    BY <1>1, <2>1, <2>2, StillFrames
  <2> QED BY <2>3, <2>5, <2>7, <2>8 DEF Core
<1>3. CASE slot[s].v
  <2>1. /\ slot' = [slot EXCEPT ![s].refs = @ + 1]
        /\ thr' = [thr EXCEPT ![t].pc = "got", ![t].was = TRUE]
    BY <1>3, Zenon DEF LockSlot
  <2>2. /\ thr' \in [Users -> ThrType] /\ \A u \in Users : u # t => thr'[u] = thr[u]
        /\ Pc(t)' = "got" /\ thr'[t].pg = thr[t].pg /\ thr'[t].was = TRUE
    BY <2>1, <1>0 DEF Types, ThrType, Pcs, Pc
  <2>3. /\ slot' \in [Sets -> SlotType] /\ \A x \in Sets : x # s => slot'[x] = slot[x]
        /\ slot'[s].refs = slot[s].refs + 1
        /\ \A x \in Sets : /\ slot'[x].v = slot[x].v /\ slot'[x].cow = slot[x].cow
                           /\ slot'[x].atl = slot[x].atl /\ slot'[x].pfn = slot[x].pfn
                           /\ slot'[x].swapped = slot[x].swapped
    BY <2>1, <1>0 DEF Types, SlotType
  <2>4. Types'
    BY <2>2, <2>3, <1>1, <1>0 DEF Types
  <2>5. LocksOK'
    <3>1. LockOf(t)
      BY <1>0 DEF LocksOK
    <3>2. Locked(t) = {} /\ Locked(t)' = {s} /\ SetOf(t)' = s
      BY <2>2, <1>0 DEF Locked, Working, Filling, SetOf
    <3>3. \A x \in Sets : held'[x] = t <=> x \in Locked(t)'
      BY <3>1, <3>2, <1>0, <1>1 DEF LockOf, Types
    <3>4. LockOf(t)'
      BY <1>0, <3>1, <3>2, <3>3, <2>2 DEF LockOf, FillSet, Filling, WithPage
    <3> QED BY <1>0, <1>1, <2>2, <3>4, LocksFrame DEF Types
  <2>6. ThreadsOK'
    BY <1>0, <2>2, ThreadsFrame DEF Inv, Alive, Forking, Leaving
  <2>7. ShapeOK'
    <3> SUFFICES ASSUME NEW x \in Sets PROVE ShapeOf(x)'
      BY DEF ShapeOK
    <3>1. ShapeOf(x)
      BY DEF Inv, ShapeOK
    <3> QED BY <3>1, <2>3, <1>3 DEF ShapeOf
  <2>8. MastersOK'
    BY <2>3, Statics DEF Inv, MastersOK, ShapeOK, ShapeOf
  <2>9. WorkOK'
    <3>1. ASSUME NEW u \in Users, u # t PROVE WorkOf(u)'
      <4>1. WorkOf(u) /\ SetOf(u) \in Sets
        BY Statics DEF Inv, WorkOK
      <4>2. Pc(u) = "clast" => SetOf(u) # s
        BY <1>0, HeldWork DEF Working
      <4>3. Filling(u) => thr[u].on \in Sets
        BY HeldWork
      <4>4. Forking(u) => NewSet(u) \in Sets
        BY Forks2, ForkStatics DEF Inv
      <4> QED BY <1>1, <2>2, <2>3, <3>1, <4>1, <4>2, <4>3, <4>4, WorkFrame
    <3>2. WorkOf(t)'
      <4>1. slot[s].cow => pvalid[v]
        <5>1. SUFFICES ASSUME slot[s].cow, ~pvalid[v] PROVE FALSE
          OBVIOUS
        <5>2. slot[s].atl = {}
          BY <5>1, <1>0, OfCow, OfCowList
        <5>3. Pend(s) = 0
          BY <1>0, <2>2, CountFrame DEF Counted
        <5>4. slot[s].refs = 0
          <6>1. slot[s].refs = Cardinality(slot[s].atl) + Pend(s)
            BY <1>0, <1>3, OfLiving
          <6>2. Cardinality(slot[s].atl) = 0
            BY <5>2, CardOne
          <6> QED BY <6>1, <6>2, <5>3
        <5>5. PICK u \in Users : Pc(u) = "clast" /\ SetOf(u) = s
          BY <1>0, <1>3, <5>4, OfLiving
        <5> QED BY <5>5, <1>0, HeldWork DEF Working
      <4> QED BY <4>1, <2>2, <2>3, <1>0, <1>1, <1>3 DEF WorkOf, Filling, Counted, SetOf
    <3> QED BY <3>1, <3>2 DEF WorkOK
  <2>10. RefsOK'
    <3> SUFFICES ASSUME NEW x \in Sets PROVE RefsOf(x)'
      BY DEF RefsOK
    <3>1. RefsOf(x) /\ Sharing(x)' = Sharing(x)
      BY <2>3, SharingFrame DEF Inv, RefsOK, CowSets
    <3>2. Owed(x)' = Owed(x) /\ (Unused(x)' <=> Unused(x))
      BY <1>0, <2>2, CountFrame DEF Forking
    <3>3. CASE x # s
      BY <3>1, <3>2, <3>3, <1>0, <2>2, <2>3, CountFrame, RefsFrame
    <3>4. CASE x = s
      <4>1. Pend(s) = 0 /\ Pend(s)' = 1
        BY <1>0, <2>2, CountFrame DEF Counted
      <4>2. slot[s].refs \in Int /\ Cardinality(slot[s].atl) \in Nat /\ Cardinality(Sharing(s)) \in Nat
            /\ Owed(s) \in {0, 1}
        BY <1>0, Finite, CountTypes
      <4>3. slot'[s].refs >= 0 /\ slot'[s].refs > 0
        BY <3>1, <3>4, <4>2, <2>3 DEF RefsOf
      <4>4. slot'[s].refs = Cardinality(slot'[s].atl) + Cardinality(Sharing(s)') + Pend(s)' - Owed(s)'
        BY <1>3, <3>1, <3>2, <3>4, <4>1, <4>2, <2>3 DEF RefsOf
      <4> QED BY <3>4, <4>3, <4>4 DEF RefsOf
    <3> QED BY <3>3, <3>4
  <2>11. ViewsOK'
    <3>1. \A u \in Users : Forking(u) => slot'[NewSet(u)].v = slot[NewSet(u)].v
      BY <2>3, Forks2, ForkStatics DEF Inv
    <3> QED BY <1>0, <1>1, <2>2, <2>3, <3>1, ViewsFrame DEF Alive
  <2>12. LifeOK'
    BY <1>0, <1>1, <2>2, <2>3, LifeFrame DEF Inv, Alive, Forking, Linking, Pc
  <2>13. FramesOK'
    <3>1. \A u \in Users : thr'[u].pg = thr[u].pg
      BY <2>2
    <3>2. \A x \in Sets : \A f \in Frames : HasFrame(x, f)' <=> HasFrame(x, f)
      BY <2>3 DEF HasFrame
    <3> QED BY <1>0, <1>1, <3>1, <3>2, FramesFrame DEF Inv, Types
  <2> QED BY <2>4, <2>5, <2>6, <2>7, <2>8, <2>9, <2>10, <2>11, <2>12, <2>13 DEF Core
<1> QED BY <1>2, <1>3
-----------------------------------------------------------------------------
(* A page is allocated, or given back after a read that failed.          *)

LEMMA Lively ==
  ASSUME Inv, NEW t \in Users, Alive(t)
  PROVE  /\ Attached(ViewOf[t]) /\ ViewOf[t] \in AttachedTo(SetOf(t)) /\ Live(SetOf(t))
         /\ SetOf(t) \notin gone
         /\ Kind[SetOf(t)] = "COW" => SetOf(t) \in LiveSets(Master[SetOf(t)])
<1>1. Attached(ViewOf[t]) /\ ViewOf[t] \in AttachedTo(SetOf(t)) /\ Live(SetOf(t))
  BY Statics DEF Attached, AttachedTo, Live
<1>2. SetOf(t) \notin gone
  BY <1>1, Statics DEF Inv, LifeOK, LifeOf
<1> QED BY <1>1, <1>2, Statics DEF LiveSets, CowSets

\* Who else relies on the slot that t holds or may take.
LEMMA OthersMind ==
  ASSUME Inv, NEW t \in Users, Alive(t), held[SetOf(t)] \in {t, None},
         NEW u \in Users, u # t, Minds(u), SetOf(u) = SetOf(t)
  PROVE  /\ Pc(u) \in {"dlock", "drop", "flock"}
         /\ Pc(u) \in {"dlock", "drop"} => ViewOf[u] # ViewOf[t] /\ Kind[SetOf(t)] # "COW"
         /\ Pc(u) = "flock" => slot[SetOf(t)].v
<1>1. Pc(u) \in {"dlock", "drop", "flock"}
  BY HeldWork DEF Minds
<1>2. Pc(u) \in {"dlock", "drop"} => ViewOf[u] # ViewOf[t]
  BY DEF Inv, ThreadsOK, Leaving, Alive
<1>3. Pc(u) = "flock" => slot[SetOf(t)].v
  BY DEF Inv, WorkOK, WorkOf
<1> QED BY <1>1, <1>2, <1>3, Statics

\* The page of a thread becomes that of a slot.
LEMMA FrameMoves ==
  ASSUME Inv, NEW t \in Users, NEW x \in Sets, NEW f \in Frames, thr[t].pg = f,
         \A u \in Users : u # t => thr'[u] = thr[u],
         thr'[t].pg = None, free' = free,
         \A g \in Frames : ~HasFrame(x, g) /\ (HasFrame(x, g)' <=> g = f),
         \A y \in Sets : y # x => \A g \in Frames : HasFrame(y, g)' <=> HasFrame(y, g)
  PROVE  FramesOK'
<1>0. FramesOK /\ free \subseteq Frames /\ None \notin Frames
  BY Statics DEF Inv, Types
<1>1. \A u \in Users : thr'[u].pg = thr[u].pg \/ u = t
  OBVIOUS
<1>2. \A g \in Frames : g # f => thr[t].pg # g /\ thr'[t].pg # g /\ (HasFrame(x, g)' <=> HasFrame(x, g))
  BY <1>0
<1>3. /\ f \notin free /\ \A y \in Sets : ~HasFrame(y, f)
      /\ \A u \in Users : u # t => thr[u].pg # f
  BY <1>0 DEF FramesOK
<1>4. /\ HasFrame(x, f)' /\ (\A y \in Sets : HasFrame(y, f)' => y = x)
      /\ \A u \in Users : thr'[u].pg # f
  BY <1>0, <1>1, <1>3
<1>5. ASSUME NEW g \in Frames, g # f
      PROVE  /\ \A y \in Sets : HasFrame(y, g)' <=> HasFrame(y, g)
             /\ \A u \in Users : thr'[u].pg = g <=> thr[u].pg = g
  BY <1>0, <1>1, <1>2, <1>5
<1>6. \A g \in Frames : \/ g \in free'
                        \/ \E s \in Sets : HasFrame(s, g)'
                        \/ \E u \in Users : thr'[u].pg = g
  BY <1>0, <1>4, <1>5 DEF FramesOK
<1>7. \A g \in free' : (\A s \in Sets : ~HasFrame(s, g)') /\ \A u \in Users : thr'[u].pg # g
  BY <1>0, <1>3, <1>5 DEF FramesOK
<1>8. \A g \in Frames, s \in Sets : HasFrame(s, g)' => \A u \in Users : thr'[u].pg # g
  BY <1>0, <1>4, <1>5 DEF FramesOK
<1>9. \A g \in Frames, s, y \in Sets : HasFrame(s, g)' /\ HasFrame(y, g)' => s = y
  BY <1>0, <1>4, <1>5 DEF FramesOK
<1>10. \A g \in Frames, u, w \in Users : thr'[u].pg = g /\ thr'[w].pg = g => u = w
  BY <1>0, <1>4, <1>5 DEF FramesOK
<1> QED BY <1>6, <1>7, <1>8, <1>9, <1>10 DEF FramesOK

LEMMA AllocPageStep ==
  ASSUME Inv, NEW t \in Users, AllocPage(t)
  PROVE  Core'
<1>0. thr[t] \in ThrType /\ Types /\ LocksOK /\ FramesOK /\ Pc(t) \in {"alloc", "calloc", "falloc"}
  BY RecordTypes DEF Inv, AllocPage, Allocs
<1>1. PICK f \in free : free' = free \ {f} /\ thr' = [thr EXCEPT ![t].pg = f, ![t].pc = AfterAlloc(t)]
  BY Zenon DEF AllocPage
<1>2. UNCHANGED <<slot, held, prefs, gone, pvalid, pte>>
  BY Zenon DEF AllocPage, setVars, mapVars
<1>3. /\ thr' \in [Users -> ThrType] /\ \A u \in Users : u # t => thr'[u] = thr[u]
      /\ Pc(t)' = AfterAlloc(t) /\ thr'[t].pg = f /\ thr'[t].was = thr[t].was /\ thr'[t].on = thr[t].on
      /\ f \in Frames /\ AfterAlloc(t) \in {"core", "ccore", "fcore"}
      /\ (Pc(t) = "alloc" <=> AfterAlloc(t) = "core")
      /\ (Pc(t) = "calloc" <=> AfterAlloc(t) = "ccore")
      /\ (Pc(t) = "falloc" <=> AfterAlloc(t) = "fcore")
  BY <1>1, <1>0 DEF Types, ThrType, Pcs, Pc, AfterAlloc
<1>4. Types'
  BY <1>0, <1>1, <1>2, <1>3 DEF Types
<1>5. LocksOK'
  <2>0. LockOf(t)
    BY <1>0 DEF LocksOK
  <2>1. Locked(t)' = Locked(t) /\ (Filling(t)' <=> Filling(t)) /\ SetOf(t)' = SetOf(t)
    BY <1>0, <1>3 DEF Locked, Filling, Working, SetOf
  <2>2. LockOf(t)'
    BY <2>0, <2>1, <1>0, <1>2, <1>3 DEF LockOf, FillSet, WithPage
  <2> QED BY <1>0, <1>2, <1>3, <2>2, LocksFrame
<1>6. WorkOf(t)'
  <2>1. WorkOf(t)
    BY DEF Inv, WorkOK
  <2> QED BY <2>1, <1>0, <1>2, <1>3 DEF WorkOf, Filling, Counted, SetOf, NewSet, NewView
<1>7. ThreadsOK' /\ ShapeOK' /\ MastersOK' /\ WorkOK' /\ RefsOK' /\ ViewsOK' /\ LifeOK'
  <2>1. /\ Alive(t) /\ Alive(t)' /\ (Forking(t)' <=> Forking(t)) /\ (Linking(t)' <=> Linking(t))
        /\ (Pc(t)' = "linked" <=> Pc(t) = "linked") /\ (Pc(t)' = "clast" <=> Pc(t) = "clast")
        /\ (Leaving(t)' => Leaving(t)) /\ (Pc(t)' \in Counted <=> Pc(t) \in Counted)
    BY <1>0, <1>3 DEF Alive, Forking, Linking, Leaving, Counted
  <2> QED BY <1>2, <1>3, <1>6, <2>1, StillSlots
<1>8. FramesOK'
  <2>1. /\ \A s \in Sets : \A g \in Frames : HasFrame(s, g)' <=> HasFrame(s, g)
        /\ thr[t].pg \notin Frames /\ free \subseteq Frames
    BY <1>0, <1>2 DEF HasFrame, LocksOK, LockOf, WithPage, Types
  <2>2. /\ f \notin free' /\ (\A s \in Sets : ~HasFrame(s, f)')
        /\ \A u \in Users : thr'[u].pg = f <=> u = t
    BY <1>0, <1>1, <1>3, <2>1 DEF FramesOK
  <2>3. \A g \in Frames : g # f => /\ g \in free' <=> g \in free
                                   /\ \A u \in Users : thr'[u].pg = g <=> thr[u].pg = g
    BY <1>1, <1>3, <2>1
  <2>4. \A g \in Frames : g # f => \/ g \in free'
                                   \/ \E s \in Sets : HasFrame(s, g)'
                                   \/ \E u \in Users : thr'[u].pg = g
    BY <1>0, <2>1, <2>3 DEF FramesOK
  <2>5. \A g \in free' : (\A s \in Sets : ~HasFrame(s, g)') /\ \A u \in Users : thr'[u].pg # g
    BY <1>0, <1>1, <2>1, <2>2, <2>3 DEF FramesOK
  <2>6. \A g \in Frames, s \in Sets : HasFrame(s, g)' => \A u \in Users : thr'[u].pg # g
    BY <1>0, <2>1, <2>2, <2>3 DEF FramesOK
  <2>7. \A g \in Frames, u, w \in Users : thr'[u].pg = g /\ thr'[w].pg = g => u = w
    BY <1>0, <2>2, <2>3 DEF FramesOK
  <2>8. \A g \in Frames, s, y \in Sets : HasFrame(s, g)' /\ HasFrame(y, g)' => s = y
    BY <1>0, <2>1 DEF FramesOK
  <2> QED BY <2>2, <2>4, <2>5, <2>6, <2>7, <2>8 DEF FramesOK
<1> QED BY <1>4, <1>5, <1>7, <1>8 DEF Core

\* A page is given back.
LEMMA FrameFreed ==
  ASSUME Inv, NEW f \in Frames, free' = free \cup {f}, f \notin free,
         \A u \in Users : \A g \in Frames : thr'[u].pg = g <=> thr[u].pg = g /\ g # f,
         \A y \in Sets : \A g \in Frames : HasFrame(y, g)' <=> HasFrame(y, g) /\ g # f
  PROVE  FramesOK'
<1>0. FramesOK /\ free \subseteq Frames
  BY DEF Inv, Types
<1>1. \A g \in Frames : \/ g \in free'
                        \/ \E s \in Sets : HasFrame(s, g)'
                        \/ \E u \in Users : thr'[u].pg = g
  BY <1>0 DEF FramesOK
<1>2. \A g \in free' : (\A s \in Sets : ~HasFrame(s, g)') /\ \A u \in Users : thr'[u].pg # g
  BY <1>0 DEF FramesOK
<1>3. \A g \in Frames, s \in Sets : HasFrame(s, g)' => \A u \in Users : thr'[u].pg # g
  BY <1>0 DEF FramesOK
<1>4. \A g \in Frames, s, y \in Sets : HasFrame(s, g)' /\ HasFrame(y, g)' => s = y
  BY <1>0 DEF FramesOK
<1>5. \A g \in Frames, u, w \in Users : thr'[u].pg = g /\ thr'[w].pg = g => u = w
  BY <1>0 DEF FramesOK
<1> QED BY <1>1, <1>2, <1>3, <1>4, <1>5 DEF FramesOK

LEMMA PageInFailsStep ==
  ASSUME Inv, NEW t \in Users, PageInFails(t)
  PROVE  Core'
<1>0. Types /\ LocksOK /\ FramesOK /\ Pc(t) = "read" /\ LockOf(t) /\ t # None
  BY Statics DEF Inv, PageInFails, LocksOK
<1>1. /\ UNCHANGED <<slot, prefs, gone, pvalid, pte>>
      /\ thr' = [thr EXCEPT ![t] = At("user")]
      /\ held' = [x \in Sets |-> IF held[x] = t THEN None ELSE held[x]]
      /\ free' = free \cup {thr[t].pg}
  BY Zenon DEF PageInFails, FreePages, mapVars, Back
<1>2. thr[t].pg \in Frames
  BY <1>0 DEF LockOf, WithPage
<1>3. /\ thr' \in [Users -> ThrType] /\ \A u \in Users : u # t => thr'[u] = thr[u]
      /\ Pc(t)' = "user" /\ thr'[t].pg = None /\ thr'[t].was = FALSE
  BY <1>0, <1>1 DEF Types, At, ThrType, Pcs, Pc
<1>4. held' \in [Sets -> Users \cup {None}]
  BY <1>0, <1>1 DEF Types
<1>5. Types'
  BY <1>0, <1>1, <1>2, <1>3, <1>4 DEF Types
<1>6. LocksOK'
  <2>1. LockOf(t)'
    BY <1>0, <1>1, <1>3, Statics DEF LockOf, Locked, Working, WithPage, Filling
  <2>2. \A x \in Sets : held'[x] = held[x] \/ (held[x] \in {t, None} /\ held'[x] \in {t, None})
    BY <1>0, <1>1 DEF Types
  <2> QED BY <1>0, <1>3, <2>1, <2>2, LocksFrame
<1>7. WorkOf(t)'
  BY <1>3 DEF WorkOf, Filling, Counted
<1>8. ThreadsOK' /\ ShapeOK' /\ MastersOK' /\ WorkOK' /\ RefsOK' /\ ViewsOK' /\ LifeOK'
  <2>1. /\ Alive(t) /\ Alive(t)' /\ (Forking(t)' <=> Forking(t)) /\ (Linking(t)' <=> Linking(t))
        /\ (Pc(t)' = "linked" <=> Pc(t) = "linked") /\ (Pc(t)' = "clast" <=> Pc(t) = "clast")
        /\ (Leaving(t)' => Leaving(t)) /\ (Pc(t)' \in Counted <=> Pc(t) \in Counted)
    BY <1>0, <1>3 DEF Alive, Forking, Linking, Leaving, Counted
  <2> QED BY <1>1, <1>3, <1>7, <2>1, StillSlots
<1>9. FramesOK'
  <2>1. \A s \in Sets : \A g \in Frames : HasFrame(s, g)' <=> HasFrame(s, g)
    BY <1>1 DEF HasFrame
  <2>2. thr[t].pg \notin free /\ \A s \in Sets : ~HasFrame(s, thr[t].pg)
    BY <1>0, <1>2 DEF FramesOK
  <2>3. \A u \in Users : \A g \in Frames : thr'[u].pg = g <=> thr[u].pg = g /\ g # thr[t].pg
    BY <1>0, <1>2, <1>3, Statics DEF FramesOK
  <2> QED BY <1>1, <1>2, <2>1, <2>2, <2>3, FrameFreed
<1> QED BY <1>5, <1>6, <1>8, <1>9 DEF Core
-----------------------------------------------------------------------------
(* The slot of the master.                                               *)

LEMMA SharedType ==
  ASSUME NEW p \in SlotType, NEW f \in Frames \cup {None}
  PROVE  Shared(p, f) \in SlotType
<1>1. [p EXCEPT !.v = TRUE, !.cow = TRUE, !.m = FALSE] \in SlotType
  BY DEF SlotType
<1>2. \A q \in SlotType : [q EXCEPT !.refs = 1] \in SlotType
  BY DEF SlotType
<1>4. \A q \in SlotType : [q EXCEPT !.pfn = f] \in SlotType
  <2> DEFINE F == Frames \cup {None}
  <2>1. f \in F
    OBVIOUS
  <2> HIDE DEF F
  <2> QED BY <2>1 DEF SlotType
<1>3. Shared(p, f) = [[[p EXCEPT !.v = TRUE, !.cow = TRUE, !.m = FALSE] EXCEPT !.refs = 1] EXCEPT !.pfn = f]
  BY DEF Shared, SlotType
<1> QED BY <1>1, <1>2, <1>3, <1>4

LEMMA MoreRefs ==
  ASSUME NEW p \in SlotType
  PROVE  [p EXCEPT !.refs = @ + 1] \in SlotType /\ [p EXCEPT !.refs = @ - 1] \in SlotType
BY DEF SlotType

\* The slots that share a page are those that did and s.
LEMMA SharingGrows ==
  ASSUME Inv, NEW s \in Sets, Kind[s] = "COW", ~slot[s].cow, slot'[s].cow,
         \A x \in Sets : x # s => slot'[x].cow = slot[x].cow
  PROVE  LET m == Master[s] IN
         /\ Sharing(m)' = Sharing(m) \cup {s}
         /\ Cardinality(Sharing(m)') = Cardinality(Sharing(m)) + 1
         /\ \A x \in Sets : x # m => Sharing(x)' = Sharing(x)
<1>1. Sharing(Master[s])' = Sharing(Master[s]) \cup {s} /\ s \notin Sharing(Master[s])
  BY DEF Sharing, CowSets
<1>2. \A x \in Sets : x # Master[s] => Sharing(x)' = Sharing(x)
  BY DEF Sharing, CowSets
<1>3. IsFiniteSet(Sharing(Master[s]))
  BY Finite, Statics DEF Inv
<1> QED BY <1>1, <1>2, <1>3, CardAdd

LEMMA LockMasterStep ==
  ASSUME Inv, NEW t \in Users, LockMaster(t)
  PROVE  Core'
<1> DEFINE s == SetOf(t)
           m == Master[s]
           v == ViewOf[t]
<1>0. /\ thr[t] \in ThrType /\ s \in Sets /\ slot[s] \in SlotType /\ Types /\ LocksOK
      /\ Pc(t) = "master" /\ held[m] = None /\ t # None /\ Alive(t) /\ LockOf(t) /\ WorkOf(t)
      /\ Kind[s] = "COW" /\ m \in Sets /\ Kind[m] = "FILE" /\ m # s /\ held[s] = t
      /\ slot[m] \in SlotType /\ ~slot[s].v /\ SetOf(t)' = s
  <2>1. thr[t] \in ThrType /\ s \in Sets /\ slot[s] \in SlotType /\ Types /\ LocksOK
      /\ Pc(t) = "master" /\ held[m] = None /\ t # None /\ Alive(t) /\ LockOf(t) /\ WorkOf(t)
    BY Statics, RecordTypes DEF Inv, LockMaster, Alive, LocksOK, WorkOK
  <2>2. Kind[s] = "COW" /\ held[s] = t /\ ~slot[s].v
    BY <2>1, HeldWork DEF LockOf, WorkOf, Working
  <2>3. m \in Sets /\ Kind[m] = "FILE" /\ m # s
    BY <2>1, <2>2, Statics
  <2> QED BY <2>1, <2>2, <2>3, RecordTypes DEF SetOf
<1>1. UNCHANGED <<prefs, gone, pvalid, pte, free>>
  BY Zenon DEF LockMaster, mapVars, coreVars
<1>2. CASE ~slot[m].v
  <2>1. /\ slot' = slot /\ held' = [held EXCEPT ![m] = t]
        /\ thr' = [thr EXCEPT ![t].pc = "alloc", ![t].on = m]
    BY <1>2, Zenon DEF LockMaster
  <2>2. /\ thr' \in [Users -> ThrType] /\ \A u \in Users : u # t => thr'[u] = thr[u]
        /\ Pc(t)' = "alloc" /\ thr'[t].on = m
        /\ thr'[t].pg = thr[t].pg /\ thr'[t].was = thr[t].was
    BY <2>1, <1>0 DEF Types, ThrType, Pcs, Pc
  <2>3. Types'
    BY <2>1, <2>2, <1>1, <1>0 DEF Types
  <2>4. LockOf(t)'
    <3>1. Locked(t) = {s} /\ Locked(t)' = {s, m} /\ SetOf(t)' = s
      BY <2>2, <1>0 DEF Locked, Working, Filling, SetOf
    <3>2. \A x \in Sets : held'[x] = t <=> x \in Locked(t)'
      BY <3>1, <1>0, <2>1 DEF LockOf, Types
    <3> QED BY <1>0, <3>1, <3>2, <2>2 DEF LockOf, FillSet, Filling, WithPage
  <2>5. LocksOK'
    BY <1>0, <2>1, <2>2, <2>4, LocksFrame DEF Types
  <2>6. WorkOf(t)'
    BY <1>0, <1>1, <1>2, <2>1, <2>2 DEF WorkOf, Filling, Counted, SetOf
  <2>7. ThreadsOK' /\ ShapeOK' /\ MastersOK' /\ WorkOK' /\ RefsOK' /\ ViewsOK' /\ LifeOK'
    <3>1. /\ Alive(t) /\ Alive(t)' /\ (Forking(t)' <=> Forking(t)) /\ (Linking(t)' <=> Linking(t))
          /\ (Pc(t)' = "linked" <=> Pc(t) = "linked") /\ (Pc(t)' = "clast" <=> Pc(t) = "clast")
          /\ (Leaving(t)' => Leaving(t)) /\ (Pc(t)' \in Counted <=> Pc(t) \in Counted)
      BY <1>0, <2>2 DEF Alive, Forking, Linking, Leaving, Counted
    <3> QED BY <1>1, <2>1, <2>2, <2>6, <3>1, StillSlots
  <2>8. FramesOK'
    BY <1>1, <2>1, <2>2, StillFrames
  <2> QED BY <2>3, <2>5, <2>7, <2>8 DEF Core
<1>3. CASE slot[m].v
  <2>1. /\ slot' = [slot EXCEPT ![m].refs = @ + 1, ![s] = Shared(@, slot[m].pfn)]
        /\ thr' = [thr EXCEPT ![t].pc = "got"] /\ held' = held
    BY <1>3, Zenon DEF LockMaster, Goes
  <2>2. /\ thr' \in [Users -> ThrType] /\ \A u \in Users : u # t => thr'[u] = thr[u]
        /\ Pc(t)' = "got" /\ thr'[t].pg = thr[t].pg /\ thr'[t].was = thr[t].was
    BY <2>1, <1>0 DEF Types, ThrType, Pcs, Pc
  <2>3. /\ slot' \in [Sets -> SlotType] /\ \A x \in Sets : x # s /\ x # m => slot'[x] = slot[x]
        /\ slot'[m] = [slot[m] EXCEPT !.refs = @ + 1]
        /\ slot'[s] = Shared(slot[s], slot[m].pfn)
    <3>1. Shared(slot[s], slot[m].pfn) \in SlotType /\ [slot[m] EXCEPT !.refs = @ + 1] \in SlotType
      <4>1. slot[m].pfn \in Frames \cup {None}
        BY <1>0 DEF SlotType
      <4> QED BY <1>0, <4>1, SharedType, MoreRefs
    <3>2. slot' = [slot EXCEPT ![m] = [slot[m] EXCEPT !.refs = @ + 1], ![s] = Shared(slot[s], slot[m].pfn)]
      BY <2>1, <1>0 DEF Types
    <3> QED BY <3>1, <3>2, <1>0 DEF Types
  <2>3a. /\ slot'[m].v = slot[m].v /\ slot'[m].cow = slot[m].cow /\ slot'[m].atl = slot[m].atl
         /\ slot'[m].pfn = slot[m].pfn /\ slot'[m].swapped = slot[m].swapped
         /\ slot'[m].refs = slot[m].refs + 1
         /\ slot'[s].v /\ slot'[s].cow /\ slot'[s].atl = slot[s].atl /\ slot'[s].refs = 1
         /\ slot'[s].swapped = slot[s].swapped /\ slot'[s].pfn = slot[m].pfn
    BY <2>3, <1>0 DEF SlotType, Shared
  <2>3b. slot[s].atl = {} /\ ~slot[s].swapped /\ ~slot[s].cow /\ ~pvalid[v]
    BY <1>0, Statics DEF Inv, ShapeOK, ShapeOf, ViewsOK, ValidOf
  <2>4. Types'
    BY <2>1, <2>2, <2>3, <1>1, <1>0 DEF Types
  <2>5. LocksOK'
    <3>1. Locked(t) = {s} /\ Locked(t)' = {s}
      BY <2>2, <1>0 DEF Locked, Working, Filling
    <3>4. LockOf(t)'
      BY <1>0, <2>1, <3>1, <2>2 DEF LockOf, Filling, WithPage
    <3> QED BY <1>0, <2>1, <2>2, <3>4, LocksFrame
  <2>6. ThreadsOK'
    BY <1>0, <2>2, ThreadsFrame DEF Inv, Alive, Forking, Leaving
  <2>7. ShapeOK'
    <3> SUFFICES ASSUME NEW x \in Sets PROVE ShapeOf(x)'
      BY DEF ShapeOK
    <3>1. ShapeOf(x) /\ ShapeOf(m)
      BY <1>0 DEF Inv, ShapeOK
    <3>2. CASE x = s
      BY <3>1, <3>2, <1>0, <1>3, <2>3a, <2>3b DEF ShapeOf
    <3>3. CASE x = m
      BY <3>1, <3>3, <1>3, <2>3a DEF ShapeOf
    <3>4. CASE x # s /\ x # m
      BY <3>1, <3>4, <2>3 DEF ShapeOf
    <3> QED BY <3>2, <3>3, <3>4
  <2>8. MastersOK'
    <3> SUFFICES ASSUME NEW x \in Sets, slot'[x].cow PROVE slot'[Master[x]].v
      BY DEF MastersOK
    <3>1. CASE x = s
      BY <3>1, <1>3, <2>3a
    <3>2. CASE x # s
      <4>1. slot[x].cow
        BY <3>2, <2>3, <2>3a
      <4>2. slot[Master[x]].v /\ Master[x] # s /\ Master[x] \in Sets
        BY <4>1, <1>0, OfCow
      <4> QED BY <4>2, <2>3, <2>3a
    <3> QED BY <3>1, <3>2
  <2>9. WorkOK'
    <3>1. ASSUME NEW u \in Users, u # t PROVE WorkOf(u)'
      <4>1. WorkOf(u) /\ SetOf(u) \in Sets /\ Kind[SetOf(u)] # "FILE"
        BY Statics DEF Inv, WorkOK
      <4>2. Minds(u) => SetOf(u) # s
        BY <1>0, <3>1, OthersMind
      <4>3. Minds(u) => slot'[SetOf(u)] = slot[SetOf(u)]
        BY <4>1, <4>2, <1>0, <2>3
      <4>4. Filling(u) => slot'[thr[u].on].v = slot[thr[u].on].v
        <5>1. Filling(u) => thr[u].on \in Sets /\ thr[u].on # s
          BY <1>0, <3>1, HeldWork
        <5> QED BY <5>1, <2>3, <2>3a
      <4>5. Forking(u) => slot'[NewSet(u)].v = slot[NewSet(u)].v
        <5>1. Forking(u) => NewSet(u) \in Sets /\ NewSet(u) # s
          BY <1>0, OfLiving, Forks2, ForkStatics DEF Inv
        <5> QED BY <5>1, <2>3, <2>3a
      <4>6. Pc(u) = "clast" => Minds(u)
        BY DEF Minds, Working
      <4> QED BY <1>1, <2>2, <3>1, <4>1, <4>3, <4>4, <4>5, <4>6, WorkFrame
    <3>2. WorkOf(t)'
      BY <1>0, <1>1, <2>2, <2>3a, <2>3b DEF WorkOf, Filling, Counted
    <3> QED BY <3>1, <3>2 DEF WorkOK
  <2>10. RefsOK'
    <3> SUFFICES ASSUME NEW x \in Sets PROVE RefsOf(x)'
      BY DEF RefsOK
    <3>0. RefsOf(x) /\ Owed(x)' = Owed(x) /\ (Unused(x)' <=> Unused(x))
      BY <1>0, <2>2, CountFrame DEF Inv, RefsOK, Forking
    <3>1. /\ Cardinality(Sharing(m)') = Cardinality(Sharing(m)) + 1
          /\ \A y \in Sets : y # m => Sharing(y)' = Sharing(y)
      BY <1>0, <2>3, <2>3a, <2>3b, SharingGrows
    <3>2. \A y \in Sets : y # s => Pend(y)' = Pend(y)
      BY <1>0, <2>2, CountFrame
    <3>3. CASE x # s /\ x # m
      BY <3>0, <3>1, <3>2, <3>3, <2>3, RefsFrame
    <3>4. CASE x = s
      <4>1. Pend(s)' = 1
        BY <1>0, <2>2, CountFrame DEF Counted
      <4>2. Owed(s)' = 0 /\ Sharing(s)' = {}
        BY <1>0, <3>0, <3>1, <3>4, OfLiving
      <4>3. Cardinality(slot'[s].atl) = 0 /\ Cardinality(Sharing(s)') = 0
        BY <4>2, <2>3a, <2>3b, CardOne
      <4> QED BY <3>4, <4>1, <4>2, <4>3, <2>3a DEF RefsOf
    <3>5. CASE x = m
      <4>1. slot[m].refs = 1 + Cardinality(Sharing(m)) /\ slot[m].atl = {Cache} /\ Pend(m) = 0 /\ Owed(m) = 0
        BY <1>0, <1>3, OfFile
      <4>2. Cardinality(Sharing(m)) \in Nat /\ Cardinality({Cache}) = 1
        BY <1>0, Finite, CardOne
      <4>3. Pend(m)' = 0 /\ Owed(m)' = 0
        BY <4>1, <3>0, <3>2, <3>5, <1>0
      <4> QED BY <3>5, <4>1, <4>2, <4>3, <3>1, <2>3a DEF RefsOf
    <3> QED BY <3>3, <3>4, <3>5
  <2>11. ViewsOK'
    <3>1. \A u \in Users : Forking(u) => slot'[NewSet(u)].v = slot[NewSet(u)].v
      <4>1. \A u \in Users : Forking(u) => NewSet(u) \in Sets /\ NewSet(u) # s
        BY <1>0, OfLiving, Forks2, ForkStatics DEF Inv
      <4> QED BY <4>1, <2>3, <2>3a
    <3>2. \A x \in Sets : slot'[x].atl \ {Cache} = slot[x].atl \ {Cache}
      BY <2>3, <2>3a
    <3> QED BY <1>0, <1>1, <2>2, <3>1, <3>2, ViewsFrame DEF Alive
  <2>12. LifeOK'
    <3>1. Live(s)
      BY <1>0, Lively
    <3>2. \A x \in Sets : slot'[x].v => slot[x].v \/ (Kind[x] # "FILE" /\ Live(x))
      BY <3>1, <2>3, <2>3a, <1>0
    <3>3. /\ Alive(t)' <=> Alive(t) 
          /\ Forking(t)' <=> Forking(t)
          /\ Linking(t)' <=> Linking(t)
      BY <1>0, <2>2 DEF Alive, Forking, Linking
    <3>4. \A x \in Users : Pc(x)' = "none" => Pc(x) = "none"
      BY <2>2 DEF Pc
    <3> QED BY <1>1, <2>2, <3>2, <3>3, <3>4, LifeFrame DEF Inv
  <2>13. FramesOK'
    <3>1. \A u \in Users : thr'[u].pg = thr[u].pg
      BY <2>2
    <3>2. \A x \in Sets : \A f \in Frames : HasFrame(x, f)' <=> HasFrame(x, f)
      <4>1. \A x \in Sets : x # s => /\ slot'[x].v = slot[x].v /\ slot'[x].cow = slot[x].cow
                                     /\ slot'[x].pfn = slot[x].pfn
        BY <2>3, <2>3a
      <4>2. \A f \in Frames : ~HasFrame(s, f) /\ ~HasFrame(s, f)'
        BY <1>0, <2>3a DEF HasFrame
      <4> QED BY <4>1, <4>2 DEF HasFrame
    <3> QED BY <1>0, <1>1, <3>1, <3>2, FramesFrame DEF Inv, Types
  <2> QED BY <2>4, <2>5, <2>6, <2>7, <2>8, <2>9, <2>10, <2>11, <2>12, <2>13 DEF Core
<1> QED BY <1>2, <1>3
-----------------------------------------------------------------------------
(* Records of slots.                                                     *)

LEMMA SlotEdit ==
  ASSUME NEW p \in SlotType, NEW v \in BOOLEAN, NEW d \in BOOLEAN, NEW f \in Frames \cup {None},
         NEW r \in Int, NEW a \in SUBSET (Views \cup {Cache})
  PROVE  [p EXCEPT !.v = v, !.m = d, !.pfn = f, !.refs = r, !.atl = a] \in SlotType
<1> DEFINE F == Frames \cup {None}
           A == SUBSET (Views \cup {Cache})
<1>1. f \in F /\ a \in A /\ p \in [v : BOOLEAN, cow : BOOLEAN, swapped : BOOLEAN, m : BOOLEAN, refs : Int, pfn : F, atl : A]
  BY DEF SlotType
<1> HIDE DEF F, A
<1>2. [p EXCEPT !.v = v, !.m = d, !.pfn = f, !.refs = r, !.atl = a] \in
        [v : BOOLEAN, cow : BOOLEAN, swapped : BOOLEAN, m : BOOLEAN, refs : Int, pfn : F, atl : A]
  BY <1>1
<1> QED BY <1>2 DEF SlotType, F, A

\* The page that fills the slot of a file, and the slot that shares it.
LEMMA FilledFile ==
  ASSUME Inv, NEW t \in Users, Pc(t) \in {"core", "read"}, Filled(t, thr[t].on),
         Kind[thr[t].on] = "FILE",
         UNCHANGED <<prefs, gone, mapVars, free>>
  PROVE  Core'
<1> DEFINE s == SetOf(t)
           m == Master[s]
           f == thr[t].pg
           v == ViewOf[t]
           p == [slot[m] EXCEPT !.v = TRUE, !.m = FALSE, !.pfn = f, !.refs = 2, !.atl = @ \cup {Cache}]
<1>0. /\ thr[t] \in ThrType /\ s \in Sets /\ slot[s] \in SlotType /\ Types /\ LocksOK
      /\ t # None /\ Alive(t) /\ LockOf(t) /\ WorkOf(t) /\ SetOf(t)' = s
      /\ Kind[s] = "COW" /\ m \in Sets /\ thr[t].on = m /\ m # s /\ held[s] = t /\ held[m] = t
      /\ slot[m] \in SlotType /\ ~slot[s].v /\ ~slot[m].v /\ f \in Frames
  <2>1. thr[t] \in ThrType /\ s \in Sets /\ slot[s] \in SlotType /\ Types /\ LocksOK
      /\ t # None /\ Alive(t) /\ LockOf(t) /\ WorkOf(t) /\ Kind[s] # "FILE"
    BY Statics, RecordTypes DEF Inv, Alive, LocksOK, WorkOK
  <2>2. /\ held[s] = t /\ thr[t].on \in Sets /\ held[thr[t].on] = t /\ thr[t].on = FillSet(s)
        /\ ~slot[s].v /\ ~slot[thr[t].on].v
    BY <2>1, HeldWork DEF WorkOf, Working, Filling
  <2>3. Kind[s] = "COW" /\ thr[t].on = m /\ m # s
    BY <2>1, <2>2 DEF FillSet
  <2>4. f \in Frames
    BY <2>1 DEF LockOf, WithPage
  <2> QED BY <2>1, <2>2, <2>3, <2>4, RecordTypes DEF SetOf
<1>1. /\ slot' = [slot EXCEPT ![m] = p, ![s] = Shared(@, p.pfn)]
      /\ held' = [held EXCEPT ![m] = None]
      /\ thr' = [thr EXCEPT ![t].pc = "got", ![t].pg = None, ![t].on = None]
  <2>1. thr[t].on = m /\ Kind[m] = "FILE"
    BY <1>0
  <2> QED BY <2>1, Zenon DEF Filled
<1>2. /\ thr' \in [Users -> ThrType] /\ \A u \in Users : u # t => thr'[u] = thr[u]
      /\ Pc(t)' = "got" /\ thr'[t].pg = None /\ thr'[t].was = thr[t].was
  BY <1>0, <1>1 DEF Types, ThrType, Pcs, Pc
<1>3. p \in SlotType /\ p.pfn = f
  <2>1. slot[m].atl \cup {Cache} \in SUBSET (Views \cup {Cache})
    BY <1>0 DEF SlotType
  <2>2. [slot[m] EXCEPT !.v = TRUE, !.m = FALSE, !.pfn = f, !.refs = 2, !.atl = slot[m].atl \cup {Cache}] \in SlotType
    <3>1. /\ f \in Frames \cup {None} /\ 2 \in Int /\ TRUE \in BOOLEAN /\ FALSE \in BOOLEAN
          /\ slot[m] \in SlotType
      BY <1>0
    <3> QED BY <2>1, <3>1, SlotEdit, Zenon
  <2>3. p = [slot[m] EXCEPT !.v = TRUE, !.m = FALSE, !.pfn = f, !.refs = 2, !.atl = slot[m].atl \cup {Cache}]
    BY <1>0 DEF SlotType
  <2> QED BY <1>0, <2>2, <2>3 DEF SlotType
<1>4. /\ slot' \in [Sets -> SlotType] /\ \A x \in Sets : x # s /\ x # m => slot'[x] = slot[x]
      /\ slot'[m] = p
      /\ slot'[s] = Shared(slot[s], f)
  <2>1. Shared(slot[s], f) \in SlotType
    BY <1>0, SharedType
  <2>2. slot' = [slot EXCEPT ![m] = p, ![s] = Shared(slot[s], f)]
    BY <1>0, <1>1, <1>3 DEF Types
  <2> HIDE DEF p
  <2> QED BY <2>1, <2>2, <1>0, <1>3 DEF Types
<1>5. /\ slot[s].atl = {} /\ ~slot[s].swapped /\ ~slot[s].cow /\ ~pvalid[v]
      /\ slot[m].atl = {} /\ ~slot[m].swapped /\ ~slot[m].cow
  BY <1>0, Statics DEF Inv, ShapeOK, ShapeOf, ViewsOK, ValidOf
<1>6. /\ slot'[m].v /\ ~slot'[m].cow /\ slot'[m].atl = {Cache}
      /\ slot'[m].pfn = f /\ ~slot'[m].swapped /\ slot'[m].refs = 2
      /\ slot'[s].v /\ slot'[s].cow /\ slot'[s].atl = {} /\ slot'[s].refs = 1
      /\ ~slot'[s].swapped /\ slot'[s].pfn = f /\ slot'[m].cow = slot[m].cow
  BY <1>0, <1>4, <1>5 DEF SlotType, Shared
<1>7. UNCHANGED <<prefs, gone, pvalid, pte, free>>
  BY DEF mapVars
<1>8. Types'
  BY <1>0, <1>1, <1>2, <1>4, <1>7 DEF Types
<1>9. LocksOK'
  <2>1. Locked(t) = {s, m} /\ Locked(t)' = {s}
    BY <1>0, <1>2 DEF Locked, Working, Filling
  <2>2. \A x \in Sets : held'[x] = t <=> x \in Locked(t)'
    BY <1>0, <1>1, <2>1 DEF LockOf, Types
  <2>3. LockOf(t)'
    BY <1>2, <2>2, Statics DEF LockOf, Filling, WithPage
  <2> QED BY <1>0, <1>1, <1>2, <2>3, LocksFrame DEF Types
<1>10. ThreadsOK'
  BY <1>0, <1>2, ThreadsFrame DEF Inv, Alive, Forking, Leaving
<1>11. ShapeOK'
  <2> SUFFICES ASSUME NEW x \in Sets PROVE ShapeOf(x)'
    BY DEF ShapeOK
  <2>1. ShapeOf(x)
    BY DEF Inv, ShapeOK
  <2>2. CASE x = s
    BY <2>2, <1>0, <1>6 DEF ShapeOf
  <2>3. CASE x = m
    BY <2>3, <1>0, <1>6 DEF ShapeOf
  <2>4. CASE x # s /\ x # m
    BY <2>1, <2>4, <1>4 DEF ShapeOf
  <2> QED BY <2>2, <2>3, <2>4
<1>12. MastersOK'
  <2> SUFFICES ASSUME NEW x \in Sets, slot'[x].cow PROVE slot'[Master[x]].v
    BY DEF MastersOK
  <2>1. CASE x = s
    BY <2>1, <1>0, <1>6
  <2>2. CASE x # s
    <3>1. slot[x].cow
      BY <2>2, <1>4, <1>6
    <3>2. slot[Master[x]].v /\ Master[x] \in Sets
      BY <3>1, OfCow
    <3>3. Master[x] # s /\ Master[x] # m
      BY <3>2, <1>0
    <3> QED BY <3>2, <3>3, <1>4
  <2> QED BY <2>1, <2>2
<1>13. WorkOK'
  <2>1. ASSUME NEW u \in Users, u # t PROVE WorkOf(u)'
    <3>1. WorkOf(u) /\ SetOf(u) \in Sets /\ Kind[SetOf(u)] # "FILE"
      BY Statics DEF Inv, WorkOK
    <3>2. Minds(u) => SetOf(u) # s
      BY <1>0, <2>1, OthersMind
    <3>3. Minds(u) => slot'[SetOf(u)] = slot[SetOf(u)]
      BY <3>1, <3>2, <1>0, <1>4
    <3>4. Filling(u) => slot'[thr[u].on].v = slot[thr[u].on].v
      <4>1. Filling(u) => thr[u].on \in Sets /\ thr[u].on # s /\ thr[u].on # m
        BY <1>0, <2>1, HeldWork
      <4> QED BY <4>1, <1>4
    <3>5. Forking(u) => slot'[NewSet(u)].v = slot[NewSet(u)].v
      <4>1. Forking(u) => NewSet(u) \in Sets /\ NewSet(u) # s /\ NewSet(u) # m
        BY <1>0, OfLiving, OfFile, Forks2, ForkStatics DEF Inv
      <4> QED BY <4>1, <1>4
    <3>6. Pc(u) = "clast" => Minds(u)
      BY DEF Minds, Working
    <3> QED BY <1>2, <1>7, <2>1, <3>1, <3>3, <3>4, <3>5, <3>6, WorkFrame
  <2>2. WorkOf(t)'
    BY <1>0, <1>2, <1>5, <1>6, <1>7 DEF WorkOf, Filling, Counted
  <2> QED BY <2>1, <2>2 DEF WorkOK
<1>14. RefsOK'
  <2> SUFFICES ASSUME NEW x \in Sets PROVE RefsOf(x)'
    BY DEF RefsOK
  <2>0. RefsOf(x) /\ Owed(x)' = Owed(x) /\ (Unused(x)' <=> Unused(x))
    BY <1>0, <1>2, CountFrame DEF Inv, RefsOK, Forking
  <2>1. /\ Cardinality(Sharing(m)') = Cardinality(Sharing(m)) + 1
        /\ \A y \in Sets : y # m => Sharing(y)' = Sharing(y)
    BY <1>0, <1>4, <1>5, <1>6, SharingGrows
  <2>2. \A y \in Sets : y # s => Pend(y)' = Pend(y)
    BY <1>0, <1>2, CountFrame
  <2>3. CASE x # s /\ x # m
    BY <2>0, <2>1, <2>2, <2>3, <1>4, RefsFrame
  <2>4. CASE x = s
    <3>1. Pend(s)' = 1
      BY <1>0, <1>2, CountFrame DEF Counted
    <3>2. Owed(s)' = 0 /\ Sharing(s)' = {}
      BY <1>0, <2>0, <2>1, <2>4, OfLiving
    <3>3. Cardinality(slot'[s].atl) = 0 /\ Cardinality(Sharing(s)') = 0
      BY <3>2, <1>6, CardOne
    <3> QED BY <2>4, <3>1, <3>2, <3>3, <1>6 DEF RefsOf
  <2>5. CASE x = m
    <3>1. Pend(m) = 0 /\ Owed(m) = 0
      BY <1>0, OfFile
    <3>2. Sharing(m) = {}
      <4> SUFFICES ASSUME NEW y \in Sharing(m) PROVE FALSE
        OBVIOUS
      <4>1. y \in Sets /\ slot[y].cow /\ Master[y] = m
        BY DEF Sharing, CowSets
      <4> QED BY <4>1, <1>0, OfCow
    <3>3. Cardinality(Sharing(m)') = 1 /\ Cardinality(slot'[m].atl) = 1
      <4>1. Cardinality(Sharing(m)) = 0 /\ Cardinality({Cache}) = 1
        BY <3>2, CardOne
      <4> QED BY <4>1, <2>1, <1>6
    <3>4. Pend(m)' = 0 /\ Owed(m)' = 0
      BY <3>1, <2>0, <2>2, <2>5, <1>0
    <3> QED BY <2>5, <3>3, <3>4, <1>6 DEF RefsOf
  <2> QED BY <2>3, <2>4, <2>5
<1>15. ViewsOK'
  <2>1. \A u \in Users : Forking(u) => slot'[NewSet(u)].v = slot[NewSet(u)].v
    <3>1. \A u \in Users : Forking(u) => NewSet(u) \in Sets /\ NewSet(u) # s /\ NewSet(u) # m
      BY <1>0, OfLiving, OfFile, Forks2, ForkStatics DEF Inv
    <3> QED BY <3>1, <1>4
  <2>2. \A x \in Sets : slot'[x].atl \ {Cache} = slot[x].atl \ {Cache}
    BY <1>4, <1>5, <1>6
  <2>3. Alive(t)' /\ Pc(t) # "linked" /\ Pc(t)' # "linked"
    BY <1>2 DEF Alive
  <2> QED BY <1>0, <1>2, <1>7, <2>1, <2>2, <2>3, ViewsFrame
<1>16. LifeOK'
  <2>1. Live(s) /\ s \in LiveSets(m)
    BY <1>0, Lively
  <2>2. \A x \in Sets : slot'[x].v => \/ slot[x].v
                                      \/ Kind[x] # "FILE" /\ Live(x)
                                      \/ Kind[x] = "FILE" /\ LiveSets(x) # {}
    BY <2>1, <1>4, <1>6, <1>0
  <2>3. /\ Alive(t)' <=> Alive(t)
        /\ Forking(t)' <=> Forking(t)
        /\ Linking(t)' <=> Linking(t)
    BY <1>0, <1>2 DEF Alive, Forking, Linking
  <2>4. \A x \in Users : Pc(x)' = "none" => Pc(x) = "none"
    BY <1>2 DEF Pc
  <2> QED BY <1>7, <1>2, <2>2, <2>3, <2>4, LifeFrame DEF Inv
<1>17. FramesOK'
  <2>1. \A g \in Frames : ~HasFrame(m, g) /\ (HasFrame(m, g)' <=> g = f)
    BY <1>0, <1>6 DEF HasFrame
  <2>2. \A y \in Sets : y # m => \A g \in Frames : HasFrame(y, g)' <=> HasFrame(y, g)
    BY <1>0, <1>4, <1>6 DEF HasFrame
  <2> QED BY <1>0, <1>2, <1>7, <2>1, <2>2, FrameMoves
<1> QED BY <1>8, <1>9, <1>10, <1>11, <1>12, <1>13, <1>14, <1>15, <1>16, <1>17 DEF Core

\* The page that fills a slot of a thread's own set.
LEMMA FilledOwn ==
  ASSUME Inv, NEW t \in Users, Pc(t) \in {"core", "read"}, Filled(t, thr[t].on),
         Kind[thr[t].on] # "FILE",
         UNCHANGED <<prefs, gone, mapVars, free>>
  PROVE  Core'
<1> DEFINE s == SetOf(t)
           f == thr[t].pg
           v == ViewOf[t]
           p == [slot[s] EXCEPT !.v = TRUE, !.m = FALSE, !.pfn = f, !.refs = 1]
<1>0. /\ thr[t] \in ThrType /\ s \in Sets /\ slot[s] \in SlotType /\ Types /\ LocksOK
      /\ t # None /\ Alive(t) /\ LockOf(t) /\ WorkOf(t) /\ SetOf(t)' = s
      /\ thr[t].on = s /\ Kind[s] # "FILE" /\ held[s] = t
      /\ ~slot[s].v /\ f \in Frames
  <2>1. thr[t] \in ThrType /\ s \in Sets /\ slot[s] \in SlotType /\ Types /\ LocksOK
      /\ t # None /\ Alive(t) /\ LockOf(t) /\ WorkOf(t) /\ Kind[s] # "FILE"
    BY Statics, RecordTypes DEF Inv, Alive, LocksOK, WorkOK
  <2>2. held[s] = t /\ thr[t].on \in Sets /\ thr[t].on = FillSet(s) /\ ~slot[s].v
    BY <2>1, HeldWork DEF WorkOf, Working, Filling
  <2>3. thr[t].on = s
    BY <2>1, <2>2, Statics DEF FillSet
  <2>4. f \in Frames
    BY <2>1 DEF LockOf, WithPage
  <2> QED BY <2>1, <2>2, <2>3, <2>4 DEF SetOf
<1>1. /\ slot' = [slot EXCEPT ![s] = p]
      /\ held' = held
      /\ thr' = [thr EXCEPT ![t].pc = "got", ![t].pg = None, ![t].on = None]
  <2>1. thr[t].on = s /\ Kind[s] # "FILE"
    BY <1>0
  <2>2. [slot[s] EXCEPT !.v = TRUE, !.m = FALSE, !.pfn = f, !.refs = 1, !.atl = @] = p
    BY <1>0 DEF SlotType
  <2> QED BY <2>1, <2>2 DEF Filled
<1>2. /\ thr' \in [Users -> ThrType] /\ \A u \in Users : u # t => thr'[u] = thr[u]
      /\ Pc(t)' = "got" /\ thr'[t].pg = None /\ thr'[t].was = thr[t].was
  BY <1>0, <1>1 DEF Types, ThrType, Pcs, Pc
<1>3. p \in SlotType
  <2>1. slot[s].atl \in SUBSET (Views \cup {Cache})
    BY <1>0 DEF SlotType
  <2>2. [slot[s] EXCEPT !.v = TRUE, !.m = FALSE, !.pfn = f, !.refs = 1, !.atl = slot[s].atl] \in SlotType
    <3>1. /\ f \in Frames \cup {None} /\ 1 \in Int /\ TRUE \in BOOLEAN /\ FALSE \in BOOLEAN
          /\ slot[s] \in SlotType
      BY <1>0
    <3> QED BY <2>1, <3>1, SlotEdit, Zenon
  <2>3. p = [slot[s] EXCEPT !.v = TRUE, !.m = FALSE, !.pfn = f, !.refs = 1, !.atl = slot[s].atl]
    BY <1>0 DEF SlotType
  <2> QED BY <2>2, <2>3
<1>4. slot' \in [Sets -> SlotType] /\ slot'[s] = p /\ \A x \in Sets : x # s => slot'[x] = slot[x]
  <2> HIDE DEF p
  <2> QED BY <1>0, <1>1, <1>3 DEF Types
<1>5. slot[s].atl = {} /\ ~slot[s].swapped /\ ~slot[s].cow /\ ~pvalid[v]
  BY <1>0, Statics DEF Inv, ShapeOK, ShapeOf, ViewsOK, ValidOf
<1>6. /\ slot'[s].v /\ ~slot'[s].cow /\ slot'[s].atl = {}
      /\ slot'[s].pfn = f /\ ~slot'[s].swapped /\ slot'[s].refs = 1
  BY <1>0, <1>4, <1>5 DEF SlotType
<1>7. UNCHANGED <<prefs, gone, pvalid, pte, free>>
  BY DEF mapVars
<1>8. Types'
  BY <1>0, <1>1, <1>2, <1>4, <1>7 DEF Types
<1>9. LocksOK'
  <2>1. Locked(t) = {s} /\ Locked(t)' = {s}
    BY <1>0, <1>2 DEF Locked, Working, Filling
  <2>2. LockOf(t)'
    BY <1>0, <1>1, <1>2, <2>1, Statics DEF LockOf, Filling, WithPage
  <2> QED BY <1>0, <1>1, <1>2, <2>2, LocksFrame
<1>10. ThreadsOK'
  BY <1>0, <1>2, ThreadsFrame DEF Inv, Alive, Forking, Leaving
<1>11. ShapeOK'
  <2> SUFFICES ASSUME NEW x \in Sets PROVE ShapeOf(x)'
    BY DEF ShapeOK
  <2>1. ShapeOf(x)
    BY DEF Inv, ShapeOK
  <2>2. CASE x = s
    BY <2>2, <1>0, <1>6 DEF ShapeOf
  <2>3. CASE x # s
    BY <2>1, <2>3, <1>4 DEF ShapeOf
  <2> QED BY <2>2, <2>3
<1>12. MastersOK'
  <2> SUFFICES ASSUME NEW x \in Sets, slot'[x].cow PROVE slot'[Master[x]].v
    BY DEF MastersOK
  <2>1. slot[x].cow
    BY <1>4, <1>6
  <2>2. slot[Master[x]].v /\ Master[x] \in Sets
    BY <2>1, OfCow
  <2> QED BY <2>2, <1>4, <1>6
<1>13. WorkOK'
  <2>1. ASSUME NEW u \in Users, u # t PROVE WorkOf(u)'
    <3>1. WorkOf(u) /\ SetOf(u) \in Sets /\ Kind[SetOf(u)] # "FILE"
      BY Statics DEF Inv, WorkOK
    <3>2. Minds(u) /\ SetOf(u) = s => Pc(u) \in {"dlock", "drop"}
      BY <1>0, <2>1, OthersMind
    <3>3. CASE Minds(u) => SetOf(u) # s
      <4>3. Minds(u) => slot'[SetOf(u)] = slot[SetOf(u)]
        BY <3>1, <3>3, <1>0, <1>4
      <4>4. Filling(u) => slot'[thr[u].on].v = slot[thr[u].on].v
        <5>1. Filling(u) => thr[u].on \in Sets /\ thr[u].on # s
          BY <1>0, <2>1, HeldWork
        <5> QED BY <5>1, <1>4
      <4>5. Forking(u) => slot'[NewSet(u)].v = slot[NewSet(u)].v
        <5>1. Forking(u) => NewSet(u) \in Sets /\ NewSet(u) # s
          BY <1>0, OfLiving, Forks2, ForkStatics DEF Inv
        <5> QED BY <5>1, <1>4
      <4>6. Pc(u) = "clast" => Minds(u)
        BY DEF Minds, Working
      <4> QED BY <1>2, <1>7, <2>1, <3>1, <4>3, <4>4, <4>5, <4>6, WorkFrame
    <3>4. CASE Minds(u) /\ SetOf(u) = s
      <4>1. Pc(u)' = Pc(u) /\ Pc(u) \in {"dlock", "drop"} /\ SetOf(u)' = s /\ thr'[u].was = thr[u].was
        BY <1>2, <2>1, <3>2, <3>4 DEF Pc, SetOf
      <4> QED BY <3>1, <4>1, <1>6, <1>7 DEF WorkOf, Filling, Counted
    <3> QED BY <3>3, <3>4
  <2>2. WorkOf(t)'
    BY <1>0, <1>2, <1>5, <1>6, <1>7 DEF WorkOf, Filling, Counted
  <2> QED BY <2>1, <2>2 DEF WorkOK
<1>14. RefsOK'
  <2> SUFFICES ASSUME NEW x \in Sets PROVE RefsOf(x)'
    BY DEF RefsOK
  <2>0. RefsOf(x) /\ Owed(x)' = Owed(x) /\ (Unused(x)' <=> Unused(x))
    BY <1>0, <1>2, CountFrame DEF Inv, RefsOK, Forking
  <2>1. Sharing(x)' = Sharing(x)
    BY <1>4, <1>5, <1>6 DEF Sharing, CowSets
  <2>2. \A y \in Sets : y # s => Pend(y)' = Pend(y)
    BY <1>0, <1>2, CountFrame
  <2>3. CASE x # s
    BY <2>0, <2>1, <2>2, <2>3, <1>4, RefsFrame
  <2>4. CASE x = s
    <3>1. Pend(s)' = 1
      BY <1>0, <1>2, CountFrame DEF Counted
    <3>2. Owed(s)' = 0 /\ Sharing(s)' = {}
      BY <1>0, <2>0, <2>1, <2>4, OfLiving
    <3>3. Cardinality(slot'[s].atl) = 0 /\ Cardinality(Sharing(s)') = 0
      BY <3>2, <1>6, CardOne
    <3> QED BY <2>4, <3>1, <3>2, <3>3, <1>6 DEF RefsOf
  <2> QED BY <2>3, <2>4
<1>15. ViewsOK'
  <2>1. \A u \in Users : Forking(u) => slot'[NewSet(u)].v = slot[NewSet(u)].v
    <3>1. \A u \in Users : Forking(u) => NewSet(u) \in Sets /\ NewSet(u) # s
      BY <1>0, OfLiving, Forks2, ForkStatics DEF Inv
    <3> QED BY <3>1, <1>4
  <2>2. \A x \in Sets : slot'[x].atl \ {Cache} = slot[x].atl \ {Cache}
    BY <1>4, <1>5, <1>6
  <2>3. Alive(t)' /\ Pc(t) # "linked" /\ Pc(t)' # "linked"
    BY <1>2 DEF Alive
  <2> QED BY <1>0, <1>2, <1>7, <2>1, <2>2, <2>3, ViewsFrame
<1>16. LifeOK'
  <2>1. Live(s)
    BY <1>0, Lively
  <2>2. \A x \in Sets : slot'[x].v => slot[x].v \/ (Kind[x] # "FILE" /\ Live(x))
    BY <2>1, <1>4, <1>6, <1>0
  <2>3. /\ Alive(t)' <=> Alive(t)
        /\ Forking(t)' <=> Forking(t)
        /\ Linking(t)' <=> Linking(t)
    BY <1>0, <1>2 DEF Alive, Forking, Linking
  <2>4. \A x \in Users : Pc(x)' = "none" => Pc(x) = "none"
    BY <1>2 DEF Pc
  <2> QED BY <1>7, <1>2, <2>2, <2>3, <2>4, LifeFrame DEF Inv
<1>17. FramesOK'
  <2>1. \A g \in Frames : ~HasFrame(s, g) /\ (HasFrame(s, g)' <=> g = f)
    BY <1>0, <1>6 DEF HasFrame
  <2>2. \A y \in Sets : y # s => \A g \in Frames : HasFrame(y, g)' <=> HasFrame(y, g)
    BY <1>0, <1>4, <1>6 DEF HasFrame
  <2> QED BY <1>0, <1>2, <1>7, <2>1, <2>2, FrameMoves
<1> QED BY <1>8, <1>9, <1>10, <1>11, <1>12, <1>13, <1>14, <1>15, <1>16, <1>17 DEF Core
-----------------------------------------------------------------------------
(* A slot gets its page, and a view its translation.                     *)

LEMMA SetCoreStep ==
  ASSUME Inv, NEW t \in Users, SetCore(t)
  PROVE  Core'
<1>0. Pc(t) = "core" /\ UNCHANGED <<prefs, gone, mapVars, free>>
  BY Zenon DEF SetCore
<1>1. \/ Filled(t, thr[t].on)
      \/ Goes(t, "read") /\ UNCHANGED <<slot, held>>
  BY Zenon DEF SetCore
<1>2. CASE Filled(t, thr[t].on)
  BY <1>0, <1>2, FilledFile, FilledOwn
<1>3. CASE Goes(t, "read") /\ UNCHANGED <<slot, held>>
  <2>0. thr[t] \in ThrType /\ Types /\ LocksOK /\ LockOf(t) /\ WorkOf(t)
    BY RecordTypes DEF Inv, LocksOK, WorkOK
  <2>1. /\ thr' \in [Users -> ThrType] /\ \A u \in Users : u # t => thr'[u] = thr[u]
        /\ Pc(t)' = "read" /\ thr'[t].pg = thr[t].pg /\ thr'[t].was = thr[t].was /\ thr'[t].on = thr[t].on
    BY <1>3, <2>0 DEF Types, ThrType, Pcs, Pc, Goes
  <2>2. UNCHANGED <<slot, held, prefs, gone, pvalid, pte, free>>
    BY <1>0, <1>3 DEF mapVars
  <2>3. Types'
    BY <2>0, <2>1, <2>2 DEF Types
  <2>4. LocksOK'
    <3>1. Locked(t)' = Locked(t) /\ Filling(t) /\ SetOf(t)' = SetOf(t)
      BY <1>0, <2>1 DEF Locked, Filling, Working, SetOf
    <3>2. LockOf(t)'
      BY <3>1, <1>0, <2>0, <2>1, <2>2 DEF LockOf, FillSet, WithPage
    <3> QED BY <2>0, <2>1, <2>2, <3>2, LocksFrame
  <2>5. WorkOf(t)'
    BY <1>0, <2>0, <2>1, <2>2 DEF WorkOf, Filling, Counted, SetOf
  <2>6. ThreadsOK' /\ ShapeOK' /\ MastersOK' /\ WorkOK' /\ RefsOK' /\ ViewsOK' /\ LifeOK'
    <3>1. /\ Alive(t) /\ Alive(t)' /\ (Forking(t)' <=> Forking(t)) /\ (Linking(t)' <=> Linking(t))
          /\ (Pc(t)' = "linked" <=> Pc(t) = "linked") /\ (Pc(t)' = "clast" <=> Pc(t) = "clast")
          /\ (Leaving(t)' => Leaving(t)) /\ (Pc(t)' \in Counted <=> Pc(t) \in Counted)
      BY <1>0, <2>1 DEF Alive, Forking, Linking, Leaving, Counted
    <3> QED BY <2>1, <2>2, <2>5, <3>1, StillSlots
  <2>7. FramesOK'
    BY <2>1, <2>2, StillFrames
  <2> QED BY <2>3, <2>4, <2>6, <2>7 DEF Core
<1> QED BY <1>1, <1>2, <1>3

LEMMA PageInStep ==
  ASSUME Inv, NEW t \in Users, PageIn(t)
  PROVE  Core'
<1>1. Pc(t) = "read" /\ Filled(t, thr[t].on) /\ UNCHANGED <<prefs, gone, mapVars, free>>
  BY Zenon DEF PageIn, coreVars
<1> QED BY <1>1, FilledFile, FilledOwn

\* What a step does not disturb that changes only how often the slot of t is
\* referenced and what its attach list holds.
LEMMA OwnSlotFrame ==
  ASSUME Inv, NEW t \in Users, Alive(t), Alive(t)', held[SetOf(t)] \in {t, None},
         \A u \in Users : u # t => thr'[u] = thr[u],
         \A x \in Sets : x # SetOf(t) => slot'[x] = slot[x],
         slot'[SetOf(t)].v = slot[SetOf(t)].v, slot'[SetOf(t)].cow = slot[SetOf(t)].cow,
         \A w \in Views : w # ViewOf[t] => pvalid'[w] = pvalid[w]
  PROVE  \A u \in Users : u # t => WorkOf(u)'
<1> DEFINE s == SetOf(t)
<1> SUFFICES ASSUME NEW u \in Users, u # t PROVE WorkOf(u)'
  OBVIOUS
<1>1. /\ WorkOf(u) /\ SetOf(u) \in Sets /\ SetOf(u) = Of[ViewOf[u]] /\ ViewOf[u] \in Views
      /\ s = Of[ViewOf[t]] /\ s \in Sets
  BY Statics DEF Inv, WorkOK
<1>2. \A x \in Sets : slot'[x].v = slot[x].v /\ slot'[x].cow = slot[x].cow
  BY <1>1
<1>3. Minds(u) /\ Pc(u) # "flock" => pvalid'[ViewOf[u]] = pvalid[ViewOf[u]]
  <2>1. CASE ViewOf[u] # ViewOf[t]
    BY <2>1, <1>1
  <2>2. CASE Minds(u) /\ ViewOf[u] = ViewOf[t] /\ Pc(u) # "flock"
    <3>1. SetOf(u) = SetOf(t)
      BY <2>2, <1>1
    <3> QED BY <2>2, <3>1, OthersMind
  <2> QED BY <2>1, <2>2
<1>4. Pc(u) = "clast" => SetOf(u) # s
  BY HeldWork DEF Working
<1>5. Filling(u) => thr[u].on \in Sets
  BY HeldWork
<1>6. Forking(u) => NewSet(u) \in Sets
  BY Forks2, ForkStatics DEF Inv
<1> QED BY <1>1, <1>2, <1>3, <1>4, <1>5, <1>6, WorkFrame

LEMMA FramesStay ==
  ASSUME Inv, NEW t \in Users, free' = free, \A u \in Users : u # t => thr'[u] = thr[u],
         thr[t].pg \notin Frames, thr'[t].pg \notin Frames,
         \A s \in Sets : \A f \in Frames : HasFrame(s, f)' <=> HasFrame(s, f)
  PROVE  FramesOK'
<1>1. \A u \in Users : \A f \in Frames : thr'[u].pg = f <=> thr[u].pg = f
  OBVIOUS
<1>2. FramesOK /\ free \subseteq Frames
  BY DEF Inv, Types
<1>3. \A g \in Frames : \/ g \in free'
                        \/ \E s \in Sets : HasFrame(s, g)'
                        \/ \E u \in Users : thr'[u].pg = g
  BY <1>1, <1>2 DEF FramesOK
<1>4. \A g \in free' : (\A s \in Sets : ~HasFrame(s, g)') /\ \A u \in Users : thr'[u].pg # g
  BY <1>1, <1>2 DEF FramesOK
<1>5. \A g \in Frames, s \in Sets : HasFrame(s, g)' => \A u \in Users : thr'[u].pg # g
  BY <1>1, <1>2 DEF FramesOK
<1>6. \A g \in Frames, s, y \in Sets : HasFrame(s, g)' /\ HasFrame(y, g)' => s = y
  BY <1>1, <1>2 DEF FramesOK
<1>7. \A g \in Frames, u, w \in Users : thr'[u].pg = g /\ thr'[w].pg = g => u = w
  BY <1>1, <1>2 DEF FramesOK
<1> QED BY <1>3, <1>4, <1>5, <1>6, <1>7 DEF FramesOK

LEMMA MapStep ==
  ASSUME Inv, NEW t \in Users, Map(t)
  PROVE  Core'
<1> DEFINE s == SetOf(t)
           v == ViewOf[t]
           q == DerefSlot(s, slot[s])
<1>0. /\ thr[t] \in ThrType /\ s \in Sets /\ slot[s] \in SlotType /\ Types /\ LocksOK /\ ShapeOf(s)
      /\ Pc(t) = "got" /\ held[s] = t /\ t # None /\ Alive(t) /\ LockOf(t) /\ WorkOf(t)
      /\ slot[s].v /\ v \in Views /\ v # Cache /\ pte[v] \in PteType /\ Of[v] = s /\ SetOf(t)' = s
  <2>1. /\ thr[t] \in ThrType /\ s \in Sets /\ slot[s] \in SlotType /\ Types /\ LocksOK /\ ShapeOf(s)
        /\ Pc(t) = "got" /\ t # None /\ Alive(t) /\ LockOf(t) /\ WorkOf(t)
        /\ v \in Views /\ v # Cache /\ pte[v] \in PteType /\ Of[v] = s
    BY Statics, RecordTypes DEF Inv, Map, Alive, LocksOK, WorkOK, ShapeOK
  <2>2. held[s] = t /\ slot[s].v
    BY <2>1, HeldWork DEF WorkOf, Working
  <2> QED BY <2>1, <2>2 DEF SetOf
<1>a. /\ Owed(s) = 0 /\ Sharing(s) = {} /\ Sharing(s)' = {} /\ Pend(s) = 1
      /\ slot[s].refs = Cardinality(slot[s].atl) + 1
      /\ IsFiniteSet(slot[s].atl) /\ Cardinality(slot[s].atl) \in Nat /\ slot[s].refs \in Int
      /\ Kind[s] # "FILE"
  <2>1. Owed(s) = 0 /\ Sharing(s) = {} /\ slot[s].refs = Cardinality(slot[s].atl) + Pend(s)
    BY <1>0, OfLiving
  <2>2. Pend(s) = 1
    BY <1>0 DEF Pend, Counted
  <2>3. Kind[s] # "FILE"
    BY Statics
  <2> QED BY <1>0, <2>1, <2>2, <2>3, Finite, NoSharing
<1>1. /\ held' = [held EXCEPT ![s] = None] /\ thr' = [thr EXCEPT ![t] = At("user")]
      /\ UNCHANGED <<prefs, gone>>
  BY Zenon DEF Map, Back
<1>2. /\ thr' \in [Users -> ThrType] /\ \A u \in Users : u # t => thr'[u] = thr[u]
      /\ Pc(t)' = "user" /\ thr'[t].pg = None /\ thr'[t].was = FALSE
      /\ held' \in [Sets -> Users \cup {None}]
  BY <1>0, <1>1 DEF Types, At, ThrType, Pcs, Pc
<1>3. LocksOK'
  <2>1. Locked(t) = {s} /\ Locked(t)' = {}
    BY <1>0, <1>2 DEF Locked, Working, Filling
  <2>2. LockOf(t)'
    BY <1>0, <1>1, <1>2, <2>1, Statics DEF LockOf, Filling, WithPage, Types
  <2> QED BY <1>0, <1>1, <1>2, <2>2, LocksFrame DEF Types
<1>4. ThreadsOK'
  BY <1>0, <1>2, ThreadsFrame DEF Inv, Alive, Forking, Leaving
<1>5. WorkOf(t)'
  BY <1>2 DEF WorkOf, Filling, Counted
<1>6. /\ Alive(t)' /\ (Forking(t)' <=> Forking(t)) /\ (Linking(t)' <=> Linking(t))
      /\ Pc(t) # "linked" /\ Pc(t)' # "linked" /\ Pc(t) # "clast" /\ Pc(t)' # "clast"
      /\ \A x \in Users : Pc(x)' = "none" => Pc(x) = "none"
  BY <1>0, <1>2 DEF Alive, Forking, Linking, Pc
<1>7. /\ \A x \in Sets : x # s => Pend(x)' = Pend(x)
      /\ Pend(s)' = 0
      /\ \A x \in Sets : Owed(x)' = Owed(x) /\ (Unused(x)' <=> Unused(x))
  <2>1. Pend(s)' = 0
    BY <1>0, <1>2, CountFrame DEF Counted
  <2> QED BY <2>1, <1>0, <1>2, <1>6, CountFrame
<1>f. thr[t].pg \notin Frames /\ thr'[t].pg \notin Frames
  BY <1>0, <1>2, Statics DEF LockOf, WithPage
<1>8. CASE pvalid[v]
  <2>0. v \in slot[s].atl /\ slot[s].refs > 1
    <3>1. v \in slot[s].atl
      BY <1>0, <1>8 DEF Inv, ViewsOK, ValidOf
    <3>2. Cardinality(slot[s].atl) # 0
      BY <3>1, <1>a, FS_EmptySet
    <3> QED BY <3>1, <3>2, <1>a
  <2>1. q = [slot[s] EXCEPT !.refs = @ - 1] /\ Lost(slot[s], q) = {}
    <3>1. q = [slot[s] EXCEPT !.refs = @ - 1]
      BY <1>0, <1>a, <2>0 DEF DerefSlot, SlotType
    <3>2. q.v = slot[s].v
      BY <3>1, <1>0 DEF SlotType
    <3> QED BY <3>1, <3>2, <1>0 DEF Lost
  <2>2. slot' = [slot EXCEPT ![s] = q] /\ free' = free \cup Lost(slot[s], q) /\ UNCHANGED <<pvalid, pte>>
    BY <1>8, Zenon DEF Map, FreePages, mapVars
  <2>3. slot' = [slot EXCEPT ![s] = [slot[s] EXCEPT !.refs = @ - 1]] /\ UNCHANGED <<pvalid, pte, free>>
    BY <2>1, <2>2
  <2>4. /\ slot' \in [Sets -> SlotType] /\ \A x \in Sets : x # s => slot'[x] = slot[x]
        /\ slot'[s].refs = slot[s].refs - 1
        /\ \A x \in Sets : /\ slot'[x].v = slot[x].v /\ slot'[x].cow = slot[x].cow
                           /\ slot'[x].atl = slot[x].atl /\ slot'[x].pfn = slot[x].pfn
                           /\ slot'[x].swapped = slot[x].swapped
    BY <2>3, <1>0 DEF Types, SlotType
  <2>5. Types'
    BY <1>0, <1>1, <1>2, <2>3, <2>4 DEF Types
  <2>6. ShapeOK'
    <3> SUFFICES ASSUME NEW x \in Sets PROVE ShapeOf(x)'
      BY DEF ShapeOK
    <3>1. ShapeOf(x)
      BY DEF Inv, ShapeOK
    <3> QED BY <3>1, <1>0, <2>4 DEF ShapeOf
  <2>7. MastersOK'
    BY <2>4, OfCow DEF MastersOK, Inv
  <2>8. WorkOK'
    <3>1. \A u \in Users : u # t => WorkOf(u)'
      BY <1>0, <1>2, <1>6, <2>3, <2>4, OwnSlotFrame
    <3> QED BY <3>1, <1>5 DEF WorkOK
  <2>9. RefsOK'
    <3> SUFFICES ASSUME NEW x \in Sets PROVE RefsOf(x)'
      BY DEF RefsOK
    <3>1. RefsOf(x) /\ Sharing(x)' = Sharing(x)
      BY <2>4, SharingFrame DEF Inv, RefsOK, CowSets
    <3>2. CASE x # s
      BY <3>1, <3>2, <1>7, <2>4, RefsFrame
    <3>3. CASE x = s
      <4>1. Cardinality(Sharing(s)') = 0 /\ Owed(s)' = 0
        BY <1>0, <1>a, <1>7, CardOne
      <4>2. slot'[s].refs > 0 /\ slot'[s].refs = Cardinality(slot'[s].atl)
        BY <1>0, <1>a, <2>0, <2>4
      <4> QED BY <3>3, <4>1, <4>2, <1>7, <1>0, <1>a, <2>4 DEF RefsOf
    <3> QED BY <3>2, <3>3
  <2>10. ViewsOK'
    <3>1. \A u \in Users : Forking(u) => slot'[NewSet(u)].v = slot[NewSet(u)].v
      BY <2>4, Forks2, ForkStatics DEF Inv
    <3> QED BY <1>0, <1>2, <1>6, <2>3, <2>4, <3>1, ViewsFrame
  <2>11. LifeOK'
    BY <1>0, <1>1, <1>2, <1>6, <2>4, LifeFrame DEF Inv
  <2>12. FramesOK'
    <3>2. \A x \in Sets : \A f \in Frames : HasFrame(x, f)' <=> HasFrame(x, f)
      BY <2>4 DEF HasFrame
    <3> QED BY <1>0, <1>2, <1>f, <2>3, <3>2, FramesStay
  <2> QED BY <1>3, <1>4, <2>5, <2>6, <2>7, <2>8, <2>9, <2>10, <2>11, <2>12 DEF Core
<1>9. CASE ~pvalid[v]
  <2>1. /\ slot' = [slot EXCEPT ![s].atl = @ \cup {v}]
        /\ pte' = [pte EXCEPT ![v] = [v |-> TRUE, ro |-> ProtRO(v, slot[s]), m |-> FALSE, pfn |-> slot[s].pfn]]
        /\ pvalid' = [pvalid EXCEPT ![v] = TRUE]
        /\ UNCHANGED free
    BY <1>9, Zenon DEF Map, coreVars
  <2>2. v \notin slot[s].atl
    BY <1>0, <1>9, OfLiving
  <2>3. /\ slot' \in [Sets -> SlotType] /\ \A x \in Sets : x # s => slot'[x] = slot[x]
        /\ slot'[s].atl = slot[s].atl \cup {v}
        /\ \A x \in Sets : /\ slot'[x].v = slot[x].v /\ slot'[x].cow = slot[x].cow
                           /\ slot'[x].refs = slot[x].refs /\ slot'[x].pfn = slot[x].pfn
                           /\ slot'[x].swapped = slot[x].swapped
    BY <2>1, <1>0 DEF Types, SlotType
  <2>4. /\ pvalid' \in [Views -> BOOLEAN] /\ pvalid'[v] /\ \A w \in Views : w # v => pvalid'[w] = pvalid[w]
        /\ \A w \in Views : w # v => pte'[w] = pte[w]
    BY <2>1, <1>0 DEF Types
  <2>5. pte' \in [Views -> PteType]
    <3>1. ProtRO(v, slot[s]) \in BOOLEAN
      BY <1>0 DEF ProtRO, SlotType
    <3>2. [v |-> TRUE, ro |-> ProtRO(v, slot[s]), m |-> FALSE, pfn |-> slot[s].pfn] \in PteType
      BY <3>1, <1>0 DEF PteType, SlotType
    <3> QED BY <2>1, <3>2, <1>0 DEF Types
  <2>6. Types'
    BY <1>0, <1>1, <1>2, <2>1, <2>3, <2>4, <2>5 DEF Types
  <2>7. ShapeOK'
    <3> SUFFICES ASSUME NEW x \in Sets PROVE ShapeOf(x)'
      BY DEF ShapeOK
    <3>1. ShapeOf(x)
      BY DEF Inv, ShapeOK
    <3> QED BY <3>1, <1>0, <1>a, <2>3 DEF ShapeOf
  <2>8. MastersOK'
    BY <2>3, OfCow DEF MastersOK, Inv
  <2>9. WorkOK'
    <3>1. \A u \in Users : u # t => WorkOf(u)'
      BY <1>0, <1>2, <1>6, <2>4, <2>3, OwnSlotFrame
    <3> QED BY <3>1, <1>5 DEF WorkOK
  <2>10. RefsOK'
    <3> SUFFICES ASSUME NEW x \in Sets PROVE RefsOf(x)'
      BY DEF RefsOK
    <3>1. RefsOf(x) /\ Sharing(x)' = Sharing(x)
      BY <2>3, SharingFrame DEF Inv, RefsOK, CowSets
    <3>2. CASE x # s
      BY <3>1, <3>2, <1>7, <2>3, RefsFrame
    <3>3. CASE x = s
      <4>1. Cardinality(Sharing(s)') = 0 /\ Owed(s)' = 0
        BY <1>0, <1>a, <1>7, CardOne
      <4>2. Cardinality(slot'[s].atl) = Cardinality(slot[s].atl) + 1
        BY <1>a, <2>2, <2>3, CardAdd
      <4>3. slot'[s].refs > 0 /\ slot'[s].refs = Cardinality(slot'[s].atl)
        BY <1>0, <1>a, <4>2, <2>3
      <4> QED BY <3>3, <4>1, <4>3, <1>7, <1>0, <1>a, <2>3 DEF RefsOf
    <3> QED BY <3>2, <3>3
  <2>11. ViewsOK'
    <3>0. ViewsOK /\ ThreadsOK
      BY DEF Inv
    <3>a. \A u \in Users : /\ Pc(u)' = "none" <=> Pc(u) = "none"
                           /\ Pc(u)' = "linked" <=> Pc(u) = "linked"
                           /\ Alive(u)' <=> Alive(u)
                           /\ NewView(u)' = NewView(u) /\ NewSet(u)' = NewSet(u)
      BY <1>0, <1>2, <1>6 DEF Alive, Pc, NewView, NewSet
    <3>1. ASSUME NEW w \in Views PROVE ValidOf(w)'
      <4>1. CASE w = v
        BY <4>1, <1>0, <1>6, <2>3 DEF ValidOf
      <4>2. CASE w # v
        <5>1. w \in slot'[Of[w]].atl <=> w \in slot[Of[w]].atl
          BY <4>2, <2>3, Statics
        <5> QED BY <4>2, <5>1, <2>4, <3>0, <3>a DEF ViewsOK, ValidOf
      <4> QED BY <4>1, <4>2
    <3>2. ASSUME NEW x \in Sets PROVE ListOf(x)'
      <4> SUFFICES ASSUME NEW w \in slot'[x].atl \ {Cache}
                   PROVE Of[w] = x /\ (pvalid'[w] \/ \E u \in Users : Pc(u)' = "linked" /\ NewView(u)' = w)
        BY Zenon DEF ListOf
      <4>1. CASE w = v /\ x = s
        BY <4>1, <1>0, <2>4
      <4>2. CASE w \in slot[x].atl
        <5>1. w \in Views
          BY <4>2, <1>0, RecordTypes DEF SlotType
        <5>2. Of[w] = x /\ (pvalid[w] \/ \E u \in Users : Pc(u) = "linked" /\ NewView(u) = w)
          BY <4>2, <3>0 DEF ViewsOK, ListOf
        <5> QED BY <5>1, <5>2, <2>4, <3>a
      <4> QED BY <4>1, <4>2, <2>3
    <3>3. ASSUME NEW u \in Users PROVE LinkedOf(u)'
      <4>1. CASE Pc(u) = "linked"
        <5>1. /\ NewView(u) \in Views /\ NewSet(u) \in Sets /\ NewView(u) # v /\ NewSet(u) # s
          BY <4>1, <1>0, <3>0, Forks2, ForkStatics, OfLiving DEF Forking
        <5> QED BY <5>1, <4>1, <3>0, <3>a, <2>3, <2>4 DEF ViewsOK, LinkedOf
      <4> QED BY <4>1, <3>a DEF LinkedOf
    <3>4. ASSUME NEW u \in Users PROVE UnbornOf(u)'
      <4>1. Pc(u) = "none" => ViewOf[u] # v /\ ViewOf[u] \in Views
        BY <1>0, <3>0, Unborn, Statics
      <4> QED BY <4>1, <3>0, <3>a, <2>4 DEF ViewsOK, UnbornOf
    <3> QED BY <3>1, <3>2, <3>3, <3>4 DEF ViewsOK
  <2>12. LifeOK'
    BY <1>0, <1>1, <1>2, <1>6, <2>3, LifeFrame DEF Inv
  <2>13. FramesOK'
    <3>2. \A x \in Sets : \A f \in Frames : HasFrame(x, f)' <=> HasFrame(x, f)
      BY <2>3 DEF HasFrame
    <3> QED BY <1>0, <1>2, <1>f, <2>1, <3>2, FramesStay
  <2> QED BY <1>3, <1>4, <2>6, <2>7, <2>8, <2>9, <2>10, <2>11, <2>12, <2>13 DEF Core
<1> QED BY <1>8, <1>9
-----------------------------------------------------------------------------
(* A COW slot loses its last view, and the thread its master.            *)

\* A slot that a view has left.
ViewOut(p, v) == [p EXCEPT !.refs = @ - 1, !.atl = @ \ {v}]

LEMMA ViewOutType ==
  ASSUME NEW p \in SlotType, NEW v
  PROVE  /\ ViewOut(p, v) \in SlotType
         /\ ViewOut(p, v).refs = p.refs - 1 /\ ViewOut(p, v).atl = p.atl \ {v}
         /\ ViewOut(p, v).v = p.v /\ ViewOut(p, v).cow = p.cow /\ ViewOut(p, v).pfn = p.pfn
         /\ ViewOut(p, v).swapped = p.swapped /\ ViewOut(p, v).m = p.m
<1> DEFINE F == Frames \cup {None}
           A == SUBSET (Views \cup {Cache})
<1>1. /\ p.atl \ {v} \in A /\ p.refs - 1 \in Int
      /\ p \in [v : BOOLEAN, cow : BOOLEAN, swapped : BOOLEAN, m : BOOLEAN, refs : Int, pfn : F, atl : A]
  BY DEF SlotType
<1> HIDE DEF F, A
<1> DEFINE q == ViewOut(p, v)
<1>2. /\ q \in [v : BOOLEAN, cow : BOOLEAN, swapped : BOOLEAN, m : BOOLEAN, refs : Int, pfn : F, atl : A]
      /\ q.refs = p.refs - 1 /\ q.atl = p.atl \ {v}
      /\ q.v = p.v /\ q.cow = p.cow /\ q.pfn = p.pfn /\ q.swapped = p.swapped /\ q.m = p.m
  BY <1>1 DEF ViewOut
<1> QED BY <1>2 DEF SlotType, F, A

LEMMA BreakCowStep ==
  ASSUME Inv, NEW t \in Users, BreakCow(t)
  PROVE  Core' /\ panic' = panic
<1> DEFINE s == SetOf(t)
           v == ViewOf[t]
<1>0. /\ thr[t] \in ThrType /\ s \in Sets /\ slot[s] \in SlotType /\ Types /\ LocksOK /\ ShapeOf(s)
      /\ Pc(t) = "got" /\ held[s] = t /\ t # None /\ Alive(t) /\ LockOf(t) /\ WorkOf(t)
      /\ slot[s].v /\ slot[s].cow /\ v \in Views /\ v # Cache /\ Of[v] = s /\ SetOf(t)' = s
      /\ Kind[s] = "COW" /\ slot[s].atl = IF pvalid[v] THEN {v} ELSE {}
  <2>1. /\ thr[t] \in ThrType /\ s \in Sets /\ slot[s] \in SlotType /\ Types /\ LocksOK /\ ShapeOf(s)
        /\ Pc(t) = "got" /\ t # None /\ Alive(t) /\ LockOf(t) /\ WorkOf(t)
        /\ slot[s].cow /\ v \in Views /\ v # Cache /\ Of[v] = s
    BY Statics, RecordTypes DEF Inv, BreakCow, BreaksCow, Alive, LocksOK, WorkOK, ShapeOK
  <2>2. held[s] = t /\ slot[s].v
    BY <2>1, HeldWork DEF WorkOf, Working
  <2>3. Kind[s] = "COW" /\ slot[s].atl = IF pvalid[v] THEN {v} ELSE {}
    BY <2>1, OfCow, OfCowList
  <2> QED BY <2>1, <2>2, <2>3 DEF SetOf
<1>w. /\ thr[t].was => pvalid[v]
      /\ ~thr[t].was => ~pvalid[v]
      /\ slot[s].refs = Cardinality(slot[s].atl) + 1 /\ Owed(s) = 0 /\ Sharing(s) = {} /\ Sharing(s)' = {}
  <2>1. Pend(s) = 1
    BY <1>0 DEF Pend, Counted
  <2>2. slot[s].refs = Cardinality(slot[s].atl) + Pend(s) /\ Owed(s) = 0
    BY <1>0, OfLiving
  <2> QED BY <1>0, <2>1, <2>2, NoSharing DEF WorkOf
<1>1. /\ slot' = [slot EXCEPT ![s] = IF thr[t].was THEN [slot[s] EXCEPT !.refs = @ - 1,
                                                       !.atl = IF pvalid[v] THEN @ \ {v} ELSE @]
                                                  ELSE slot[s]]
      /\ pvalid' = IF thr[t].was THEN [pvalid EXCEPT ![v] = FALSE] ELSE pvalid
      /\ thr' = [thr EXCEPT ![t].pc = "calloc"]
      /\ UNCHANGED <<held, prefs, gone, pte, free, panic>>
  <2>1. ~(thr[t].was /\ pvalid[v] /\ v \notin slot[s].atl)
    BY <1>0
  <2> QED BY <2>1, Zenon DEF BreakCow, coreVars, Goes
<1>2. /\ thr' \in [Users -> ThrType] /\ \A u \in Users : u # t => thr'[u] = thr[u]
      /\ Pc(t)' = "calloc" /\ thr'[t].pg = thr[t].pg /\ thr'[t].was = thr[t].was
  BY <1>0, <1>1 DEF Types, ThrType, Pcs, Pc
<1>3. LocksOK'
  <2>1. Locked(t) = {s} /\ Locked(t)' = {s}
    BY <1>0, <1>2 DEF Locked, Working, Filling
  <2>2. LockOf(t)'
    BY <1>0, <1>1, <1>2, <2>1, Statics DEF LockOf, Filling, WithPage
  <2> QED BY <1>0, <1>1, <1>2, <2>2, LocksFrame
<1>4. /\ Alive(t)' /\ (Forking(t)' <=> Forking(t)) /\ (Linking(t)' <=> Linking(t))
      /\ (Pc(t)' = "linked" <=> Pc(t) = "linked") /\ (Pc(t)' = "clast" <=> Pc(t) = "clast")
      /\ (Leaving(t)' => Leaving(t)) /\ (Pc(t)' \in Counted <=> Pc(t) \in Counted)
      /\ \A x \in Users : Pc(x)' = "none" => Pc(x) = "none"
  BY <1>0, <1>2 DEF Alive, Forking, Linking, Leaving, Counted, Pc
<1>5. CASE ~thr[t].was
  <2>1. slot' = slot /\ pvalid' = pvalid
    BY <1>0, <1>1, <1>5 DEF Types
  <2>2. Types'
    BY <1>0, <1>1, <1>2, <2>1 DEF Types
  <2>3. WorkOf(t)'
    BY <1>0, <1>w, <1>2, <1>5, <2>1 DEF WorkOf, Filling, Counted
  <2>4. ThreadsOK' /\ ShapeOK' /\ MastersOK' /\ WorkOK' /\ RefsOK' /\ ViewsOK' /\ LifeOK'
    BY <1>0, <1>1, <1>2, <1>4, <2>1, <2>3, StillSlots
  <2>5. FramesOK'
    BY <1>1, <1>2, <2>1, StillFrames
  <2> QED BY <1>1, <1>3, <2>2, <2>4, <2>5 DEF Core
<1>6. CASE thr[t].was
  <2>1. /\ slot' = [slot EXCEPT ![s] = [slot[s] EXCEPT !.refs = @ - 1, !.atl = @ \ {v}]]
        /\ pvalid' = [pvalid EXCEPT ![v] = FALSE] /\ pvalid[v]
    BY <1>1, <1>w, <1>6
  <2>2. /\ slot' \in [Sets -> SlotType] /\ \A x \in Sets : x # s => slot'[x] = slot[x]
        /\ slot'[s].refs = slot[s].refs - 1 /\ slot'[s].atl = slot[s].atl \ {v}
        /\ \A x \in Sets : /\ slot'[x].v = slot[x].v /\ slot'[x].cow = slot[x].cow
                           /\ slot'[x].pfn = slot[x].pfn /\ slot'[x].swapped = slot[x].swapped
    <3>1. slot' = [slot EXCEPT ![s] = ViewOut(slot[s], v)]
      BY <2>1 DEF ViewOut
    <3> QED BY <1>0, <3>1, ViewOutType DEF Types
  <2>3. slot[s].refs = 2 /\ slot'[s].refs = 1 /\ slot'[s].atl = {}
    <3>1. Cardinality({v}) = 1
      BY CardOne
    <3> QED BY <3>1, <1>0, <1>w, <2>1, <2>2
  <2>4. pvalid' \in [Views -> BOOLEAN] /\ ~pvalid'[v] /\ \A w \in Views : w # v => pvalid'[w] = pvalid[w]
    BY <2>1, <1>0 DEF Types
  <2>5. Types'
    BY <1>0, <1>1, <1>2, <2>2, <2>4 DEF Types
  <2>6. ThreadsOK'
    BY <1>0, <1>2, <1>4, ThreadsFrame DEF Inv
  <2>7. ShapeOK'
    <3> SUFFICES ASSUME NEW x \in Sets PROVE ShapeOf(x)'
      BY DEF ShapeOK
    <3>1. ShapeOf(x)
      BY DEF Inv, ShapeOK
    <3>2. CASE x = s
      BY <3>1, <3>2, <1>0, <2>2, <2>3 DEF ShapeOf
    <3>3. CASE x # s
      BY <3>1, <3>3, <2>2 DEF ShapeOf
    <3> QED BY <3>2, <3>3
  <2>8. MastersOK'
    BY <2>2, OfCow DEF MastersOK, Inv
  <2>9. WorkOK'
    <3>1. \A u \in Users : u # t => WorkOf(u)'
      BY <1>0, <1>2, <1>4, <2>4, <2>2, OwnSlotFrame
    <3>2. WorkOf(t)'
      BY <1>0, <1>2, <2>2, <2>4 DEF WorkOf, Filling, Counted
    <3> QED BY <3>1, <3>2 DEF WorkOK
  <2>10. RefsOK'
    <3> SUFFICES ASSUME NEW x \in Sets PROVE RefsOf(x)'
      BY DEF RefsOK
    <3>1. RefsOf(x) /\ Sharing(x)' = Sharing(x) /\ Pend(x)' = Pend(x) /\ Owed(x)' = Owed(x)
          /\ (Unused(x)' <=> Unused(x))
      BY <1>0, <1>2, <1>4, <2>2, SharingFrame, CountFrame DEF Inv, RefsOK, CowSets
    <3>2. CASE x # s
      BY <3>1, <3>2, <2>2, RefsFrame
    <3>3. CASE x = s
      <4>1. Pend(s)' = 1
        BY <1>0, <1>2, CountFrame DEF Counted
      <4>2. Owed(s)' = 0 /\ Cardinality(Sharing(s)') = 0 /\ Cardinality(slot'[s].atl) = 0
        BY <3>1, <3>3, <1>w, <2>3, CardOne
      <4> QED BY <3>3, <4>1, <4>2, <2>3 DEF RefsOf
    <3> QED BY <3>2, <3>3
  <2>11. ViewsOK'
    <3>0. ViewsOK /\ ThreadsOK
      BY DEF Inv
    <3>a. \A u \in Users : /\ Pc(u)' = "none" <=> Pc(u) = "none"
                           /\ Pc(u)' = "linked" <=> Pc(u) = "linked"
                           /\ Alive(u)' <=> Alive(u)
                           /\ NewView(u)' = NewView(u) /\ NewSet(u)' = NewSet(u)
      BY <1>0, <1>2, <1>4 DEF Alive, Pc, NewView, NewSet
    <3>1. ASSUME NEW w \in Views PROVE ValidOf(w)'
      <4>1. CASE w = v
        BY <4>1, <2>4 DEF ValidOf
      <4>2. CASE w # v
        <5>1. w \in slot'[Of[w]].atl <=> w \in slot[Of[w]].atl
          BY <4>2, <2>2, Statics
        <5> QED BY <4>2, <5>1, <2>4, <3>0, <3>a DEF ViewsOK, ValidOf
      <4> QED BY <4>1, <4>2
    <3>2. ASSUME NEW x \in Sets PROVE ListOf(x)'
      <4> SUFFICES ASSUME NEW w \in slot'[x].atl \ {Cache}
                   PROVE Of[w] = x /\ (pvalid'[w] \/ \E u \in Users : Pc(u)' = "linked" /\ NewView(u)' = w)
        BY Zenon DEF ListOf
      <4>1. w \in slot[x].atl /\ x # s
        BY <2>2, <2>3
      <4>2. w \in Views
        BY <4>1, <1>0, RecordTypes DEF SlotType
      <4>3. Of[w] = x /\ (pvalid[w] \/ \E u \in Users : Pc(u) = "linked" /\ NewView(u) = w)
        BY <4>1, <3>0 DEF ViewsOK, ListOf
      <4> QED BY <4>1, <4>2, <4>3, <1>0, <2>4, <3>a
    <3>3. ASSUME NEW u \in Users PROVE LinkedOf(u)'
      <4>1. CASE Pc(u) = "linked"
        <5>1. /\ NewView(u) \in Views /\ NewSet(u) \in Sets /\ NewView(u) # v /\ NewSet(u) # s
          BY <4>1, <1>0, <3>0, Forks2, ForkStatics, OfLiving DEF Forking
        <5> QED BY <5>1, <4>1, <3>0, <3>a, <1>1, <2>2 DEF ViewsOK, LinkedOf
      <4> QED BY <4>1, <3>a DEF LinkedOf
    <3>4. ASSUME NEW u \in Users PROVE UnbornOf(u)'
      BY <3>0, <3>a, <1>1 DEF ViewsOK, UnbornOf
    <3> QED BY <3>1, <3>2, <3>3, <3>4 DEF ViewsOK
  <2>12. LifeOK'
    BY <1>0, <1>1, <1>2, <1>4, <2>2, LifeFrame DEF Inv
  <2>13. FramesOK'
    <3>1. \A x \in Sets : \A f \in Frames : HasFrame(x, f)' <=> HasFrame(x, f)
      BY <2>2 DEF HasFrame
    <3>2. \A u \in Users : thr'[u].pg = thr[u].pg
      BY <1>2
    <3> QED BY <1>0, <1>1, <3>1, <3>2, FramesFrame DEF Inv, Types
  <2> QED BY <1>1, <1>3, <2>5, <2>6, <2>7, <2>8, <2>9, <2>10, <2>11, <2>12, <2>13 DEF Core
<1> QED BY <1>5, <1>6

\* The slots that share a page are those that did but s.
LEMMA SharingShrinks ==
  ASSUME Inv, NEW s \in Sets, slot[s].cow, ~slot'[s].cow,
         \A x \in Sets : x # s => slot'[x].cow = slot[x].cow
  PROVE  LET m == Master[s] IN
         /\ Sharing(m)' = Sharing(m) \ {s}
         /\ Cardinality(Sharing(m)') = Cardinality(Sharing(m)) - 1
         /\ \A x \in Sets : x # m => Sharing(x)' = Sharing(x)
<1>0. Master[s] \in Sets /\ s \in Sharing(Master[s])
  BY OfCow
<1>1. Sharing(Master[s])' = Sharing(Master[s]) \ {s}
  BY <1>0 DEF Sharing, CowSets
<1>2. \A x \in Sets : x # Master[s] => Sharing(x)' = Sharing(x)
  BY DEF Sharing, CowSets
<1>3. IsFiniteSet(Sharing(Master[s]))
  BY <1>0, Finite DEF Inv
<1> QED BY <1>0, <1>1, <1>2, <1>3, CardDel

\* A reference to a master is given back, and others are left.
LEMMA MasterKept ==
  ASSUME Inv, NEW s \in Sets, slot[s].cow
  PROVE  LET m == Master[s]  q == DerefSlot(m, slot[m]) IN
         q = [slot[m] EXCEPT !.refs = @ - 1] /\ Lost(slot[m], q) = {}
<1> DEFINE m == Master[s]
           q == DerefSlot(m, slot[m])
<1>1. m \in Sets /\ slot[m].v /\ slot[m].refs >= 2 /\ slot[m] \in SlotType
  BY OfCow, RecordTypes DEF Inv
<1>2. q = [slot[m] EXCEPT !.refs = @ - 1]
  BY <1>1 DEF DerefSlot, SlotType
<1>3. q.v
  BY <1>1, <1>2 DEF SlotType
<1> QED BY <1>1, <1>2, <1>3 DEF Lost

-----------------------------------------------------------------------------
(* A COW slot gets a page of its own, or is dropped.                     *)

\* What a step leaves that takes the COW slot of t off its master.
LEMMA LeaveMaster ==
  ASSUME Inv, NEW t \in Users, slot[SetOf(t)].cow,
         \A u \in Users : u # t => thr'[u] = thr[u],
         ~slot'[SetOf(t)].cow,
         \A x \in Sets : x # SetOf(t) /\ x # Master[SetOf(t)] => slot'[x] = slot[x],
         slot'[Master[SetOf(t)]] = [slot[Master[SetOf(t)]] EXCEPT !.refs = @ - 1],
         Pc(t) # "linked", Pc(t)' # "linked", ~Forking(t), ~Forking(t)',
         RefsOf(SetOf(t))'
  PROVE  /\ RefsOK' /\ MastersOK'
         /\ slot'[Master[SetOf(t)]] \in SlotType
         /\ LET m == Master[SetOf(t)] IN
            /\ m # SetOf(t) /\ m \in Sets /\ Kind[m] = "FILE"
            /\ slot'[m].v = slot[m].v /\ slot'[m].cow = slot[m].cow /\ slot'[m].atl = slot[m].atl
            /\ slot'[m].pfn = slot[m].pfn /\ slot'[m].swapped = slot[m].swapped
            /\ slot'[m].refs = slot[m].refs - 1
<1> DEFINE s == SetOf(t)
           m == Master[s]
<1>0. /\ Types /\ LocksOK /\ s \in Sets /\ m \in Sets /\ m # s /\ Kind[m] = "FILE" /\ Kind[s] = "COW"
      /\ slot[m] \in SlotType /\ slot[m].v /\ slot[m].refs >= 2 /\ slot[m].atl = {Cache}
      /\ slot[m].refs = 1 + Cardinality(Sharing(m))
  <2>1. Types /\ LocksOK /\ s \in Sets
    BY Statics DEF Inv
  <2> QED BY <2>1, OfCow, RecordTypes
<1>1. slot'[m] \in SlotType
  BY <1>0, MoreRefs
<1>2. /\ slot'[m].v = slot[m].v /\ slot'[m].cow = slot[m].cow /\ slot'[m].atl = slot[m].atl
      /\ slot'[m].pfn = slot[m].pfn /\ slot'[m].swapped = slot[m].swapped
      /\ slot'[m].refs = slot[m].refs - 1
  BY <1>0 DEF SlotType
<1>3. \A x \in Sets : x # s => slot'[x].cow = slot[x].cow /\ slot'[x].v = slot[x].v
  BY <1>2
<1>4. MastersOK'
  <2> SUFFICES ASSUME NEW x \in Sets, slot'[x].cow PROVE slot'[Master[x]].v
    BY DEF MastersOK
  <2>1. slot[x].cow /\ x # s
    BY <1>3
  <2>2. slot[Master[x]].v /\ Master[x] \in Sets /\ Kind[Master[x]] = "FILE"
    BY <2>1, OfCow
  <2> QED BY <2>2, <1>0, <1>3
<1>5. RefsOK'
  <2> SUFFICES ASSUME NEW x \in Sets, x # s PROVE RefsOf(x)'
    BY DEF RefsOK
  <2>0. RefsOf(x) /\ Pend(x)' = Pend(x) /\ Owed(x)' = Owed(x) /\ (Unused(x)' <=> Unused(x))
    BY <1>0, CountFrame DEF Inv, RefsOK
  <2>1. /\ Cardinality(Sharing(m)') = Cardinality(Sharing(m)) - 1
        /\ \A y \in Sets : y # m => Sharing(y)' = Sharing(y)
    BY <1>0, <1>3, SharingShrinks
  <2>2. CASE x # m
    BY <2>0, <2>1, <2>2, RefsFrame
  <2>3. CASE x = m
    <3>1. Pend(m)' = 0 /\ Owed(m)' = 0
      BY <1>0, <2>0, <2>3, OfFile
    <3>2. Cardinality(Sharing(m)) \in Nat
      BY <1>0, Finite
    <3>3. Cardinality(slot'[m].atl) = 1
      <4>1. Cardinality({Cache}) = 1
        BY CardOne
      <4> QED BY <4>1, <1>0, <1>2
    <3>4. slot'[m].refs = Cardinality(slot'[m].atl) + Cardinality(Sharing(m)') + Pend(m)' - Owed(m)'
      BY <3>1, <3>2, <3>3, <2>1, <1>0, <1>2
    <3>5. slot'[m].refs > 0 /\ slot'[m].refs >= 0
      <4>1. slot[m].refs \in Int
        BY <1>0, Finite
      <4> QED BY <4>1, <1>0, <1>2
    <3> QED BY <2>3, <3>4, <3>5 DEF RefsOf
  <2> QED BY <2>2, <2>3
<1> QED BY <1>0, <1>1, <1>2, <1>4, <1>5

\* The slot has a page of its own.
Owned(p, f) == [p EXCEPT !.cow = FALSE, !.pfn = f]

LEMMA OwnedType ==
  ASSUME NEW p \in SlotType, NEW f \in Frames
  PROVE  /\ Owned(p, f) \in SlotType
         /\ Owned(p, f).v = p.v /\ Owned(p, f).cow = FALSE /\ Owned(p, f).pfn = f
         /\ Owned(p, f).refs = p.refs /\ Owned(p, f).atl = p.atl /\ Owned(p, f).swapped = p.swapped
<1> DEFINE F == Frames \cup {None}
           A == SUBSET (Views \cup {Cache})
<1>1. f \in F /\ p \in [v : BOOLEAN, cow : BOOLEAN, swapped : BOOLEAN, m : BOOLEAN, refs : Int, pfn : F, atl : A]
  BY DEF SlotType
<1> HIDE DEF F, A
<1> DEFINE q == Owned(p, f)
<1>2. /\ q \in [v : BOOLEAN, cow : BOOLEAN, swapped : BOOLEAN, m : BOOLEAN, refs : Int, pfn : F, atl : A]
      /\ q.refs = p.refs /\ q.atl = p.atl
      /\ q.v = p.v /\ q.cow = FALSE /\ q.pfn = f /\ q.swapped = p.swapped
  BY <1>1 DEF Owned
<1> QED BY <1>2 DEF SlotType, F, A

LEMMA CowWriteStep ==
  ASSUME Inv, NEW t \in Users, CowWrite(t)
  PROVE  Core' /\ panic' = panic
<1> DEFINE s == SetOf(t)
           m == Master[s]
           f == thr[t].pg
           v == ViewOf[t]
           q == Owned(slot[s], f)
<1>0. /\ thr[t] \in ThrType /\ s \in Sets /\ slot[s] \in SlotType /\ Types /\ LocksOK /\ ShapeOf(s)
      /\ Pc(t) = "ccore" /\ held[s] = t /\ t # None /\ Alive(t) /\ LockOf(t) /\ WorkOf(t)
      /\ slot[s].v /\ slot[s].cow /\ SetOf(t)' = s /\ f \in Frames /\ ~pvalid[v]
      /\ Kind[s] = "COW" /\ m \in Sets /\ m # s /\ slot[m].v /\ Kind[m] = "FILE"
  <2>1. /\ thr[t] \in ThrType /\ s \in Sets /\ slot[s] \in SlotType /\ Types /\ LocksOK /\ ShapeOf(s)
        /\ Pc(t) = "ccore" /\ t # None /\ Alive(t) /\ LockOf(t) /\ WorkOf(t)
    BY Statics, RecordTypes DEF Inv, CowWrite, Alive, LocksOK, WorkOK, ShapeOK
  <2>2. held[s] = t /\ slot[s].v /\ slot[s].cow /\ ~pvalid[v]
    BY <2>1, HeldWork DEF WorkOf, Working
  <2>3. Kind[s] = "COW" /\ m \in Sets /\ m # s /\ slot[m].v /\ Kind[m] = "FILE"
    BY <2>1, <2>2, OfCow
  <2>4. f \in Frames
    BY <2>1 DEF LockOf, WithPage
  <2> QED BY <2>1, <2>2, <2>3, <2>4 DEF SetOf
<1>1. /\ slot' = [slot EXCEPT ![m] = DerefSlot(m, slot[m]), ![s].cow = FALSE, ![s].pfn = f]
      /\ free' = free \cup Lost(slot[m], DerefSlot(m, slot[m]))
      /\ thr' = [thr EXCEPT ![t].pc = "got", ![t].was = FALSE, ![t].pg = None]
      /\ UNCHANGED <<held, prefs, gone, pvalid, pte, panic>>
  BY <1>0, Zenon DEF CowWrite, mapVars
<1>2. /\ thr' \in [Users -> ThrType] /\ \A u \in Users : u # t => thr'[u] = thr[u]
      /\ Pc(t)' = "got" /\ thr'[t].pg = None /\ thr'[t].was = FALSE
  BY <1>0, <1>1 DEF Types, ThrType, Pcs, Pc
<1>3. free' = free /\ slot' = [slot EXCEPT ![m] = [slot[m] EXCEPT !.refs = @ - 1], ![s] = q]
  <2>1. DerefSlot(m, slot[m]) = [slot[m] EXCEPT !.refs = @ - 1] /\ Lost(slot[m], DerefSlot(m, slot[m])) = {}
    BY <1>0, MasterKept
  <2>2. q = [slot[s] EXCEPT !.cow = FALSE, !.pfn = f]
    BY DEF Owned
  <2>3. slot' = [slot EXCEPT ![m] = [slot[m] EXCEPT !.refs = @ - 1], ![s].cow = FALSE, ![s].pfn = f]
    BY <1>1, <2>1
  <2>4. slot' = [slot EXCEPT ![m] = [slot[m] EXCEPT !.refs = @ - 1], ![s] = [slot[s] EXCEPT !.cow = FALSE, !.pfn = f]]
    BY <2>3, <1>0 DEF Types
  <2> QED BY <1>1, <2>1, <2>2, <2>4
<1>4. /\ q \in SlotType /\ q.v = slot[s].v /\ q.cow = FALSE /\ q.pfn = f /\ q.refs = slot[s].refs
      /\ q.atl = slot[s].atl /\ q.swapped = slot[s].swapped
  <2>1. slot[s] \in SlotType /\ f \in Frames
    BY <1>0
  <2> QED BY <2>1, OwnedType
<1>5. /\ slot'[s] = q /\ slot'[m] = [slot[m] EXCEPT !.refs = @ - 1]
      /\ \A x \in Sets : x # s /\ x # m => slot'[x] = slot[x]
      /\ DOMAIN slot' = Sets /\ slot' = [x \in Sets |-> slot'[x]]
  <2> HIDE DEF q
  <2> QED BY <1>0, <1>3 DEF Types
<1> HIDE DEF q
<1>6. RefsOf(s)'
  <2>1. Sharing(s)' = Sharing(s)
    BY <1>0, NoSharing
  <2>2. Pend(s)' = Pend(s) /\ Owed(s)' = Owed(s) /\ (Unused(s)' <=> Unused(s))
    BY <1>0, <1>2, CountFrame DEF Counted, Forking
  <2>3. RefsOf(s)
    BY <1>0 DEF Inv, RefsOK
  <2>4. slot'[s].v = slot[s].v /\ slot'[s].refs = slot[s].refs /\ slot'[s].atl = slot[s].atl
    BY <1>4, <1>5
  <2> QED BY <1>0, <2>1, <2>2, <2>3, <2>4, RefsFrame
<1>7. /\ RefsOK' /\ MastersOK' /\ slot'[m] \in SlotType
      /\ slot'[m].v = slot[m].v /\ slot'[m].cow = slot[m].cow /\ slot'[m].atl = slot[m].atl
      /\ slot'[m].pfn = slot[m].pfn /\ slot'[m].swapped = slot[m].swapped
  <2>1. ~slot'[s].cow
    BY <1>4, <1>5
  <2>2. Pc(t) # "linked" /\ Pc(t)' # "linked" /\ ~Forking(t) /\ ~Forking(t)'
    BY <1>0, <1>2 DEF Forking
  <2> QED BY <1>0, <1>2, <1>5, <1>6, <2>1, <2>2, LeaveMaster
<1>8. Types'
  <2>1. slot' \in [Sets -> SlotType]
    <3>1. \A x \in Sets : slot'[x] \in SlotType
      BY <1>0, <1>4, <1>5, <1>7, RecordTypes
    <3> QED BY <3>1, <1>5
  <2> QED BY <1>0, <1>1, <1>2, <1>3, <2>1 DEF Types
<1>9. LocksOK'
  <2>1. Locked(t) = {s} /\ Locked(t)' = {s}
    BY <1>0, <1>2 DEF Locked, Working, Filling
  <2>2. LockOf(t)'
    BY <1>0, <1>1, <1>2, <2>1, Statics DEF LockOf, Filling, WithPage
  <2> QED BY <1>0, <1>1, <1>2, <2>2, LocksFrame
<1>10. ThreadsOK'
  BY <1>0, <1>2, ThreadsFrame DEF Inv, Alive, Forking, Leaving
<1>11. ShapeOK'
  <2> SUFFICES ASSUME NEW x \in Sets PROVE ShapeOf(x)'
    BY DEF ShapeOK
  <2>1. ShapeOf(x)
    BY DEF Inv, ShapeOK
  <2>2. CASE x = s
    BY <2>1, <2>2, <1>0, <1>4, <1>5 DEF ShapeOf
  <2>3. CASE x = m
    <3>1. slot'[m].refs = slot[m].refs - 1 /\ ~slot[m].swapped /\ slot[m].pfn \in Frames /\ ~slot[m].cow /\ slot[m].atl = {Cache}
      BY <1>0, <2>1, <2>3, <1>5, RecordTypes DEF ShapeOf, SlotType
    <3> QED BY <3>1, <2>3, <1>0, <1>7 DEF ShapeOf
  <2>4. CASE x # s /\ x # m
    BY <2>1, <2>4, <1>5 DEF ShapeOf
  <2> QED BY <2>2, <2>3, <2>4
<1>v. \A x \in Sets : slot'[x].v = slot[x].v /\ slot'[x].atl = slot[x].atl
  BY <1>4, <1>5, <1>7
<1>12. WorkOK'
  <2>1. ASSUME NEW u \in Users, u # t PROVE WorkOf(u)'
    <3>1. WorkOf(u) /\ SetOf(u) \in Sets /\ Kind[SetOf(u)] # "FILE"
      BY Statics DEF Inv, WorkOK
    <3>2. Minds(u) /\ Pc(u) # "flock" => SetOf(u) # s /\ SetOf(u) # m
      BY <1>0, <2>1, <3>1, OthersMind
    <3>3. Pc(u) = "clast" => Minds(u)
      BY DEF Minds, Working
    <3>4. Filling(u) => thr[u].on \in Sets
      BY HeldWork
    <3>5. Forking(u) => NewSet(u) \in Sets
      BY Forks2, ForkStatics DEF Inv
    <3>6. Minds(u) /\ Pc(u) # "flock" => slot'[SetOf(u)] = slot[SetOf(u)] /\ pvalid'[ViewOf[u]] = pvalid[ViewOf[u]]
      BY <3>1, <3>2, <1>1, <1>5
    <3> QED BY <1>v, <1>2, <2>1, <3>1, <3>3, <3>4, <3>5, <3>6, WorkFrame
  <2>2. WorkOf(t)'
    BY <1>0, <1>1, <1>2, <1>4, <1>5 DEF WorkOf, Filling, Counted
  <2> QED BY <2>1, <2>2 DEF WorkOK
<1>13. ViewsOK'
  <2>1. \A u \in Users : Forking(u) => slot'[NewSet(u)].v = slot[NewSet(u)].v
    BY <1>v, Forks2, ForkStatics DEF Inv
  <2>2. Alive(t)' /\ Pc(t) # "linked" /\ Pc(t)' # "linked"
    BY <1>0, <1>2 DEF Alive
  <2> QED BY <1>0, <1>1, <1>2, <1>v, <2>1, <2>2, ViewsFrame
<1>14. LifeOK'
  <2>1. (Alive(t)' <=> Alive(t)) /\ (Forking(t)' <=> Forking(t)) /\ (Linking(t)' <=> Linking(t))
    BY <1>0, <1>2 DEF Alive, Forking, Linking
  <2>2. \A x \in Users : Pc(x)' = "none" => Pc(x) = "none"
    BY <1>2 DEF Pc
  <2> QED BY <1>1, <1>2, <1>v, <2>1, <2>2, LifeFrame DEF Inv
<1>15. FramesOK'
  <2>1. \A g \in Frames : ~HasFrame(s, g) /\ (HasFrame(s, g)' <=> g = f)
    BY <1>0, <1>4, <1>5 DEF HasFrame
  <2>2. \A y \in Sets : y # s => \A g \in Frames : HasFrame(y, g)' <=> HasFrame(y, g)
    <3>1. \A g \in Frames : HasFrame(m, g)' <=> HasFrame(m, g)
      BY <1>7 DEF HasFrame
    <3>2. \A y \in Sets : y # s /\ y # m => \A g \in Frames : HasFrame(y, g)' <=> HasFrame(y, g)
      BY <1>5 DEF HasFrame
    <3> QED BY <3>1, <3>2
  <2> QED BY <1>0, <1>2, <1>3, <2>1, <2>2, FrameMoves
<1> QED BY <1>1, <1>7, <1>8, <1>9, <1>10, <1>11, <1>12, <1>13, <1>14, <1>15 DEF Core

LEMMA CowLastStep ==
  ASSUME Inv, NEW t \in Users, CowLast(t)
  PROVE  Core'
<1> DEFINE s == SetOf(t)
           m == Master[s]
           v == ViewOf[t]
           q == [slot[s] EXCEPT !.cow = FALSE, !.v = FALSE]
<1>0. /\ thr[t] \in ThrType /\ s \in Sets /\ slot[s] \in SlotType /\ Types /\ LocksOK /\ ShapeOf(s)
      /\ Pc(t) = "clast" /\ held[s] = t /\ t # None /\ Alive(t) /\ LockOf(t) /\ WorkOf(t)
      /\ slot[s].v /\ slot[s].cow /\ slot[s].refs = 0 /\ slot[s].atl = {} /\ SetOf(t)' = s /\ ~pvalid[v]
      /\ Kind[s] = "COW" /\ m \in Sets /\ m # s /\ slot[m].v /\ Kind[m] = "FILE"
  <2>1. /\ thr[t] \in ThrType /\ s \in Sets /\ slot[s] \in SlotType /\ Types /\ LocksOK /\ ShapeOf(s)
        /\ Pc(t) = "clast" /\ t # None /\ Alive(t) /\ LockOf(t) /\ WorkOf(t)
    BY Statics, RecordTypes DEF Inv, CowLast, Alive, LocksOK, WorkOK, ShapeOK
  <2>2. held[s] = t /\ slot[s].v /\ slot[s].cow /\ ~pvalid[v] /\ slot[s].refs = 0 /\ slot[s].atl = {}
    BY <2>1, HeldWork DEF WorkOf, Working
  <2>3. Kind[s] = "COW" /\ m \in Sets /\ m # s /\ slot[m].v /\ Kind[m] = "FILE"
    BY <2>1, <2>2, OfCow
  <2> QED BY <2>1, <2>2, <2>3 DEF SetOf
<1>1. /\ slot' = [slot EXCEPT ![m] = DerefSlot(m, slot[m]), ![s].cow = FALSE, ![s].v = FALSE]
      /\ free' = free \cup Lost(slot[m], DerefSlot(m, slot[m]))
      /\ thr' = [thr EXCEPT ![t].pc = "drop"]
      /\ held' = [held EXCEPT ![s] = None]
      /\ UNCHANGED <<prefs, gone, pvalid, pte>>
  BY Zenon DEF CowLast, mapVars, Goes, FreePages
<1>2. /\ thr' \in [Users -> ThrType] /\ \A u \in Users : u # t => thr'[u] = thr[u]
      /\ Pc(t)' = "drop" /\ thr'[t].pg = thr[t].pg /\ thr'[t].was = thr[t].was
  BY <1>0, <1>1 DEF Types, ThrType, Pcs, Pc
<1>3. free' = free /\ slot' = [slot EXCEPT ![m] = [slot[m] EXCEPT !.refs = @ - 1], ![s] = q]
  <2>1. DerefSlot(m, slot[m]) = [slot[m] EXCEPT !.refs = @ - 1] /\ Lost(slot[m], DerefSlot(m, slot[m])) = {}
    BY <1>0, MasterKept
  <2>3. slot' = [slot EXCEPT ![m] = [slot[m] EXCEPT !.refs = @ - 1], ![s].cow = FALSE, ![s].v = FALSE]
    BY <1>1, <2>1
  <2>4. slot' = [slot EXCEPT ![m] = [slot[m] EXCEPT !.refs = @ - 1], ![s] = [slot[s] EXCEPT !.cow = FALSE, !.v = FALSE]]
    BY <2>3, <1>0 DEF Types
  <2> QED BY <1>1, <2>1, <2>4
<1>4. /\ q \in SlotType /\ q.v = FALSE /\ q.cow = FALSE /\ q.pfn = slot[s].pfn /\ q.refs = slot[s].refs
      /\ q.atl = slot[s].atl /\ q.swapped = slot[s].swapped
  BY <1>0 DEF SlotType
<1>5. /\ slot'[s] = q /\ slot'[m] = [slot[m] EXCEPT !.refs = @ - 1]
      /\ \A x \in Sets : x # s /\ x # m => slot'[x] = slot[x]
      /\ DOMAIN slot' = Sets /\ slot' = [x \in Sets |-> slot'[x]]
  <2> HIDE DEF q
  <2> QED BY <1>0, <1>3 DEF Types
<1> HIDE DEF q
<1>6. RefsOf(s)'
  BY <1>0, <1>4, <1>5 DEF RefsOf
<1>7. /\ RefsOK' /\ MastersOK' /\ slot'[m] \in SlotType
      /\ slot'[m].v = slot[m].v /\ slot'[m].cow = slot[m].cow /\ slot'[m].atl = slot[m].atl
      /\ slot'[m].pfn = slot[m].pfn /\ slot'[m].swapped = slot[m].swapped
  <2>1. ~slot'[s].cow
    BY <1>4, <1>5
  <2>2. Pc(t) # "linked" /\ Pc(t)' # "linked" /\ ~Forking(t) /\ ~Forking(t)'
    BY <1>0, <1>2 DEF Forking
  <2> QED BY <1>0, <1>2, <1>5, <1>6, <2>1, <2>2, LeaveMaster
<1>8. Types'
  <2>1. slot' \in [Sets -> SlotType]
    <3>1. \A x \in Sets : slot'[x] \in SlotType
      BY <1>0, <1>4, <1>5, <1>7, RecordTypes
    <3> QED BY <3>1, <1>5
  <2>2. held' \in [Sets -> Users \cup {None}]
    BY <1>0, <1>1 DEF Types
  <2> QED BY <1>0, <1>1, <1>2, <1>3, <2>1, <2>2 DEF Types
<1>9. LocksOK'
  <2>1. Locked(t) = {s} /\ Locked(t)' = {}
    BY <1>0, <1>2 DEF Locked, Working, Filling
  <2>2. \A x \in Sets : held'[x] = t <=> x \in Locked(t)'
    BY <1>0, <1>1, <2>1 DEF LockOf, Types
  <2>3. LockOf(t)'
    BY <1>0, <1>2, <2>2, Statics DEF LockOf, Filling, WithPage
  <2> QED BY <1>0, <1>1, <1>2, <2>3, LocksFrame DEF Types
<1>10. ThreadsOK'
  BY <1>0, <1>2, ThreadsFrame DEF Inv, Alive, Forking, Leaving
<1>11. ShapeOK'
  <2> SUFFICES ASSUME NEW x \in Sets PROVE ShapeOf(x)'
    BY DEF ShapeOK
  <2>1. ShapeOf(x)
    BY DEF Inv, ShapeOK
  <2>2. CASE x = s
    BY <2>1, <2>2, <1>0, <1>4, <1>5 DEF ShapeOf
  <2>3. CASE x = m
    <3>1. slot'[m].refs = slot[m].refs - 1 /\ ~slot[m].swapped /\ slot[m].pfn \in Frames /\ ~slot[m].cow /\ slot[m].atl = {Cache}
      BY <1>0, <2>1, <2>3, <1>5, RecordTypes DEF ShapeOf, SlotType
    <3> QED BY <3>1, <2>3, <1>0, <1>7 DEF ShapeOf
  <2>4. CASE x # s /\ x # m
    BY <2>1, <2>4, <1>5 DEF ShapeOf
  <2> QED BY <2>2, <2>3, <2>4
<1>v. /\ \A x \in Sets : slot'[x].atl = slot[x].atl /\ (x # s => slot'[x].v = slot[x].v)
      /\ ~slot'[s].v
  BY <1>4, <1>5, <1>7
<1>o. /\ \A u \in Users : Forking(u) => NewSet(u) \in Sets /\ NewSet(u) # s
      /\ \A u \in Users : u # t /\ Minds(u) => SetOf(u) # s
  <2>1. \A u \in Users : u # t /\ SetOf(u) = s => Pc(u) = "dead"
    <3>1. \A u \in Users : u # t /\ ViewOf[u] = v => Pc(u) = "dead"
      BY <1>0 DEF Inv, ThreadsOK, Leaving
    <3> QED BY <3>1, <1>0, Statics
  <2> QED BY <2>1, <1>0, OfLiving, Forks2, ForkStatics DEF Inv, Minds, Working
<1>12. WorkOK'
  <2>1. ASSUME NEW u \in Users, u # t PROVE WorkOf(u)'
    <3>1. WorkOf(u) /\ SetOf(u) \in Sets /\ Kind[SetOf(u)] # "FILE"
      BY Statics DEF Inv, WorkOK
    <3>2. Minds(u) => SetOf(u) # s /\ SetOf(u) # m
      BY <1>0, <1>o, <2>1, <3>1
    <3>3. Pc(u) = "clast" => Minds(u)
      BY DEF Minds, Working
    <3>4. Filling(u) => thr[u].on \in Sets /\ thr[u].on # s
      BY <1>0, <2>1, HeldWork
    <3>5. Minds(u) => slot'[SetOf(u)] = slot[SetOf(u)]
      BY <3>1, <3>2, <1>5
    <3> QED BY <1>v, <1>1, <1>2, <1>o, <2>1, <3>1, <3>3, <3>4, <3>5, WorkFrame
  <2>2. WorkOf(t)'
    BY <1>0, <1>1, <1>2, <1>4, <1>5 DEF WorkOf, Filling, Counted
  <2> QED BY <2>1, <2>2 DEF WorkOK
<1>13. ViewsOK'
  <2>1. \A u \in Users : Forking(u) => slot'[NewSet(u)].v = slot[NewSet(u)].v
    BY <1>v, <1>o
  <2>2. Alive(t)' /\ Pc(t) # "linked" /\ Pc(t)' # "linked"
    BY <1>0, <1>2 DEF Alive
  <2> QED BY <1>0, <1>1, <1>2, <1>v, <2>1, <2>2, ViewsFrame
<1>14. LifeOK'
  <2>1. (Alive(t)' <=> Alive(t)) /\ (Forking(t)' <=> Forking(t)) /\ (Linking(t)' <=> Linking(t))
    BY <1>0, <1>2 DEF Alive, Forking, Linking
  <2>2. \A x \in Users : Pc(x)' = "none" => Pc(x) = "none"
    BY <1>2 DEF Pc
  <2>3. \A x \in Sets : slot'[x].v => slot[x].v
    BY <1>v
  <2> QED BY <1>1, <1>2, <2>1, <2>2, <2>3, LifeFrame DEF Inv
<1>15. FramesOK'
  <2>1. \A y \in Sets : \A g \in Frames : HasFrame(y, g)' <=> HasFrame(y, g)
    <3>1. \A g \in Frames : HasFrame(m, g)' <=> HasFrame(m, g)
      BY <1>7 DEF HasFrame
    <3>2. \A y \in Sets : y # s /\ y # m => \A g \in Frames : HasFrame(y, g)' <=> HasFrame(y, g)
      BY <1>5 DEF HasFrame
    <3>3. \A g \in Frames : ~HasFrame(s, g)' /\ ~HasFrame(s, g)
      BY <1>0, <1>4, <1>5 DEF HasFrame
    <3> QED BY <3>1, <3>2, <3>3
  <2>2. thr[t].pg \notin Frames /\ thr'[t].pg \notin Frames
    BY <1>0, <1>2 DEF LockOf, WithPage
  <2> QED BY <1>0, <1>2, <1>3, <2>1, <2>2, FramesStay
<1> QED BY <1>7, <1>8, <1>9, <1>10, <1>11, <1>12, <1>13, <1>14, <1>15 DEF Core

-----------------------------------------------------------------------------
(* exit() and fork() begin.                                              *)

\* What a step leaves that does not change the slots.
LEMMA SameSlots ==
  ASSUME Inv, NEW t \in Users,
         \A u \in Users : u # t => thr'[u] = thr[u],
         slot' = slot, pvalid' = pvalid, WorkOf(t)'
  PROVE  ShapeOK' /\ MastersOK' /\ WorkOK'
<1>1. ShapeOK'
  BY DEF Inv, ShapeOK, ShapeOf
<1>2. MastersOK'
  BY DEF Inv, MastersOK
<1>3. WorkOK'
  <2> SUFFICES ASSUME NEW u \in Users, u # t PROVE WorkOf(u)'
    BY DEF WorkOK
  <2>1. thr'[u] = thr[u] /\ WorkOf(u) /\ Pc(u)' = Pc(u)
    BY DEF Inv, WorkOK, Pc
  <2> QED BY <2>1 DEF WorkOf, Filling, SetOf, NewSet, NewView
<1> QED BY <1>1, <1>2, <1>3

LEMMA ExitStep ==
  ASSUME Inv, NEW t \in Users, Exit(t)
  PROVE  Core'
<1> DEFINE s == SetOf(t)
           v == ViewOf[t]
           mates == {u \in Users \ {t} : ViewOf[u] = ViewOf[t] /\ Pc(u) \notin {"none", "dead"}}
           pc == IF mates # {} THEN "dead" ELSE IF pvalid[v] THEN "dlock" ELSE "drop"
<1>0. /\ thr[t] \in ThrType /\ s \in Sets /\ slot[s] \in SlotType /\ Types /\ LocksOK /\ ShapeOf(s)
      /\ Pc(t) = "user" /\ t # None /\ Alive(t) /\ LockOf(t) /\ WorkOf(t) /\ SetOf(t)' = s
      /\ ThreadsOK /\ v \in Views /\ Of[v] = s /\ pvalid[v] \in BOOLEAN
  BY Statics, RecordTypes DEF Inv, Exit, Alive, LocksOK, WorkOK, ShapeOK, SetOf, Types
<1>1. thr' = [thr EXCEPT ![t].pc = pc] /\ UNCHANGED <<slot, held, prefs, gone, pvalid, pte, free>>
  BY Zenon DEF Exit, Goes, setVars, mapVars, coreVars
<1>p. pc \in {"dead", "dlock", "drop"} /\ (pc = "dead" <=> mates # {})
      /\ (pc = "dlock" => pvalid[v]) /\ (pc = "drop" => ~pvalid[v])
  OBVIOUS
<1>a. pc # "dead" => \A u \in Users : ViewOf[u] = v /\ u # t => Pc(u) = "dead"
  <2>1. \A u \in Users : Pc(u) = "none" /\ ViewOf[u] = v => u = t
    BY <1>0, Unborn
  <2> QED BY <2>1, <1>p, <1>0
<1>d. pc = "dead" => \E u \in Users : u # t /\ ViewOf[u] = v /\ Alive(u)
  BY <1>p DEF Alive
<1> HIDE DEF pc, mates
<1>2. /\ thr' \in [Users -> ThrType] /\ \A u \in Users : u # t => thr'[u] = thr[u]
      /\ Pc(t)' = pc /\ thr'[t].pg = thr[t].pg /\ thr'[t].was = thr[t].was
  BY <1>0, <1>1, <1>p DEF Types, ThrType, Pcs, Pc
<1>3. Types'
  BY <1>0, <1>1, <1>2 DEF Types
<1>4. LocksOK'
  <2>1. Locked(t) = {} /\ Locked(t)' = {}
    BY <1>0, <1>2, <1>p DEF Locked, Working, Filling
  <2>2. LockOf(t)'
    BY <1>0, <1>1, <1>2, <1>p, <2>1 DEF LockOf, Filling, WithPage
  <2> QED BY <1>0, <1>1, <1>2, <2>2, LocksFrame
<1>5. /\ \A u \in Users : u # t => /\ Pc(u)' = Pc(u) /\ (Forking(u)' <=> Forking(u))
                                   /\ (Leaving(u)' <=> Leaving(u)) /\ (Alive(u)' <=> Alive(u))
                                   /\ (Linking(u)' <=> Linking(u))
      /\ Pc(t)' = pc /\ pc \in {"dead", "dlock", "drop"}
      /\ \A u \in Users : NewView(u)' = NewView(u) /\ NewSet(u)' = NewSet(u) /\ SetOf(u)' = SetOf(u)
  BY <1>2, <1>p DEF Pc, Forking, Leaving, Alive, Linking, NewView, NewSet, SetOf
<1>k. /\ ~Forking(t) /\ ~Forking(t)' /\ ~Linking(t) /\ ~Linking(t)'
      /\ \A u \in Users : Pc(u)' = "none" <=> Pc(u) = "none"
      /\ \A u \in Users : Pc(u)' = "linked" <=> Pc(u) = "linked"
      /\ \A u \in Users : Forking(u)' <=> Forking(u)
      /\ \A u \in Users : Linking(u)' <=> Linking(u)
  BY <1>0, <1>5 DEF Forking, Linking
<1>6. ThreadsOK'
  <2>1. \A u \in Users : Forking(u)' => Child[u] \in Users /\ Pc(Child[u])' = "none"
    BY <1>0, <1>k DEF ThreadsOK
  <2>2. \A u \in Users : Pc(u)' = "none" => u \notin Born
    BY <1>0, <1>k DEF ThreadsOK
  <2>3. ASSUME NEW u \in Users, NEW w \in Users, Leaving(u)', ViewOf[w] = ViewOf[u], w # u
        PROVE  Pc(w)' = "dead"
    <3>1. CASE u = t
      <4>1. pc # "dead"
        BY <2>3, <3>1, <1>5 DEF Leaving
      <4> QED BY <4>1, <3>1, <2>3, <1>a, <1>5
    <3>2. CASE u # t
      <4>1. Pc(w) = "dead"
        BY <2>3, <3>2, <1>5, <1>0 DEF ThreadsOK
      <4> QED BY <4>1, <1>0, <1>5
    <3> QED BY <3>1, <3>2
  <2> QED BY <2>1, <2>2, <2>3 DEF ThreadsOK, Born
<1>7. WorkOf(t)'
  <2>1. ASSUME pc = "drop", slot[s].cow PROVE FALSE
    <3>1. ~pvalid[v] /\ \A u \in Users : SetOf(u) = s /\ u # t => Pc(u) = "dead"
      BY <2>1, <1>0, <1>p, <1>a, OfCow, Statics
    <3>2. slot[s].atl = {} /\ slot[s].v
      BY <2>1, <3>1, <1>0, OfCow, OfCowList
    <3>3. Pend(s) = 0
      BY <3>1, <1>0 DEF Pend, Counted
    <3>4. slot[s].refs = Cardinality(slot[s].atl) + Pend(s)
      BY <3>2, <1>0, OfLiving
    <3>5. slot[s].refs = 0
      <4>1. Cardinality(slot[s].atl) = 0
        BY <3>2, CardOne
      <4> QED BY <4>1, <3>3, <3>4
    <3>6. \E u \in Users : Pc(u) = "clast" /\ SetOf(u) = s
      BY <3>2, <3>5, <1>0, OfLiving
    <3> QED BY <3>6, <3>1, <1>0
  <2> QED BY <2>1, <1>0, <1>1, <1>2, <1>p DEF WorkOf, Filling, Counted
<1>8. ShapeOK' /\ MastersOK' /\ WorkOK'
  BY <1>1, <1>2, <1>7, SameSlots
<1>9. RefsOK'
  <2> SUFFICES ASSUME NEW x \in Sets PROVE RefsOf(x)'
    BY DEF RefsOK
  <2>1. RefsOf(x) /\ Sharing(x)' = Sharing(x)
    BY <1>1, SharingFrame DEF Inv, RefsOK
  <2>2. Pend(x)' = Pend(x) /\ Owed(x)' = Owed(x) /\ (Unused(x)' <=> Unused(x))
    <3>1. (Pc(t)' \in Counted <=> Pc(t) \in Counted) /\ (Pc(t)' = "clast" <=> Pc(t) = "clast")
      BY <1>0, <1>5 DEF Counted
    <3> QED BY <3>1, <1>0, <1>2, <1>k, CountFrame
  <2> QED BY <2>1, <2>2, <1>1, RefsFrame
<1>w. \A w \in Views : (\E u \in Users : ViewOf[u] = w /\ Alive(u))' <=> \E u \in Users : ViewOf[u] = w /\ Alive(u)
  <2>1. CASE pc = "dead"
    <3>1. ~Alive(t)'
      BY <2>1, <1>5 DEF Alive
    <3> QED BY <3>1, <2>1, <1>d, <1>5
  <2>2. CASE pc # "dead"
    <3>1. Alive(t)'
      BY <2>2, <1>5 DEF Alive
    <3> QED BY <3>1, <1>0, <1>5
  <2> QED BY <2>1, <2>2
<1>10. ViewsOK'
  <2>0. ViewsOK
    BY DEF Inv
  <2>1. \A w \in Views : ValidOf(w)'
    BY <2>0, <1>1, <1>w DEF ViewsOK, ValidOf
  <2>2. \A x \in Sets : ListOf(x)'
    BY <2>0, <1>1, <1>k, <1>5 DEF ViewsOK, ListOf
  <2>3. \A u \in Users : LinkedOf(u)' /\ UnbornOf(u)'
    BY <2>0, <1>1, <1>k, <1>5 DEF ViewsOK, LinkedOf, UnbornOf
  <2> QED BY <2>1, <2>2, <2>3 DEF ViewsOK
<1>11. LifeOK'
  <2>1. \A w \in Views : Attached(w)' <=> Attached(w)
    BY <1>w, <1>k, <1>5 DEF Attached
  <2>2. \A x \in Sets : AttachedTo(x)' = AttachedTo(x)
    BY <2>1 DEF AttachedTo
  <2>3. \A x \in Sets : Live(x)' <=> Live(x)
    BY <2>2, <1>k, <1>5 DEF Live
  <2>4. \A x \in Sets : LiveSets(x)' = LiveSets(x)
    BY <2>3 DEF LiveSets, CowSets
  <2>5. ASSUME NEW x \in Sets PROVE LifeOf(x)'
    <3>1. LifeOf(x)
      BY DEF Inv, LifeOK
    <3> QED BY <3>1, <2>2, <2>3, <2>4, <1>1, <1>k, <1>5 DEF LifeOf
  <2> QED BY <2>5 DEF LifeOK
<1>12. FramesOK'
  BY <1>1, <1>2, StillFrames
<1> QED BY <1>3, <1>4, <1>6, <1>8, <1>9, <1>10, <1>11, <1>12 DEF Core

\* The set that a fork() of t is going to make is not in use.
LEMMA NotYet ==
  ASSUME Inv, NEW t \in Users, Child[t] # None, Pc(Child[t]) = "none", ~Forking(t)
  PROVE  LET n == NewSet(t) IN
         /\ ~Live(n) /\ ~slot[n].v /\ n \notin gone /\ AttachedTo(n) = {}
         /\ \A u \in Users : Forking(u) => NewSet(u) # n
<1> DEFINE n == NewSet(t)
<1>0. ThreadsOK /\ n \in Sets /\ Kind[n] # "FILE" /\ Child[t] \in Users /\ SetOf(Child[t]) = n
  BY ForkStatics DEF Inv
<1>1. \A u \in Users : Forking(u) => NewSet(u) # n /\ NewView(u) # NewView(t)
  <2> SUFFICES ASSUME NEW u \in Users, Forking(u), NewSet(u) = n \/ NewView(u) = NewView(t) PROVE FALSE
    OBVIOUS
  <2>1. Child[u] # None /\ Child[u] \in Users
    BY <1>0, Forks2
  <2>2. NewSet(u) = n
    BY <2>1, <1>0, ForkStatics
  <2>3. SetOf(Child[u]) = n
    BY <2>1, <2>2, ForkStatics
  <2>4. Child[u] = Child[t]
    BY <2>1, <2>3, ForkStatics
  <2> QED BY <2>4, ForkStatics
<1>2. AttachedTo(n) = {}
  <2> SUFFICES ASSUME NEW w \in Views, Of[w] = n, Attached(w) PROVE FALSE
    BY DEF AttachedTo
  <2>1. w = NewView(t)
    BY ForkStatics
  <2>2. \A u \in Users : ViewOf[u] = w => ~Alive(u)
    BY <2>1, ForkStatics DEF Alive
  <2>3. \A u \in Users : Linking(u) => Forking(u)
    BY DEF Linking, Forking
  <2> QED BY <2>1, <2>2, <2>3, <1>1 DEF Attached
<1>3. ~Live(n)
  BY <1>1, <1>2 DEF Live
<1>4. LifeOf(n)
  BY <1>0 DEF Inv, LifeOK
<1> QED BY <1>0, <1>1, <1>2, <1>3, <1>4 DEF LifeOf

LEMMA ForkStep ==
  ASSUME Inv, NEW t \in Users, Fork(t)
  PROVE  Core'
<1> DEFINE s == SetOf(t)
           n == NewSet(t)
           m == Master[n]
<1>0. /\ thr[t] \in ThrType /\ s \in Sets /\ Types /\ LocksOK /\ ShapeOf(s) /\ ThreadsOK
      /\ Pc(t) = "user" /\ t # None /\ Alive(t) /\ LockOf(t) /\ WorkOf(t) /\ SetOf(t)' = s
      /\ Child[t] # None /\ Pc(Child[t]) = "none" /\ ~Forking(t) /\ Child[t] \in Users
      /\ n \in Sets /\ Kind[n] # "FILE" /\ Kind[n] = Kind[s]
  <2>1. /\ thr[t] \in ThrType /\ s \in Sets /\ Types /\ LocksOK /\ ShapeOf(s) /\ ThreadsOK
        /\ Pc(t) = "user" /\ t # None /\ Alive(t) /\ LockOf(t) /\ WorkOf(t)
        /\ Child[t] # None /\ Pc(Child[t]) = "none" /\ ~Forking(t)
    BY Statics, RecordTypes DEF Inv, Fork, Alive, LocksOK, WorkOK, ShapeOK, Forking
  <2> QED BY <2>1, ForkStatics DEF SetOf
<1>1. /\ prefs' = IF Kind[n] = "COW" THEN [prefs EXCEPT ![m] = @ + 1] ELSE prefs
      /\ thr' = [thr EXCEPT ![t].pc = IF slot[s].v THEN "flock" ELSE "attach"]
      /\ UNCHANGED <<slot, held, gone, pvalid, pte, free>>
  <2>1. ~slot[s].swapped
    BY <1>0 DEF ShapeOf
  <2> QED BY <2>1, Zenon DEF Fork, Goes, mapVars, coreVars
<1>n. /\ ~Live(n) /\ ~slot[n].v /\ n \notin gone /\ AttachedTo(n) = {}
      /\ \A u \in Users : Forking(u) => NewSet(u) # n
  BY <1>0, NotYet
<1>2. /\ thr' \in [Users -> ThrType] /\ \A u \in Users : u # t => thr'[u] = thr[u]
      /\ Pc(t)' \in {"flock", "attach"} /\ thr'[t].pg = thr[t].pg /\ thr'[t].was = thr[t].was
      /\ (Pc(t)' = "flock" => slot[s].v)
  BY <1>0, <1>1 DEF Types, ThrType, Pcs, Pc
<1>k. /\ \A u \in Users : u # t => /\ Pc(u)' = Pc(u) /\ (Forking(u)' <=> Forking(u))
                                   /\ (Leaving(u)' <=> Leaving(u))
      /\ \A u \in Users : (Alive(u)' <=> Alive(u)) /\ (Linking(u)' <=> Linking(u))
      /\ Forking(t)' /\ ~Leaving(t)' /\ (Alive(t)' <=> Alive(t)) /\ (Linking(t)' <=> Linking(t))
      /\ \A u \in Users : Pc(u)' = "none" <=> Pc(u) = "none"
      /\ \A u \in Users : NewView(u)' = NewView(u) /\ NewSet(u)' = NewSet(u)
  BY <1>0, <1>2 DEF Pc, Forking, Leaving, Alive, Linking, NewView, NewSet
<1>3. Types'
  <2>1. prefs' \in [Sets -> Int]
    <3>1. prefs \in [Sets -> Int] /\ (Kind[n] = "COW" => m \in Sets)
      BY <1>0, Statics DEF Types
    <3>2. [prefs EXCEPT ![m] = @ + 1] \in [Sets -> Int] \/ Kind[n] # "COW"
      BY <3>1
    <3> QED BY <3>1, <3>2, <1>1
  <2> QED BY <1>0, <1>1, <1>2, <2>1 DEF Types
<1>4. LocksOK'
  <2>1. Locked(t) = {} /\ Locked(t)' = {}
    BY <1>0, <1>2 DEF Locked, Working, Filling
  <2>2. LockOf(t)'
    BY <1>0, <1>1, <1>2, <2>1 DEF LockOf, Filling, WithPage
  <2> QED BY <1>0, <1>1, <1>2, <2>2, LocksFrame
<1>5. ThreadsOK'
  <2>1. \A u \in Users : Forking(u)' => Child[u] \in Users /\ Pc(Child[u])' = "none"
    BY <1>0, <1>k DEF ThreadsOK
  <2>2. \A u \in Users : Pc(u)' = "none" => u \notin Born
    BY <1>0, <1>k DEF ThreadsOK
  <2>3. \A u, w \in Users : Leaving(u)' /\ ViewOf[w] = ViewOf[u] /\ w # u => Pc(w)' = "dead"
    <3>1. \A w \in Users : Pc(w) = "dead" => w # t
      BY <1>0
    <3> QED BY <3>1, <1>0, <1>k DEF ThreadsOK
  <2> QED BY <2>1, <2>2, <2>3 DEF ThreadsOK, Born
<1>6. WorkOf(t)'
  BY <1>0, <1>n, <1>1, <1>2 DEF WorkOf, Filling, Counted, NewSet, NewView
<1>7. ShapeOK' /\ MastersOK' /\ WorkOK'
  BY <1>1, <1>2, <1>6, SameSlots
<1>8. RefsOK'
  <2> SUFFICES ASSUME NEW x \in Sets PROVE RefsOf(x)'
    BY DEF RefsOK
  <2>1. RefsOf(x) /\ Sharing(x)' = Sharing(x)
    BY <1>1, SharingFrame DEF Inv, RefsOK
  <2>2. Pend(x)' = Pend(x) /\ Owed(x)' = Owed(x)
    BY <1>0, <1>2, CountFrame DEF Counted
  <2>3. Unused(x) => Unused(x)'
    BY <1>0, <1>k DEF Unused, SetOf
  <2> QED BY <2>1, <2>2, <2>3, <1>1, RefsFrame
<1>9. ViewsOK'
  <2>1. Alive(t)' /\ Pc(t) # "linked" /\ Pc(t)' # "linked"
    BY <1>0, <1>2, <1>k
  <2> QED BY <1>0, <1>1, <1>2, <2>1, ViewsFrame
<1>10. LifeOK'
  <2>1. \A x \in Sets : AttachedTo(x)' = AttachedTo(x)
    BY <1>k DEF AttachedTo, Attached
  <2>2. \A x \in Sets : x # n => (Live(x)' <=> Live(x))
    BY <2>1, <1>0, <1>k DEF Live
  <2>3. Live(n)' /\ n \in CowSets(m) <=> Kind[n] = "COW"
    BY <1>0, <1>k DEF Live, CowSets
  <2>4. \A x \in Sets : x # m \/ Kind[n] # "COW" => LiveSets(x)' = LiveSets(x)
    BY <2>2, <1>0 DEF LiveSets, CowSets
  <2>5. Kind[n] = "COW" => /\ Cardinality(LiveSets(m)') = Cardinality(LiveSets(m)) + 1 /\ m \notin gone
                           /\ m \in Sets /\ Kind[m] = "FILE"
    <3> SUFFICES ASSUME Kind[n] = "COW"
                 PROVE  /\ Cardinality(LiveSets(m)') = Cardinality(LiveSets(m)) + 1 /\ m \notin gone
                        /\ m \in Sets /\ Kind[m] = "FILE"
      OBVIOUS
    <3>1. m \in Sets /\ Kind[m] = "FILE" /\ m = Master[s]
      BY <1>0, Statics, ForkStatics
    <3>2. s \in LiveSets(m)
      BY <3>1, <1>0, Lively
    <3>3. m \notin gone
      BY <3>1, <3>2 DEF Inv, LifeOK, LifeOf
    <3>4. LiveSets(m)' = LiveSets(m) \cup {n} /\ n \notin LiveSets(m)
      BY <1>0, <1>n, <2>2, <2>3 DEF LiveSets, CowSets
    <3>5. IsFiniteSet(LiveSets(m))
      BY <1>0, <3>1, Finite
    <3> QED BY <3>1, <3>3, <3>4, <3>5, CardAdd
  <2>6. ASSUME NEW x \in Sets PROVE LifeOf(x)'
    <3>1. LifeOf(x)
      BY DEF Inv, LifeOK
    <3>2. CASE Kind[n] = "COW" /\ x = m
      <4>1. prefs'[m] = prefs[m] + 1
        BY <3>2, <2>5, <1>0, <1>1 DEF Types
      <4>2. prefs'[x] = Cardinality(LiveSets(x)')
        BY <3>1, <3>2, <4>1, <2>5 DEF LifeOf
      <4> QED BY <3>2, <4>2, <2>5, <1>1 DEF LifeOf
    <3>3. CASE ~(Kind[n] = "COW" /\ x = m)
      <4>1. prefs'[x] = prefs[x] /\ AttachedTo(x)' = AttachedTo(x) /\ LiveSets(x)' = LiveSets(x)
        BY <3>3, <2>1, <2>4, <1>0, <1>1 DEF Types
      <4>2. CASE x # n
        BY <3>1, <4>1, <4>2, <2>2, <1>1, <1>k DEF LifeOf, SetOf
      <4>3. CASE x = n
        <5>1. n \notin gone' /\ Kind[n] # "FILE" /\ ~slot'[n].v
          BY <1>0, <1>1, <1>n
        <5> QED BY <3>1, <4>1, <4>3, <5>1 DEF LifeOf
      <4> QED BY <4>2, <4>3
    <3> QED BY <3>2, <3>3
  <2> QED BY <2>6 DEF LifeOK
<1>11. FramesOK'
  BY <1>1, <1>2, StillFrames
<1> QED BY <1>3, <1>4, <1>5, <1>7, <1>8, <1>9, <1>10, <1>11 DEF Core

LEMMA DupSlotStep ==
  ASSUME Inv, NEW t \in Users, DupSlot(t)
  PROVE  Core'
<1> DEFINE s == SetOf(t)
           shared == slot[s].v /\ slot[s].cow
<1>0. /\ thr[t] \in ThrType /\ s \in Sets /\ slot[s] \in SlotType /\ Types /\ LocksOK
      /\ Pc(t) = "flock" /\ held[s] = None /\ t # None /\ LockOf(t) /\ WorkOf(t) /\ SetOf(t)' = s
  BY Statics, RecordTypes DEF Inv, DupSlot, LocksOK, WorkOK, SetOf
<1>1. /\ thr' = [thr EXCEPT ![t].pc = IF shared THEN "attach" ELSE "falloc"]
      /\ held' = IF shared THEN held ELSE [held EXCEPT ![s] = t]
      /\ UNCHANGED <<slot, prefs, gone, pvalid, pte, free>>
  BY Zenon DEF DupSlot, Goes, mapVars, coreVars
<1>2. /\ thr' \in [Users -> ThrType] /\ \A u \in Users : u # t => thr'[u] = thr[u]
      /\ Pc(t)' = (IF shared THEN "attach" ELSE "falloc")
      /\ thr'[t].pg = thr[t].pg /\ thr'[t].was = thr[t].was
  BY <1>0, <1>1 DEF Types, ThrType, Pcs, Pc
<1>3. Types'
  BY <1>0, <1>1, <1>2 DEF Types
<1>4. LocksOK'
  <2>1. Locked(t) = {} /\ Locked(t)' = IF shared THEN {} ELSE {s}
    BY <1>0, <1>2 DEF Locked, Working, Filling
  <2>2. \A x \in Sets : held'[x] = t <=> x \in Locked(t)'
    BY <1>0, <1>1, <2>1 DEF LockOf, Types
  <2>3. LockOf(t)'
    BY <1>0, <1>2, <2>2 DEF LockOf, Filling, WithPage
  <2> QED BY <1>0, <1>1, <1>2, <2>3, LocksFrame DEF Types
<1>5. WorkOf(t)'
  BY <1>0, <1>1, <1>2 DEF WorkOf, Filling, Counted, NewSet, NewView
<1>6. ThreadsOK' /\ ShapeOK' /\ MastersOK' /\ WorkOK' /\ RefsOK' /\ ViewsOK' /\ LifeOK'
  <2>1. /\ Alive(t) /\ Alive(t)' /\ (Forking(t)' <=> Forking(t)) /\ (Linking(t)' <=> Linking(t))
        /\ (Pc(t)' = "linked" <=> Pc(t) = "linked") /\ (Pc(t)' = "clast" <=> Pc(t) = "clast")
        /\ (Leaving(t)' => Leaving(t)) /\ (Pc(t)' \in Counted <=> Pc(t) \in Counted)
    BY <1>0, <1>2 DEF Alive, Forking, Linking, Leaving, Counted
  <2> QED BY <1>1, <1>2, <1>5, <2>1, StillSlots
<1>7. FramesOK'
  BY <1>1, <1>2, StillFrames
<1> QED BY <1>3, <1>4, <1>6, <1>7 DEF Core

-----------------------------------------------------------------------------
(* fork() copies a page and attaches the view.                           *)

LEMMA ViewsLinked ==
  ASSUME Inv, NEW t \in Users,
         \A u \in Users : u # t => thr'[u] = thr[u],
         Alive(t), Alive(t)', Pc(t)' = "linked" <=> Pc(t) = "linked",
         pvalid' = pvalid, \A w \in Views : pte'[w].v = pte[w].v,
         \A x \in Sets : slot'[x].atl \ {Cache} = slot[x].atl \ {Cache},
         \A u \in Users : Pc(u) = "linked" => slot'[NewSet(u)].v = slot[NewSet(u)].v
  PROVE  ViewsOK'
<1>0. ThreadsOK /\ ViewsOK
  BY DEF Inv
<1>a. \A u \in Users : /\ Pc(u)' = "none" <=> Pc(u) = "none"
                       /\ Pc(u)' = "linked" <=> Pc(u) = "linked"
                       /\ Alive(u)' <=> Alive(u)
                       /\ NewView(u)' = NewView(u) /\ NewSet(u)' = NewSet(u)
  BY DEF Alive, Pc, NewView, NewSet
<1>1. ASSUME NEW v \in Views PROVE ValidOf(v)'
  <2>1. v \in slot'[Of[v]].atl <=> v \in slot[Of[v]].atl
    BY Statics
  <2> QED BY <1>0, <1>a, <2>1 DEF ViewsOK, ValidOf
<1>2. \A s \in Sets : ListOf(s)'
  BY <1>0, <1>a DEF ViewsOK, ListOf
<1>3. ASSUME NEW u \in Users PROVE LinkedOf(u)'
  <2>1. CASE Pc(u) = "linked"
    <3>1. /\ NewView(u) \in Views /\ NewSet(u) \in Sets /\ NewView(u) # Cache
          /\ slot'[NewSet(u)].v = slot[NewSet(u)].v
      BY <2>1, <1>0, Forks2, ForkStatics, Statics DEF Forking
    <3>2. NewView(u) \in slot'[NewSet(u)].atl <=> NewView(u) \in slot[NewSet(u)].atl
      BY <3>1
    <3> QED BY <1>0, <1>a, <3>1, <3>2 DEF ViewsOK, LinkedOf
  <2> QED BY <2>1, <1>a DEF LinkedOf
<1>4. ASSUME NEW u \in Users PROVE UnbornOf(u)'
  BY <1>0, <1>a, Statics DEF ViewsOK, UnbornOf
<1> QED BY <1>1, <1>2, <1>3, <1>4 DEF ViewsOK

\* Nobody works on the set that t makes.
LEMMA OwnNewSet ==
  ASSUME Inv, NEW t \in Users, Forking(t), NEW u \in Users, u # t
  PROVE  /\ Minds(u) => SetOf(u) # NewSet(t)
         /\ Filling(u) => thr[u].on \in Sets /\ thr[u].on # NewSet(t)
         /\ Forking(u) => NewSet(u) \in Sets /\ NewSet(u) # NewSet(t) /\ NewView(u) # NewView(t)
         /\ Alive(u) => ViewOf[u] # NewView(t) /\ SetOf(u) # NewSet(t)
<1>0. ThreadsOK /\ Child[t] # None /\ NewSet(t) \in Sets /\ Kind[NewSet(t)] # "FILE"
      /\ \A w \in Users : SetOf(w) = NewSet(t) \/ ViewOf[w] = NewView(t) => Pc(w) = "none"
  BY Forks2, ForkStatics DEF Inv
<1>1. SetOf(u) = NewSet(t) => Pc(u) = "none"
  BY <1>0
<1>2. Minds(u) => SetOf(u) # NewSet(t)
  BY <1>1 DEF Minds, Working
<1>3. Filling(u) => thr[u].on \in Sets /\ thr[u].on # NewSet(t)
  <2>1. Filling(u) => thr[u].on \in Sets /\ thr[u].on = FillSet(SetOf(u)) /\ SetOf(u) # NewSet(t)
    BY <1>1, HeldWork DEF Filling
  <2> QED BY <2>1, <1>0, Statics DEF FillSet
<1>4. Forking(u) => NewSet(u) \in Sets /\ NewSet(u) # NewSet(t) /\ NewView(u) # NewView(t)
  BY <1>0, Forks2, ForkStatics
<1>5. Alive(u) => ViewOf[u] # NewView(t) /\ SetOf(u) # NewSet(t)
  BY <1>0 DEF Alive
<1> QED BY <1>2, <1>3, <1>4, <1>5

LEMMA CopyPageStep ==
  ASSUME Inv, NEW t \in Users, CopyPage(t)
  PROVE  Core' /\ panic' = panic
<1> DEFINE s == SetOf(t)
           n == NewSet(t)
           f == thr[t].pg
           q == [slot[n] EXCEPT !.v = TRUE, !.pfn = f]
<1>0. /\ thr[t] \in ThrType /\ s \in Sets /\ Types /\ LocksOK /\ ThreadsOK
      /\ Pc(t) = "fcore" /\ held[s] = t /\ t # None /\ Alive(t) /\ Forking(t) /\ LockOf(t) /\ WorkOf(t)
      /\ slot[s].v /\ ~slot[n].v /\ SetOf(t)' = s /\ f \in Frames
      /\ Child[t] # None /\ n \in Sets /\ n # s /\ Kind[n] # "FILE" /\ slot[n] \in SlotType
  <2>1. /\ thr[t] \in ThrType /\ s \in Sets /\ Types /\ LocksOK /\ ThreadsOK
        /\ Pc(t) = "fcore" /\ t # None /\ Alive(t) /\ LockOf(t) /\ WorkOf(t) /\ Forking(t)
    BY Statics, RecordTypes DEF Inv, CopyPage, Alive, LocksOK, WorkOK, Forking
  <2>2. held[s] = t /\ slot[s].v /\ ~slot[n].v
    BY <2>1, HeldWork DEF WorkOf, Working
  <2>3. Child[t] # None /\ n \in Sets /\ Kind[n] # "FILE"
    BY <2>1, Forks2, ForkStatics
  <2>4. n # s
    BY <2>1, OfLiving
  <2>5. f \in Frames
    BY <2>1 DEF LockOf, WithPage
  <2> QED BY <2>1, <2>2, <2>3, <2>4, <2>5, RecordTypes DEF SetOf
<1>1. /\ slot' = [slot EXCEPT ![n].v = TRUE, ![n].pfn = f]
      /\ thr' = [thr EXCEPT ![t].pc = "attach", ![t].pg = None]
      /\ held' = [held EXCEPT ![s] = None]
      /\ UNCHANGED <<prefs, gone, pvalid, pte, free, panic>>
  BY <1>0, Zenon DEF CopyPage, mapVars
<1>2. /\ thr' \in [Users -> ThrType] /\ \A u \in Users : u # t => thr'[u] = thr[u]
      /\ Pc(t)' = "attach" /\ thr'[t].pg = None /\ thr'[t].was = thr[t].was
  BY <1>0, <1>1 DEF Types, ThrType, Pcs, Pc
<1>3. slot[n].atl = {} /\ slot[n].refs = 0 /\ ~slot[n].cow /\ ~slot[n].swapped
  BY <1>0 DEF Inv, ShapeOK, ShapeOf
<1>4. q \in SlotType
  <2> DEFINE F == Frames \cup {None}
             A == SUBSET (Views \cup {Cache})
  <2>1. f \in F /\ slot[n] \in [v : BOOLEAN, cow : BOOLEAN, swapped : BOOLEAN, m : BOOLEAN, refs : Int, pfn : F, atl : A]
    BY <1>0 DEF SlotType
  <2> HIDE DEF F, A
  <2>2. q \in [v : BOOLEAN, cow : BOOLEAN, swapped : BOOLEAN, m : BOOLEAN, refs : Int, pfn : F, atl : A]
    BY <2>1
  <2> QED BY <2>2 DEF SlotType, F, A
<1>5. slot' = [slot EXCEPT ![n] = q]
  BY <1>0, <1>1 DEF Types
<1>6. /\ q.v = TRUE /\ q.pfn = f /\ q.cow = slot[n].cow /\ q.atl = slot[n].atl /\ q.refs = slot[n].refs
      /\ q.swapped = slot[n].swapped
  BY <1>0 DEF SlotType
<1> HIDE DEF q
<1>7. slot' \in [Sets -> SlotType] /\ slot'[n] = q /\ \A x \in Sets : x # n => slot'[x] = slot[x]
  BY <1>0, <1>4, <1>5 DEF Types
<1>8. Types'
  <2>1. held' \in [Sets -> Users \cup {None}]
    BY <1>0, <1>1 DEF Types
  <2> QED BY <1>0, <1>1, <1>2, <1>7, <2>1 DEF Types
<1>9. LocksOK'
  <2>1. Locked(t) = {s} /\ Locked(t)' = {}
    BY <1>0, <1>2 DEF Locked, Working, Filling
  <2>2. \A x \in Sets : held'[x] = t <=> x \in Locked(t)'
    BY <1>0, <1>1, <2>1 DEF LockOf, Types
  <2>3. LockOf(t)'
    BY <1>0, <1>2, <2>2, Statics DEF LockOf, Filling, WithPage
  <2> QED BY <1>0, <1>1, <1>2, <2>3, LocksFrame DEF Types
<1>10. ThreadsOK'
  BY <1>0, <1>2, ThreadsFrame DEF Inv, Alive, Forking, Leaving
<1>11. ShapeOK'
  <2> SUFFICES ASSUME NEW x \in Sets PROVE ShapeOf(x)'
    BY DEF ShapeOK
  <2>1. ShapeOf(x)
    BY DEF Inv, ShapeOK
  <2>2. CASE x = n
    BY <2>2, <1>0, <1>3, <1>6, <1>7 DEF ShapeOf
  <2>3. CASE x # n
    BY <2>1, <2>3, <1>7 DEF ShapeOf
  <2> QED BY <2>2, <2>3
<1>12. MastersOK'
  <2> SUFFICES ASSUME NEW x \in Sets, slot'[x].cow PROVE slot'[Master[x]].v
    BY DEF MastersOK
  <2>1. slot[x].cow
    BY <1>3, <1>6, <1>7
  <2>2. slot[Master[x]].v /\ Master[x] \in Sets
    BY <2>1, OfCow
  <2> QED BY <2>2, <1>0, <1>7
<1>13. WorkOK'
  <2>1. ASSUME NEW u \in Users, u # t PROVE WorkOf(u)'
    <3>1. WorkOf(u) /\ SetOf(u) \in Sets
      BY Statics DEF Inv, WorkOK
    <3>2. /\ Minds(u) => SetOf(u) # n
          /\ Filling(u) => thr[u].on \in Sets /\ thr[u].on # n
          /\ Forking(u) => NewSet(u) \in Sets /\ NewSet(u) # n
      BY <1>0, <2>1, OwnNewSet
    <3>3. Pc(u) = "clast" => Minds(u)
      BY DEF Minds, Working
    <3> QED BY <1>1, <1>2, <1>7, <2>1, <3>1, <3>2, <3>3, WorkFrame
  <2>2. WorkOf(t)'
    BY <1>0, <1>2 DEF WorkOf, Filling, Counted
  <2> QED BY <2>1, <2>2 DEF WorkOK
<1>14. RefsOK'
  <2> SUFFICES ASSUME NEW x \in Sets PROVE RefsOf(x)'
    BY DEF RefsOK
  <2>1. RefsOf(x) /\ Sharing(x)' = Sharing(x)
    BY <1>6, <1>7, SharingFrame DEF Inv, RefsOK, CowSets
  <2>2. Pend(x)' = Pend(x) /\ Owed(x)' = Owed(x) /\ (Unused(x)' <=> Unused(x))
    <3>1. (Pc(t)' \in Counted <=> Pc(t) \in Counted) /\ (Forking(t)' <=> Forking(t))
          /\ (Pc(t)' = "linked" <=> Pc(t) = "linked") /\ (Pc(t)' = "clast" <=> Pc(t) = "clast")
      BY <1>0, <1>2 DEF Counted, Forking
    <3> QED BY <3>1, <1>0, <1>2, CountFrame
  <2>3. CASE x # n
    BY <2>1, <2>2, <2>3, <1>7, RefsFrame
  <2>4. CASE x = n
    <3>1. Pend(n) = 0 /\ Owed(n) = 0
      <4>1. \A u \in Users : SetOf(u) = n => Pc(u) = "none"
        BY <1>0, Forks2
      <4>2. Pend(n) = 0
        BY <4>1 DEF Pend, Counted
      <4>3. \A u \in Users : Pc(u) = "linked" => u # t /\ Forking(u)
        BY <1>0 DEF Forking
      <4>4. \A u \in Users : Pc(u) = "linked" => NewSet(u) # n
        BY <4>3, <1>0, OwnNewSet
      <4> QED BY <4>2, <4>4 DEF Owed
    <3>2. Cardinality(slot'[n].atl) = 0 /\ Cardinality(Sharing(n)') = 0
      <4>1. Sharing(n)' = {} /\ slot'[n].atl = {}
        BY <1>0, <1>3, <1>6, <1>7, NoSharing
      <4> QED BY <4>1, CardOne
    <3>3. Unused(n)'
      BY <1>0, <1>2 DEF Unused, Forking, NewSet, NewView
    <3>4. slot'[n].refs = 0
      BY <1>3, <1>6, <1>7
    <3> QED BY <2>2, <2>4, <3>1, <3>2, <3>3, <3>4 DEF RefsOf
  <2> QED BY <2>3, <2>4
<1>15. ViewsOK'
  <2>1. \A u \in Users : Pc(u) = "linked" => slot'[NewSet(u)].v = slot[NewSet(u)].v
    <3>1. \A u \in Users : Pc(u) = "linked" => u # t /\ Forking(u)
      BY <1>0 DEF Forking
    <3> QED BY <3>1, <1>0, <1>7, OwnNewSet
  <2>2. Alive(t)' /\ Pc(t) # "linked" /\ Pc(t)' # "linked"
    BY <1>0, <1>2 DEF Alive
  <2>3. \A x \in Sets : slot'[x].atl \ {Cache} = slot[x].atl \ {Cache}
    BY <1>6, <1>7
  <2> QED BY <1>0, <1>1, <1>2, <2>1, <2>2, <2>3, ViewsLinked
<1>16. LifeOK'
  <2>1. (Alive(t)' <=> Alive(t)) /\ (Forking(t)' <=> Forking(t)) /\ (Linking(t)' <=> Linking(t))
    BY <1>0, <1>2 DEF Alive, Forking, Linking
  <2>2. \A x \in Users : Pc(x)' = "none" => Pc(x) = "none"
    BY <1>2 DEF Pc
  <2>3. Live(n)
    BY <1>0 DEF Live
  <2>4. \A x \in Sets : slot'[x].v => slot[x].v \/ (Kind[x] # "FILE" /\ Live(x))
    BY <2>3, <1>0, <1>7
  <2> QED BY <1>1, <1>2, <2>1, <2>2, <2>4, LifeFrame DEF Inv
<1>17. FramesOK'
  <2>1. \A g \in Frames : ~HasFrame(n, g) /\ (HasFrame(n, g)' <=> g = f)
    BY <1>0, <1>3, <1>6, <1>7 DEF HasFrame
  <2>2. \A y \in Sets : y # n => \A g \in Frames : HasFrame(y, g)' <=> HasFrame(y, g)
    BY <1>7 DEF HasFrame
  <2> QED BY <1>0, <1>1, <1>2, <2>1, <2>2, FrameMoves
<1> QED BY <1>1, <1>8, <1>9, <1>10, <1>11, <1>12, <1>13, <1>14, <1>15, <1>16, <1>17 DEF Core

LEMMA AttachViewStep ==
  ASSUME Inv, NEW t \in Users, AttachView(t)
  PROVE  Core'
<1> DEFINE n == NewSet(t)
           w == NewView(t)
<1>0. /\ thr[t] \in ThrType /\ Types /\ LocksOK /\ ThreadsOK
      /\ Pc(t) = "attach" /\ t # None /\ Alive(t) /\ Forking(t) /\ LockOf(t) /\ WorkOf(t) /\ ~Linking(t)
      /\ Child[t] # None /\ n \in Sets /\ Kind[n] # "FILE" /\ w \in Views /\ Of[w] = n
  <2>1. /\ thr[t] \in ThrType /\ Types /\ LocksOK /\ ThreadsOK /\ ~Linking(t)
        /\ Pc(t) = "attach" /\ t # None /\ Alive(t) /\ LockOf(t) /\ WorkOf(t) /\ Forking(t)
    BY Statics, RecordTypes DEF Inv, AttachView, Alive, LocksOK, WorkOK, Forking, Linking
  <2> QED BY <2>1, Forks2, ForkStatics
<1>1. /\ prefs' = [prefs EXCEPT ![n] = @ + 1]
      /\ thr' = [thr EXCEPT ![t].pc = "link"]
      /\ UNCHANGED <<slot, held, gone, pvalid, pte, free>>
  BY Zenon DEF AttachView, Goes, mapVars, coreVars
<1>2. /\ thr' \in [Users -> ThrType] /\ \A u \in Users : u # t => thr'[u] = thr[u]
      /\ Pc(t)' = "link" /\ thr'[t].pg = thr[t].pg /\ thr'[t].was = thr[t].was
  BY <1>0, <1>1 DEF Types, ThrType, Pcs, Pc
<1>k. /\ \A u \in Users : u # t => /\ Pc(u)' = Pc(u) /\ (Linking(u)' <=> Linking(u))
      /\ \A u \in Users : (Alive(u)' <=> Alive(u)) /\ (Forking(u)' <=> Forking(u))
      /\ Linking(t)' /\ (Alive(t)' <=> Alive(t)) /\ (Forking(t)' <=> Forking(t)) /\ ~Leaving(t)'
      /\ \A u \in Users : Pc(u)' = "none" <=> Pc(u) = "none"
      /\ \A u \in Users : NewView(u)' = NewView(u) /\ NewSet(u)' = NewSet(u) /\ SetOf(u)' = SetOf(u)
  BY <1>0, <1>2 DEF Pc, Forking, Leaving, Alive, Linking, NewView, NewSet, SetOf
<1>3. Types'
  <2>1. prefs' \in [Sets -> Int] /\ prefs'[n] = prefs[n] + 1 /\ \A x \in Sets : x # n => prefs'[x] = prefs[x]
    BY <1>0, <1>1 DEF Types
  <2> QED BY <1>0, <1>1, <1>2, <2>1 DEF Types
<1>4. LocksOK'
  <2>1. Locked(t) = {} /\ Locked(t)' = {}
    BY <1>0, <1>2 DEF Locked, Working, Filling
  <2>2. LockOf(t)'
    BY <1>0, <1>1, <1>2, <2>1 DEF LockOf, Filling, WithPage
  <2> QED BY <1>0, <1>1, <1>2, <2>2, LocksFrame
<1>5. ThreadsOK'
  BY <1>0, <1>2, <1>k, ThreadsFrame
<1>6. WorkOf(t)'
  BY <1>0, <1>2 DEF WorkOf, Filling, Counted
<1>7. ShapeOK' /\ MastersOK' /\ WorkOK'
  BY <1>1, <1>2, <1>6, SameSlots
<1>8. RefsOK'
  <2> SUFFICES ASSUME NEW x \in Sets PROVE RefsOf(x)'
    BY DEF RefsOK
  <2>1. RefsOf(x) /\ Sharing(x)' = Sharing(x)
    BY <1>1, SharingFrame DEF Inv, RefsOK
  <2>2. Pend(x)' = Pend(x) /\ Owed(x)' = Owed(x) /\ (Unused(x)' <=> Unused(x))
    <3>1. (Pc(t)' \in Counted <=> Pc(t) \in Counted)
          /\ (Pc(t)' = "linked" <=> Pc(t) = "linked") /\ (Pc(t)' = "clast" <=> Pc(t) = "clast")
      BY <1>0, <1>2 DEF Counted
    <3> QED BY <3>1, <1>0, <1>2, <1>k, CountFrame
  <2> QED BY <2>1, <2>2, <1>1, RefsFrame
<1>9. ViewsOK'
  <2>1. Alive(t)' /\ Pc(t) # "linked" /\ Pc(t)' # "linked"
    BY <1>0, <1>2, <1>k
  <2> QED BY <1>0, <1>1, <1>2, <2>1, ViewsFrame
<1>10. LifeOK'
  <2>1. AttachedTo(n) = {} /\ AttachedTo(n)' = {w}
    <3>1. \A z \in Views : Of[z] = n => z = w
      BY <1>0, ForkStatics
    <3>2. ~Attached(w)
      <4>1. \A u \in Users : Linking(u) => u # t /\ Forking(u)
        BY <1>0 DEF Linking, Forking
      <4>2. \A u \in Users : Linking(u) => NewView(u) # w
        BY <4>1, <1>0, OwnNewSet
      <4>3. \A u \in Users : ViewOf[u] = w => ~Alive(u)
        BY <1>0, Forks2 DEF Alive
      <4> QED BY <4>2, <4>3 DEF Attached
    <3>3. Attached(w)'
      BY <1>k DEF Attached
    <3> QED BY <3>1, <3>2, <3>3, <1>0 DEF AttachedTo
  <2>2. \A z \in Views : z # w => (Attached(z)' <=> Attached(z))
    BY <1>k, <1>0 DEF Attached
  <2>3. \A x \in Sets : x # n => AttachedTo(x)' = AttachedTo(x)
    BY <2>2, <1>0 DEF AttachedTo
  <2>4. \A x \in Sets : Live(x)' <=> Live(x)
    <3>1. Live(n) /\ Live(n)'
      BY <1>0, <1>k DEF Live
    <3>2. \A x \in Sets : x # n => (Live(x)' <=> Live(x))
      BY <2>3, <1>k DEF Live
    <3> QED BY <3>1, <3>2
  <2>5. \A x \in Sets : LiveSets(x)' = LiveSets(x)
    BY <2>4 DEF LiveSets, CowSets
  <2>6. ASSUME NEW x \in Sets PROVE LifeOf(x)'
    <3>1. LifeOf(x)
      BY DEF Inv, LifeOK
    <3>2. CASE x = n
      <4>1. prefs[n] = 0 /\ prefs'[n] = 1 /\ Cardinality(AttachedTo(n)') = 1
        <5>1. prefs[n] = 0
          BY <3>1, <3>2, <2>1, <1>0, CardOne DEF LifeOf
        <5>2. prefs'[n] = prefs[n] + 1
          BY <1>0, <1>1 DEF Types
        <5> QED BY <5>1, <5>2, <2>1, CardOne
      <4>2. Live(n) /\ Live(n)'
        BY <1>0, <2>4 DEF Live
      <4>3. n \notin gone
        BY <3>1, <3>2, <4>2, <1>0 DEF LifeOf
      <4> QED BY <3>2, <4>1, <4>2, <4>3, <1>0, <1>1 DEF LifeOf
    <3>3. CASE x # n
      <4>1. prefs'[x] = prefs[x] /\ AttachedTo(x)' = AttachedTo(x) /\ LiveSets(x)' = LiveSets(x)
        BY <3>3, <2>3, <2>5, <1>0, <1>1 DEF Types
      <4> QED BY <3>1, <4>1, <2>4, <1>1, <1>k DEF LifeOf
    <3> QED BY <3>2, <3>3
  <2> QED BY <2>6 DEF LifeOK
<1>11. FramesOK'
  BY <1>1, <1>2, StillFrames
<1> QED BY <1>3, <1>4, <1>5, <1>7, <1>8, <1>9, <1>10, <1>11 DEF Core

-----------------------------------------------------------------------------
(* fork() links the view to the slot.                                    *)

\* The slot attaches one more view.
Listed(p, w) == [p EXCEPT !.atl = @ \cup {w}]

LEMMA ListedType ==
  ASSUME NEW p \in SlotType, NEW w \in Views
  PROVE  /\ Listed(p, w) \in SlotType /\ Listed(p, w).refs = p.refs /\ Listed(p, w).atl = p.atl \cup {w}
         /\ Listed(p, w).v = p.v /\ Listed(p, w).cow = p.cow /\ Listed(p, w).pfn = p.pfn
         /\ Listed(p, w).swapped = p.swapped
<1> DEFINE F == Frames \cup {None}
           V == Views \cup {Cache}
<1>1. w \in V /\ p \in [v : BOOLEAN, cow : BOOLEAN, swapped : BOOLEAN, m : BOOLEAN, refs : Int, pfn : F, atl : SUBSET V]
  BY DEF SlotType
<1> HIDE DEF F, V
<1> DEFINE q == Listed(p, w)
<1>2. /\ q \in [v : BOOLEAN, cow : BOOLEAN, swapped : BOOLEAN, m : BOOLEAN, refs : Int, pfn : F, atl : SUBSET V]
      /\ q.refs = p.refs /\ q.atl = p.atl \cup {w}
      /\ q.v = p.v /\ q.cow = p.cow /\ q.pfn = p.pfn /\ q.swapped = p.swapped
  BY <1>1 DEF Listed
<1> QED BY <1>2 DEF SlotType, F, V

LEMMA LinkSlotStep ==
  ASSUME Inv, NEW t \in Users, LinkSlot(t)
  PROVE  Core'
<1> DEFINE n == NewSet(t)
           w == NewView(t)
           q == Listed(slot[n], w)
<1>0. /\ thr[t] \in ThrType /\ Types /\ LocksOK /\ ThreadsOK
      /\ Pc(t) = "link" /\ t # None /\ Alive(t) /\ Forking(t) /\ LockOf(t) /\ WorkOf(t)
      /\ Child[t] # None /\ Child[t] \in Users /\ Pc(Child[t]) = "none"
      /\ n \in Sets /\ Kind[n] # "FILE" /\ w \in Views /\ Of[w] = n /\ w = ViewOf[Child[t]]
      /\ slot[n] \in SlotType /\ w # Cache /\ ShapeOf(n)
  <2>1. /\ thr[t] \in ThrType /\ Types /\ LocksOK /\ ThreadsOK /\ ShapeOK
        /\ Pc(t) = "link" /\ t # None /\ Alive(t) /\ LockOf(t) /\ WorkOf(t) /\ Forking(t)
    BY Statics, RecordTypes DEF Inv, LinkSlot, Alive, LocksOK, WorkOK, Forking
  <2>2. /\ Child[t] # None /\ Child[t] \in Users /\ Pc(Child[t]) = "none"
        /\ n \in Sets /\ Kind[n] # "FILE" /\ w \in Views /\ Of[w] = n /\ w = ViewOf[Child[t]]
    BY <2>1, Forks2, ForkStatics
  <2> QED BY <2>1, <2>2, RecordTypes, Statics DEF ShapeOK
<1>u. /\ ~pte[w].v /\ w \notin slot[n].atl
      /\ \A u \in Users : Pc(u) = "linked" => u # t /\ NewSet(u) # n /\ NewView(u) # w /\ Child[u] # Child[t]
  <2>1. \A u \in Users : Pc(u) = "linked" => u # t /\ Forking(u)
    BY <1>0 DEF Forking
  <2>2. \A u \in Users : Pc(u) = "linked" => NewSet(u) # n /\ NewView(u) # w
    BY <2>1, <1>0, OwnNewSet
  <2>3. \A u \in Users : Pc(u) = "linked" => Child[u] # Child[t]
    BY <2>1, <1>0, ForkStatics
  <2>4. ~pte[w].v
    BY <2>3, <1>0 DEF Inv, ViewsOK, UnbornOf
  <2>5. ~pvalid[w]
    <3>1. \A u \in Users : ViewOf[u] = w => ~Alive(u)
      BY <1>0, Forks2 DEF Alive
    <3> QED BY <3>1, <1>0 DEF Inv, ViewsOK, ValidOf
  <2>6. w \notin slot[n].atl
    BY <2>2, <2>5, <1>0 DEF Inv, ViewsOK, ListOf
  <2> QED BY <2>1, <2>2, <2>3, <2>4, <2>6
<1>1. /\ thr' = [thr EXCEPT ![t].pc = "linked"]
      /\ UNCHANGED <<held, prefs, gone, pvalid, free>>
  BY Zenon DEF LinkSlot, Goes, coreVars
<1>2. /\ thr' \in [Users -> ThrType] /\ \A u \in Users : u # t => thr'[u] = thr[u]
      /\ Pc(t)' = "linked" /\ thr'[t].pg = thr[t].pg /\ thr'[t].was = thr[t].was
  BY <1>0, <1>1 DEF Types, ThrType, Pcs, Pc
<1>k. /\ \A u \in Users : u # t => (Pc(u)' = "linked" <=> Pc(u) = "linked")
      /\ \A u \in Users : (Alive(u)' <=> Alive(u)) /\ (Pc(u)' = "none" <=> Pc(u) = "none")
      /\ Alive(t)' /\ (Linking(t)' <=> Linking(t)) /\ (Forking(t)' <=> Forking(t)) /\ ~Leaving(t)'
      /\ \A u \in Users : NewView(u)' = NewView(u) /\ NewSet(u)' = NewSet(u) /\ SetOf(u)' = SetOf(u)
  BY <1>0, <1>2 DEF Pc, Forking, Leaving, Alive, Linking, NewView, NewSet, SetOf
<1>3. LocksOK'
  <2>1. Locked(t) = {} /\ Locked(t)' = {}
    BY <1>0, <1>2 DEF Locked, Working, Filling
  <2>2. LockOf(t)'
    BY <1>0, <1>1, <1>2, <2>1 DEF LockOf, Filling, WithPage
  <2> QED BY <1>0, <1>1, <1>2, <2>2, LocksFrame
<1>4. ThreadsOK'
  BY <1>0, <1>2, <1>k, ThreadsFrame
<1>5. WorkOf(t)'
  BY <1>0, <1>2 DEF WorkOf, Filling, Counted
\* The slot: its attach list, and what the translation of the view says.
<1>6. /\ slot' \in [Sets -> SlotType] /\ pte' \in [Views -> PteType]
      /\ \A x \in Sets : x # n => slot'[x] = slot[x]
      /\ \A z \in Views : z # w => pte'[z] = pte[z]
      /\ slot'[n].v = slot[n].v /\ slot'[n].cow = slot[n].cow /\ slot'[n].pfn = slot[n].pfn
      /\ slot'[n].swapped = slot[n].swapped /\ slot'[n].refs = slot[n].refs
      /\ slot'[n].atl = (IF slot[n].v THEN slot[n].atl \cup {w} ELSE slot[n].atl)
      /\ pte'[w].v = slot[n].v
  <2>1. CASE slot[n].v
    <3>1. /\ slot' = [slot EXCEPT ![n].atl = @ \cup {w}]
          /\ pte' = [pte EXCEPT ![w] = [v |-> TRUE, ro |-> ProtRO(w, slot[n]), m |-> FALSE, pfn |-> slot[n].pfn]]
      BY <2>1, Zenon DEF LinkSlot
    <3>2. q = [slot[n] EXCEPT !.atl = @ \cup {w}]
      BY DEF Listed
    <3>3. slot' = [slot EXCEPT ![n] = q]
      BY <3>1, <3>2, <1>0 DEF Types
    <3>4. /\ q \in SlotType /\ q.refs = slot[n].refs /\ q.atl = slot[n].atl \cup {w}
          /\ q.v = slot[n].v /\ q.cow = slot[n].cow /\ q.pfn = slot[n].pfn /\ q.swapped = slot[n].swapped
      BY <1>0, ListedType
    <3>5. pte' \in [Views -> PteType] /\ pte'[w].v = TRUE /\ \A z \in Views : z # w => pte'[z] = pte[z]
      <4>1. ProtRO(w, slot[n]) \in BOOLEAN
        BY <1>0 DEF ProtRO, SlotType
      <4>2. [v |-> TRUE, ro |-> ProtRO(w, slot[n]), m |-> FALSE, pfn |-> slot[n].pfn] \in PteType
        BY <4>1, <1>0 DEF PteType, SlotType
      <4> QED BY <3>1, <4>2, <1>0 DEF Types
    <3> HIDE DEF q
    <3>6. slot' \in [Sets -> SlotType] /\ slot'[n] = q /\ \A x \in Sets : x # n => slot'[x] = slot[x]
      BY <3>3, <3>4, <1>0 DEF Types
    <3>7. slot[n].v = TRUE
      BY <2>1, <1>0 DEF SlotType
    <3> QED BY <3>4, <3>5, <3>6, <3>7, <2>1
  <2>2. CASE ~slot[n].v
    <3>1. slot' = slot /\ pte' = pte
      BY <2>2, Zenon DEF LinkSlot
    <3>2. slot[n].v = FALSE /\ pte[w].v = FALSE
      BY <2>2, <1>u, <1>0, RecordTypes DEF SlotType, PteType
    <3> QED BY <3>1, <3>2, <2>2, <1>0 DEF Types
  <2> QED BY <2>1, <2>2
<1> HIDE DEF q
<1>a. \A x \in Sets : /\ slot'[x].v = slot[x].v /\ slot'[x].cow = slot[x].cow /\ slot'[x].pfn = slot[x].pfn
                      /\ slot'[x].swapped = slot[x].swapped /\ slot'[x].refs = slot[x].refs
                      /\ (x # n => slot'[x].atl = slot[x].atl)
  BY <1>6
<1>7. Types'
  BY <1>0, <1>1, <1>2, <1>6 DEF Types
<1>8. ShapeOK'
  <2> SUFFICES ASSUME NEW x \in Sets PROVE ShapeOf(x)'
    BY DEF ShapeOK
  <2>1. ShapeOf(x)
    BY DEF Inv, ShapeOK
  <2>2. CASE x = n
    BY <2>1, <2>2, <1>0, <1>6 DEF ShapeOf
  <2>3. CASE x # n
    BY <2>1, <2>3, <1>6 DEF ShapeOf
  <2> QED BY <2>2, <2>3
<1>9. MastersOK'
  BY <1>a, OfCow DEF MastersOK, Inv
<1>10. WorkOK'
  <2>1. ASSUME NEW u \in Users, u # t PROVE WorkOf(u)'
    <3>1. WorkOf(u) /\ SetOf(u) \in Sets
      BY Statics DEF Inv, WorkOK
    <3>2. /\ Minds(u) => SetOf(u) # n
          /\ Filling(u) => thr[u].on \in Sets /\ thr[u].on # n
          /\ Forking(u) => NewSet(u) \in Sets /\ NewSet(u) # n
      BY <1>0, <2>1, OwnNewSet
    <3>3. Pc(u) = "clast" => Minds(u)
      BY DEF Minds, Working
    <3> QED BY <1>1, <1>2, <1>6, <2>1, <3>1, <3>2, <3>3, WorkFrame
  <2> QED BY <2>1, <1>5 DEF WorkOK
<1>11. RefsOK'
  <2> SUFFICES ASSUME NEW x \in Sets PROVE RefsOf(x)'
    BY DEF RefsOK
  <2>1. RefsOf(x) /\ Sharing(x)' = Sharing(x)
    BY <1>a, SharingFrame DEF Inv, RefsOK, CowSets
  <2>2. Pend(x)' = Pend(x) /\ (Unused(x)' <=> Unused(x)) /\ (x # n => Owed(x)' = Owed(x))
    <3>1. (Pc(t)' \in Counted <=> Pc(t) \in Counted) /\ (Pc(t)' = "clast" <=> Pc(t) = "clast")
      BY <1>0, <1>2 DEF Counted
    <3> QED BY <3>1, <1>0, <1>2, <1>k, CountFrame
  <2>3. CASE x # n
    BY <2>1, <2>2, <2>3, <1>6, RefsFrame
  <2>4. CASE x = n /\ slot[n].v
    <3>1. Owed(n) = 0 /\ Owed(n)' = 1
      BY <1>u, <1>2, <1>k DEF Owed
    <3>2. Cardinality(slot'[n].atl) = Cardinality(slot[n].atl) + 1
      <4>1. IsFiniteSet(slot[n].atl)
        BY <1>0, Finite
      <4> QED BY <4>1, <2>4, <1>6, <1>u, CardAdd
    <3>3. slot[n].refs \in Int /\ Cardinality(slot[n].atl) \in Nat /\ Cardinality(Sharing(n)) \in Nat /\ Pend(n) \in {0, 1}
      BY <1>0, Finite, CountTypes
    <3>4. slot'[n].refs = Cardinality(slot'[n].atl) + Cardinality(Sharing(n)') + Pend(n)' - Owed(n)'
      <4>1. slot[n].refs = Cardinality(slot[n].atl) + Cardinality(Sharing(n)) + Pend(n) - Owed(n)
        BY <2>1, <2>4 DEF RefsOf
      <4> QED BY <4>1, <3>1, <3>2, <3>3, <2>1, <2>2, <2>4, <1>6
    <3>5. slot'[n].refs >= 0 /\ Unused(n)'
      <4>1. Unused(n)
        BY <1>0 DEF Unused
      <4> QED BY <4>1, <2>1, <2>2, <2>4, <1>6 DEF RefsOf
    <3> QED BY <2>4, <3>4, <3>5 DEF RefsOf
  <2>5. CASE x = n /\ ~slot[n].v
    BY <2>1, <2>5, <1>6 DEF RefsOf
  <2> QED BY <2>3, <2>4, <2>5
<1>12. ViewsOK'
  <2>0. ViewsOK
    BY DEF Inv
  <2>1. ASSUME NEW z \in Views PROVE ValidOf(z)'
    <3>1. z \in slot[Of[z]].atl => z \in slot'[Of[z]].atl
      BY <1>6, Statics
    <3> QED BY <3>1, <2>0, <1>1, <1>k DEF ViewsOK, ValidOf
  <2>2. ASSUME NEW x \in Sets PROVE ListOf(x)'
    <3> SUFFICES ASSUME NEW z \in slot'[x].atl \ {Cache}
                 PROVE Of[z] = x /\ (pvalid'[z] \/ \E u \in Users : Pc(u)' = "linked" /\ NewView(u)' = z)
      BY Zenon DEF ListOf
    <3>1. CASE z = w /\ x = n
      BY <3>1, <1>0, <1>2, <1>k
    <3>2. CASE z \in slot[x].atl
      <4>2. Of[z] = x /\ (pvalid[z] \/ \E u \in Users : Pc(u) = "linked" /\ NewView(u) = z)
        BY <3>2, <2>0 DEF ViewsOK, ListOf
      <4> QED BY <4>2, <1>1, <1>k, <1>0
    <3> QED BY <3>1, <3>2, <1>6
  <2>3. ASSUME NEW u \in Users PROVE LinkedOf(u)'
    <3>1. CASE u = t
      BY <3>1, <1>0, <1>6, <1>k DEF LinkedOf
    <3>2. CASE u # t /\ Pc(u) = "linked"
      <4>1. NewView(u) \in Views /\ NewSet(u) \in Sets
        BY <3>2, <1>0, Forks2, ForkStatics DEF Forking
      <4> QED BY <4>1, <3>2, <2>0, <1>u, <1>k, <1>6 DEF ViewsOK, LinkedOf
    <3>3. CASE u # t /\ Pc(u) # "linked"
      BY <3>3, <1>k DEF LinkedOf
    <3> QED BY <3>1, <3>2, <3>3
  <2>4. ASSUME NEW u \in Users PROVE UnbornOf(u)'
    <3>1. SUFFICES ASSUME Pc(u)' = "none", \A z \in Users : Pc(z)' = "linked" => Child[z] # u
                   PROVE  ~pte'[ViewOf[u]].v
      BY DEF UnbornOf
    <3>2. u # Child[t]
      BY <3>1, <1>2
    <3>3. ViewOf[u] # w /\ ViewOf[u] \in Views
      BY <3>2, <1>0, ForkStatics, Statics
    <3>4. Pc(u) = "none" /\ \A z \in Users : Pc(z) = "linked" => Child[z] # u
      BY <3>1, <1>k, <1>0
    <3> QED BY <3>3, <3>4, <2>0, <1>6 DEF ViewsOK, UnbornOf
  <2> QED BY <2>1, <2>2, <2>3, <2>4 DEF ViewsOK
<1>13. LifeOK'
  BY <1>0, <1>1, <1>2, <1>k, <1>a, LifeFrame DEF Inv
<1>14. FramesOK'
  <2>1. \A x \in Sets : \A f \in Frames : HasFrame(x, f)' <=> HasFrame(x, f)
    BY <1>a DEF HasFrame
  <2>2. \A u \in Users : thr'[u].pg = thr[u].pg
    BY <1>2
  <2> QED BY <1>0, <1>1, <2>1, <2>2, FramesFrame DEF Inv, Types
<1> QED BY <1>3, <1>4, <1>7, <1>8, <1>9, <1>10, <1>11, <1>12, <1>13, <1>14 DEF Core

\* FramesStay for any step: who has pages besides the slots is who had.
LEMMA FramesSame ==
  ASSUME Inv, free' = free,
         \A u \in Users : \A f \in Frames : thr'[u].pg = f <=> thr[u].pg = f,
         \A s \in Sets : \A f \in Frames : HasFrame(s, f)' <=> HasFrame(s, f)
  PROVE  FramesOK'
<1>2. FramesOK /\ free \subseteq Frames
  BY DEF Inv, Types
<1>3. \A g \in Frames : \/ g \in free'
                        \/ \E s \in Sets : HasFrame(s, g)'
                        \/ \E u \in Users : thr'[u].pg = g
  BY <1>2 DEF FramesOK
<1>4. \A g \in free' : (\A s \in Sets : ~HasFrame(s, g)') /\ \A u \in Users : thr'[u].pg # g
  BY <1>2 DEF FramesOK
<1>5. \A g \in Frames, s \in Sets : HasFrame(s, g)' => \A u \in Users : thr'[u].pg # g
  BY <1>2 DEF FramesOK
<1>6. \A g \in Frames, s, y \in Sets : HasFrame(s, g)' /\ HasFrame(y, g)' => s = y
  BY <1>2 DEF FramesOK
<1>7. \A g \in Frames, u, w \in Users : thr'[u].pg = g /\ thr'[w].pg = g => u = w
  BY <1>2 DEF FramesOK
<1> QED BY <1>3, <1>4, <1>5, <1>6, <1>7 DEF FramesOK

LEMMA ForkEndsStep ==
  ASSUME Inv, NEW t \in Users, ForkEnds(t)
  PROVE  Core'
<1> DEFINE n == NewSet(t)
           w == NewView(t)
           c == Child[t]
<1>0. /\ thr[t] \in ThrType /\ Types /\ LocksOK /\ ThreadsOK
      /\ Pc(t) = "linked" /\ t # None /\ Alive(t) /\ Forking(t) /\ LockOf(t)
      /\ c # None /\ c \in Users /\ Pc(c) = "none" /\ c # t
      /\ n \in Sets /\ Kind[n] # "FILE" /\ w \in Views /\ Of[w] = n /\ w = ViewOf[c] /\ n = SetOf(c)
      /\ slot[n] \in SlotType /\ w # Cache /\ ShapeOf(n) /\ LockOf(c) /\ c # None
  <2>1. /\ thr[t] \in ThrType /\ Types /\ LocksOK /\ ThreadsOK /\ ShapeOK
        /\ Pc(t) = "linked" /\ t # None /\ Alive(t) /\ LockOf(t) /\ Forking(t)
    BY Statics, RecordTypes DEF Inv, ForkEnds, Alive, LocksOK, Forking
  <2>2. /\ c # None /\ c \in Users /\ Pc(c) = "none"
        /\ n \in Sets /\ Kind[n] # "FILE" /\ w \in Views /\ Of[w] = n /\ w = ViewOf[c] /\ n = SetOf(c)
    BY <2>1, Forks2, ForkStatics
  <2>3. c # t
    BY <2>1, <2>2
  <2> QED BY <2>1, <2>2, <2>3, RecordTypes, Statics DEF ShapeOK, LocksOK
<1>o. \A u \in Users : u # t /\ Forking(u) => Child[u] # c /\ NewSet(u) # n /\ NewView(u) # w
  <2>1. \A u \in Users : u # t /\ Forking(u) => NewSet(u) # n /\ NewView(u) # w
    BY <1>0, OwnNewSet
  <2> QED BY <2>1, <1>0, ForkStatics
<1>1. /\ thr' = [thr EXCEPT ![t] = At("user"), ![c] = At("user")]
      /\ UNCHANGED <<held, prefs, gone, pte, free>>
  BY Zenon DEF ForkEnds, coreVars
<1>2. /\ thr' \in [Users -> ThrType] /\ \A u \in Users : u # t /\ u # c => thr'[u] = thr[u]
      /\ thr'[t] = At("user") /\ thr'[c] = At("user")
      /\ Pc(t)' = "user" /\ thr'[t].pg = None /\ thr'[t].was = FALSE
      /\ Pc(c)' = "user" /\ thr'[c].pg = None /\ thr'[c].was = FALSE
  BY <1>0, <1>1 DEF Types, At, ThrType, Pcs, Pc
<1>l. /\ pte[w].v <=> slot[n].v
      /\ slot[n].v => w \in slot[n].atl
  BY <1>0 DEF Inv, ViewsOK, LinkedOf
<1>k. /\ \A u \in Users : u # t /\ u # c =>
                           /\ Pc(u)' = Pc(u) /\ (Forking(u)' <=> Forking(u)) /\ (Leaving(u)' <=> Leaving(u))
                           /\ (Alive(u)' <=> Alive(u)) /\ (Linking(u)' <=> Linking(u))
      /\ Alive(t)' /\ Alive(c)' /\ ~Alive(c) /\ Linking(t) /\ ~Linking(t)' /\ ~Linking(c) /\ ~Linking(c)'
      /\ ~Forking(t)' /\ ~Forking(c) /\ ~Forking(c)' /\ ~Leaving(t)' /\ ~Leaving(c)'
      /\ \A u \in Users : NewView(u)' = NewView(u) /\ NewSet(u)' = NewSet(u) /\ SetOf(u)' = SetOf(u)
  BY <1>0, <1>2 DEF Pc, Forking, Leaving, Alive, Linking, NewView, NewSet, SetOf
<1>6. /\ slot' \in [Sets -> SlotType] /\ pvalid' \in [Views -> BOOLEAN]
      /\ \A x \in Sets : /\ slot'[x].v = slot[x].v /\ slot'[x].cow = slot[x].cow /\ slot'[x].pfn = slot[x].pfn
                         /\ slot'[x].swapped = slot[x].swapped /\ slot'[x].atl = slot[x].atl
      /\ \A x \in Sets : x # n => slot'[x] = slot[x]
      /\ slot'[n].refs = IF slot[n].v THEN slot[n].refs + 1 ELSE slot[n].refs
      /\ \A z \in Views : z # w => pvalid'[z] = pvalid[z]
      /\ slot[n].v => pvalid'[w]
      /\ ~slot[n].v => pvalid'[w] = pvalid[w]
  <2>1. CASE slot[n].v
    <3>1. slot' = [slot EXCEPT ![n].refs = @ + 1] /\ pvalid' = [pvalid EXCEPT ![w] = TRUE]
      BY <2>1, <1>l, Zenon DEF ForkEnds
    <3>2. [slot[n] EXCEPT !.refs = @ + 1] \in SlotType
      BY <1>0, MoreRefs
    <3>3. slot' \in [Sets -> SlotType]
      BY <3>1, <3>2, <1>0 DEF Types
    <3>4. /\ \A x \in Sets : x # n => slot'[x] = slot[x]
          /\ slot'[n] = [slot[n] EXCEPT !.refs = @ + 1]
      BY <3>1, <1>0 DEF Types
    <3>5. /\ slot'[n].v = slot[n].v /\ slot'[n].cow = slot[n].cow /\ slot'[n].pfn = slot[n].pfn
          /\ slot'[n].swapped = slot[n].swapped /\ slot'[n].atl = slot[n].atl
          /\ slot'[n].refs = slot[n].refs + 1
      BY <3>4, <1>0 DEF SlotType
    <3>6. pvalid' \in [Views -> BOOLEAN] /\ pvalid'[w] /\ \A z \in Views : z # w => pvalid'[z] = pvalid[z]
      BY <3>1, <1>0 DEF Types
    <3> QED BY <3>3, <3>4, <3>5, <3>6, <2>1
  <2>2. CASE ~slot[n].v
    <3>1. slot' = slot /\ pvalid' = pvalid
      BY <2>2, <1>l, Zenon DEF ForkEnds
    <3> QED BY <3>1, <2>2, <1>0 DEF Types
  <2> QED BY <2>1, <2>2
<1>7. Types'
  BY <1>0, <1>1, <1>2, <1>6 DEF Types
<1>8. LocksOK'
  <2>1. Locked(t) = {} /\ Locked(t)' = {} /\ Locked(c) = {} /\ Locked(c)' = {}
    BY <1>0, <1>2 DEF Locked, Working, Filling
  <2>2. LockOf(t)' /\ LockOf(c)'
    BY <1>0, <1>1, <1>2, <2>1, Statics DEF LockOf, Filling, WithPage
  <2>3. ASSUME NEW u \in Users, u # t, u # c PROVE LockOf(u)'
    <3>1. LockOf(u) /\ thr'[u] = thr[u] /\ Pc(u)' = Pc(u) /\ SetOf(u)' = SetOf(u)
      BY <2>3, <1>0, <1>2, <1>k DEF LocksOK
    <3>2. (Filling(u)' <=> Filling(u)) /\ Locked(u)' = Locked(u)
      BY <3>1 DEF Filling, Locked
    <3> QED BY <3>1, <3>2, <1>1 DEF LockOf, FillSet
  <2> QED BY <2>2, <2>3 DEF LocksOK
<1>9. ThreadsOK'
  <2>1. \A u \in Users : Forking(u)' => Child[u] \in Users /\ Pc(Child[u])' = "none"
    <3>1. \A u \in Users : Forking(u)' => u # t /\ u # c /\ Forking(u)
      BY <1>k
    <3>2. \A u \in Users : Forking(u)' => Child[u] \in Users /\ Pc(Child[u]) = "none" /\ Child[u] # c
      BY <3>1, <1>0, <1>o DEF ThreadsOK
    <3> QED BY <3>2, <1>0, <1>k
  <2>2. \A u \in Users : Pc(u)' = "none" => u \notin Born
    BY <1>0, <1>2, <1>k DEF ThreadsOK
  <2>3. ASSUME NEW u \in Users, NEW z \in Users, Leaving(u)', ViewOf[z] = ViewOf[u], z # u
        PROVE  Pc(z)' = "dead"
    <3>1. Leaving(u) /\ u # t /\ u # c
      BY <2>3, <1>k
    <3>2. Pc(z) = "dead"
      BY <3>1, <2>3, <1>0 DEF ThreadsOK
    <3> QED BY <3>2, <1>0, <1>k
  <2> QED BY <2>1, <2>2, <2>3 DEF ThreadsOK, Born
<1>10. ShapeOK'
  <2> SUFFICES ASSUME NEW x \in Sets PROVE ShapeOf(x)'
    BY DEF ShapeOK
  <2>1. ShapeOf(x)
    BY DEF Inv, ShapeOK
  <2>2. CASE x = n
    BY <2>1, <2>2, <1>6 DEF ShapeOf
  <2>3. CASE x # n
    BY <2>1, <2>3, <1>6 DEF ShapeOf
  <2> QED BY <2>2, <2>3
<1>11. MastersOK'
  BY <1>6, OfCow DEF MastersOK, Inv
<1>12. WorkOK'
  <2>1. ASSUME NEW u \in Users, u # t, u # c PROVE WorkOf(u)'
    <3>1. WorkOf(u) /\ SetOf(u) \in Sets /\ ViewOf[u] \in Views
      BY Statics DEF Inv, WorkOK
    <3>2. /\ Minds(u) => SetOf(u) # n
          /\ Filling(u) => thr[u].on \in Sets /\ thr[u].on # n
          /\ Forking(u) => NewSet(u) \in Sets /\ NewSet(u) # n
      BY <1>0, <2>1, OwnNewSet
    <3>3. Pc(u) = "clast" => Minds(u)
      BY DEF Minds, Working
    <3>4. ViewOf[u] # w
      BY <1>0, <2>1, ForkStatics
    <3>5. pvalid'[ViewOf[u]] = pvalid[ViewOf[u]]
      BY <3>1, <3>4, <1>6
    <3> QED BY <1>2, <1>6, <2>1, <3>1, <3>2, <3>3, <3>5, WorkFrame
  <2>2. WorkOf(t)' /\ WorkOf(c)'
    BY <1>2 DEF WorkOf, Filling, Counted
  <2> QED BY <2>1, <2>2 DEF WorkOK
<1>13. RefsOK'
  <2>1. \A x \in Sets : Pend(x)' = Pend(x)
    <3>1. \A u \in Users : (Pc(u) \in Counted)' <=> Pc(u) \in Counted
      BY <1>0, <1>2, <1>k DEF Counted
    <3> QED BY <3>1, <1>k DEF Pend, Counted
  <2>2. \A x \in Sets : x # n => Owed(x)' = Owed(x)
    BY <1>0, <1>2, <1>k DEF Owed
  <2>3. \A x \in Sets : x # n => (Unused(x)' <=> Unused(x))
    BY <1>0, <1>2, <1>k DEF Unused
  <2>4. \A x \in Sets : Sharing(x)' = Sharing(x)
    BY <1>6, SharingFrame DEF CowSets
  <2>5. ASSUME NEW x \in Sets, x # n PROVE RefsOf(x)'
    <3>1. RefsOf(x)
      BY DEF Inv, RefsOK
    <3> QED BY <3>1, <2>1, <2>2, <2>3, <2>4, <2>5, <1>6, RefsFrame
  <2>6. RefsOf(n)'
    <3>1. RefsOf(n)
      BY <1>0 DEF Inv, RefsOK
    <3>2. CASE ~slot[n].v
      <4>1. ~slot'[n].v /\ slot'[n].refs = slot[n].refs
        BY <3>2, <1>0, <1>6
      <4> QED BY <4>1, <3>1 DEF RefsOf
    <3>3. CASE slot[n].v
      <4>1. Owed(n) = 1
        BY <1>0 DEF Owed
      <4>2. Owed(n)' = 0
        <5>1. \A u \in Users : Pc(u)' = "linked" => NewSet(u)' # n
          <6>1. \A u \in Users : Pc(u)' = "linked" => u # t /\ Forking(u)
            BY <1>2, <1>k DEF Forking
          <6> QED BY <6>1, <1>o, <1>k
        <5> QED BY <5>1 DEF Owed
      <4>3. slot[n].refs \in Int /\ Cardinality(slot[n].atl) \in Nat /\ Cardinality(Sharing(n)) \in Nat /\ Pend(n) \in {0, 1}
        BY <1>0, Finite, CountTypes
      <4>4. slot[n].refs = Cardinality(slot[n].atl) + Cardinality(Sharing(n)) + Pend(n) - Owed(n) /\ slot[n].refs >= 0
        BY <3>1, <3>3 DEF RefsOf
      <4>5. slot'[n].refs = slot[n].refs + 1 /\ slot'[n].atl = slot[n].atl
        BY <3>3, <1>0, <1>6
      <4>6. Pend(n)' = Pend(n) /\ Sharing(n)' = Sharing(n)
        BY <1>0, <2>1, <2>4
      <4>7. slot'[n].refs = Cardinality(slot'[n].atl) + Cardinality(Sharing(n)') + Pend(n)' - Owed(n)'
        BY <4>1, <4>2, <4>3, <4>4, <4>5, <4>6
      <4>8. slot'[n].refs > 0 /\ slot'[n].refs >= 0
        BY <4>3, <4>4, <4>5
      <4> QED BY <4>7, <4>8 DEF RefsOf
    <3> QED BY <3>2, <3>3
  <2> QED BY <2>5, <2>6 DEF RefsOK
<1>14. ViewsOK'
  <2>0. ViewsOK
    BY DEF Inv
  <2>1. ASSUME NEW z \in Views PROVE ValidOf(z)'
    <3>1. CASE z = w /\ slot[n].v
      <4>1. w \in slot'[n].atl
        BY <3>1, <1>0, <1>l, <1>6
      <4>2. ViewOf[c] = w /\ Alive(c)' /\ c \in Users
        BY <1>0, <1>k
      <4> QED BY <4>1, <4>2, <3>1, <1>0 DEF ValidOf
    <3>2. CASE ~(z = w /\ slot[n].v)
      <4>1. pvalid'[z] = pvalid[z] /\ slot'[Of[z]].atl = slot[Of[z]].atl
        BY <3>2, <1>6, Statics
      <4>2. \A u \in Users : Alive(u) => Alive(u)'
        BY <1>k
      <4> QED BY <4>1, <4>2, <2>0 DEF ViewsOK, ValidOf
    <3> QED BY <3>1, <3>2
  <2>2. ASSUME NEW x \in Sets PROVE ListOf(x)'
    <3> SUFFICES ASSUME NEW z \in slot'[x].atl \ {Cache}
                 PROVE Of[z] = x /\ (pvalid'[z] \/ \E u \in Users : Pc(u)' = "linked" /\ NewView(u)' = z)
      BY Zenon DEF ListOf
    <3>1. z \in slot[x].atl
      BY <1>6
    <3>2. Of[z] = x /\ (pvalid[z] \/ \E u \in Users : Pc(u) = "linked" /\ NewView(u) = z)
      BY <3>1, <2>0 DEF ViewsOK, ListOf
    <3>3. z \in Views
      BY <3>1, <1>0, RecordTypes DEF SlotType
    <3>4. CASE z = w
      <4>1. slot[n].v
        BY <3>1, <3>2, <3>4, <1>0 DEF ShapeOf
      <4> QED BY <4>1, <3>2, <3>4, <1>6
    <3>5. CASE z # w
      <4>1. \A u \in Users : Pc(u) = "linked" /\ NewView(u) = z => u # t /\ u # c
        BY <3>5, <1>0
      <4> QED BY <4>1, <3>2, <3>3, <3>5, <1>6, <1>k
    <3> QED BY <3>4, <3>5
  <2>3. ASSUME NEW u \in Users PROVE LinkedOf(u)'
    <3>1. CASE u = t \/ u = c
      BY <3>1, <1>2 DEF LinkedOf
    <3>2. CASE u # t /\ u # c /\ Pc(u) = "linked"
      <4>1. NewView(u) \in Views /\ NewSet(u) \in Sets
        BY <3>2, <1>0, Forks2, ForkStatics DEF Forking
      <4> QED BY <4>1, <3>2, <2>0, <1>1, <1>k, <1>6 DEF ViewsOK, LinkedOf
    <3>3. CASE u # t /\ u # c /\ Pc(u) # "linked"
      BY <3>3, <1>k DEF LinkedOf
    <3> QED BY <3>1, <3>2, <3>3
  <2>4. ASSUME NEW u \in Users PROVE UnbornOf(u)'
    <3>1. SUFFICES ASSUME Pc(u)' = "none", \A z \in Users : Pc(z)' = "linked" => Child[z] # u
                   PROVE  ~pte'[ViewOf[u]].v
      BY DEF UnbornOf
    <3>2. u # c /\ u # t
      BY <3>1, <1>2
    <3>4. Pc(u) = "none" /\ \A z \in Users : Pc(z) = "linked" => Child[z] # u
      <4>1. \A z \in Users : Pc(z) = "linked" => z = t \/ (z # c /\ Pc(z)' = "linked")
        BY <1>0, <1>k
      <4> QED BY <4>1, <3>1, <3>2, <1>k
    <3> QED BY <3>4, <2>0, <1>1 DEF ViewsOK, UnbornOf
  <2> QED BY <2>1, <2>2, <2>3, <2>4 DEF ViewsOK
<1>15. LifeOK'
  <2>1. \A z \in Views : Attached(z)' <=> Attached(z)
    <3>1. Attached(w)
      BY <1>0, <1>k DEF Attached
    <3>2. Attached(w)'
      BY <1>0, <1>k DEF Attached
    <3>3. ASSUME NEW z \in Views, z # w PROVE Attached(z)' <=> Attached(z)
      <4>1. \A u \in Users : ViewOf[u] = z => (Alive(u)' <=> Alive(u))
        BY <3>3, <1>0, <1>k
      <4>2. \A u \in Users : NewView(u) = z => (Linking(u)' <=> Linking(u))
        BY <3>3, <1>0, <1>k
      <4> QED BY <4>1, <4>2, <1>k DEF Attached
    <3> QED BY <3>1, <3>2, <3>3
  <2>2. \A x \in Sets : AttachedTo(x)' = AttachedTo(x)
    BY <2>1 DEF AttachedTo
  <2>3. \A x \in Sets : Live(x)' <=> Live(x)
    <3>1. w \in AttachedTo(n)' /\ Live(n)
      <4>1. Attached(w)'
        BY <1>0, <1>k DEF Attached
      <4> QED BY <4>1, <1>0 DEF AttachedTo, Live
    <3>2. \A x \in Sets : x # n => (Live(x)' <=> Live(x))
      BY <2>2, <1>0, <1>k DEF Live
    <3> QED BY <3>1, <3>2 DEF Live
  <2>4. \A x \in Sets : LiveSets(x)' = LiveSets(x)
    BY <2>3 DEF LiveSets, CowSets
  <2>5. ASSUME NEW x \in Sets PROVE LifeOf(x)'
    <3>1. LifeOf(x) /\ slot'[x].v = slot[x].v
      BY <1>6 DEF Inv, LifeOK
    <3>2. \A u \in Users : Pc(u)' = "none" => Pc(u) = "none"
      BY <1>2, <1>k
    <3> QED BY <3>1, <3>2, <2>2, <2>3, <2>4, <1>1, <1>k DEF LifeOf
  <2> QED BY <2>5 DEF LifeOK
<1>16. FramesOK'
  <2>1. \A x \in Sets : \A f \in Frames : HasFrame(x, f)' <=> HasFrame(x, f)
    BY <1>6 DEF HasFrame
  <2>2. \A u \in Users : \A f \in Frames : thr'[u].pg = f <=> thr[u].pg = f
    <3>1. thr[t].pg \notin Frames /\ thr[c].pg \notin Frames
      BY <1>0 DEF LockOf, WithPage
    <3> QED BY <3>1, <1>2, Statics
  <2> QED BY <1>1, <2>1, <2>2, FramesSame
<1> QED BY <1>7, <1>8, <1>9, <1>10, <1>11, <1>12, <1>13, <1>14, <1>15, <1>16 DEF Core

-----------------------------------------------------------------------------
(* A view is detached.                                                   *)

\* The slot that a view leaves.
Unlisted(p, w, d) == [p EXCEPT !.atl = @ \ {w}, !.m = @ \/ d]
\* The slot whose page is kept because it is dirty.
Kept(p) == [p EXCEPT !.refs = 1, !.atl = @ \cup {Cache}]

LEMMA UnlistedType ==
  ASSUME NEW p \in SlotType, NEW w \in Views, NEW d \in BOOLEAN
  PROVE  /\ Unlisted(p, w, d) \in SlotType /\ Unlisted(p, w, d).refs = p.refs
         /\ Unlisted(p, w, d).atl = p.atl \ {w} /\ Unlisted(p, w, d).v = p.v
         /\ Unlisted(p, w, d).cow = p.cow /\ Unlisted(p, w, d).pfn = p.pfn
         /\ Unlisted(p, w, d).swapped = p.swapped
<1> DEFINE F == Frames \cup {None}
           V == Views \cup {Cache}
<1>1. p \in [v : BOOLEAN, cow : BOOLEAN, swapped : BOOLEAN, m : BOOLEAN, refs : Int, pfn : F, atl : SUBSET V]
  BY DEF SlotType
<1> HIDE DEF F, V
<1> DEFINE q == Unlisted(p, w, d)
<1>2. /\ q \in [v : BOOLEAN, cow : BOOLEAN, swapped : BOOLEAN, m : BOOLEAN, refs : Int, pfn : F, atl : SUBSET V]
      /\ q.refs = p.refs /\ q.atl = p.atl \ {w}
      /\ q.v = p.v /\ q.cow = p.cow /\ q.pfn = p.pfn /\ q.swapped = p.swapped
  <2>1. p.m \/ d \in BOOLEAN
    OBVIOUS
  <2> QED BY <1>1, <2>1 DEF Unlisted
<1> QED BY <1>2 DEF SlotType, F, V

LEMMA KeptType ==
  ASSUME NEW p \in SlotType
  PROVE  /\ Kept(p) \in SlotType /\ Kept(p).refs = 1
         /\ Kept(p).atl = p.atl \cup {Cache} /\ Kept(p).v = p.v
         /\ Kept(p).cow = p.cow /\ Kept(p).pfn = p.pfn /\ Kept(p).swapped = p.swapped
<1> DEFINE F == Frames \cup {None}
           V == Views \cup {Cache}
<1>1. Cache \in V /\ p \in [v : BOOLEAN, cow : BOOLEAN, swapped : BOOLEAN, m : BOOLEAN, refs : Int, pfn : F, atl : SUBSET V]
  BY DEF SlotType
<1> HIDE DEF F, V
<1> DEFINE q == Kept(p)
<1>2. /\ q \in [v : BOOLEAN, cow : BOOLEAN, swapped : BOOLEAN, m : BOOLEAN, refs : Int, pfn : F, atl : SUBSET V]
      /\ q.refs = 1 /\ q.atl = p.atl \cup {Cache}
      /\ q.v = p.v /\ q.cow = p.cow /\ q.pfn = p.pfn /\ q.swapped = p.swapped
  <2> DEFINE y == [p EXCEPT !.refs = 1]
  <2>1. /\ y \in [v : BOOLEAN, cow : BOOLEAN, swapped : BOOLEAN, m : BOOLEAN, refs : Int, pfn : F, atl : SUBSET V]
        /\ y.refs = 1 /\ y.atl = p.atl
        /\ y.v = p.v /\ y.cow = p.cow /\ y.pfn = p.pfn /\ y.swapped = p.swapped
    BY <1>1
  <2>2. q = [y EXCEPT !.atl = @ \cup {Cache}]
    BY <1>1 DEF Kept
  <2> HIDE DEF y, q
  <2> QED BY <1>1, <2>1, <2>2
<1> QED BY <1>2 DEF SlotType, F, V

\* What becomes of a slot that one of its views leaves.
Left(s, p, w, d) ==
  LET u == Unlisted(p, w, d)
  IN IF u.cow /\ u.refs = 1 THEN [u EXCEPT !.refs = 0] ELSE DerefSlot(s, u)

LEMMA SlotLeft ==
  ASSUME NEW p \in SlotType, NEW w \in Views, NEW d \in BOOLEAN, NEW s \in Sets,
         p.v, w \in p.atl, IsFiniteSet(p.atl), p.refs = Cardinality(p.atl),
         p.cow => p.atl = {w}
  PROVE  LET u == Unlisted(p, w, d)
             q == Left(s, p, w, d)
         IN /\ q \in SlotType /\ q.cow = p.cow /\ q.pfn = p.pfn /\ q.swapped = p.swapped
            /\ q.refs = Cardinality(q.atl) /\ q.atl \ {Cache} = (p.atl \ {w}) \ {Cache}
            /\ (u.cow /\ u.refs = 1) <=> p.cow
            /\ p.cow => q.v /\ q.refs = 0 /\ q.atl = {}
            /\ ~p.cow /\ q.v => q.refs > 0 /\ Lost(u, q) = {}
            /\ ~q.v => ~p.cow /\ q.refs = 0 /\ q.atl = {} /\ Lost(u, q) = {p.pfn}
            /\ q.v => Lost(u, q) = {}
<1> DEFINE u == Unlisted(p, w, d)
           q == IF u.cow /\ u.refs = 1 THEN [u EXCEPT !.refs = 0] ELSE DerefSlot(s, u)
           x == [u EXCEPT !.refs = @ - 1]
<1>q. q = Left(s, p, w, d)
  BY DEF Left
<1>g. SUFFICES /\ q \in SlotType /\ q.cow = p.cow /\ q.pfn = p.pfn /\ q.swapped = p.swapped
               /\ q.refs = Cardinality(q.atl) /\ q.atl \ {Cache} = (p.atl \ {w}) \ {Cache}
               /\ (u.cow /\ u.refs = 1) <=> p.cow
               /\ p.cow => q.v /\ q.refs = 0 /\ q.atl = {}
               /\ ~p.cow /\ q.v => q.refs > 0 /\ Lost(u, q) = {}
               /\ ~q.v => ~p.cow /\ q.refs = 0 /\ q.atl = {} /\ Lost(u, q) = {p.pfn}
               /\ q.v => Lost(u, q) = {}
  <2> HIDE DEF q
  <2> QED BY <1>q
<1>1. /\ u \in SlotType /\ u.refs = p.refs /\ u.atl = p.atl \ {w} /\ u.v /\ u.cow = p.cow /\ u.pfn = p.pfn
      /\ u.swapped = p.swapped
  BY UnlistedType
<1> HIDE DEF u
<1>2. /\ IsFiniteSet(u.atl) /\ Cardinality(u.atl) = p.refs - 1 /\ Cardinality(u.atl) \in Nat
      /\ p.refs \in Int
  <2>1. Cardinality(u.atl) = p.refs - 1 /\ IsFiniteSet(u.atl)
    BY <1>1, CardDel
  <2>2. Cardinality(u.atl) \in Nat
    BY <2>1, FS_CardinalityType
  <2> QED BY <2>1, <2>2 DEF SlotType
<1>3. Cardinality(u.atl) = 0 => u.atl = {}
  BY <1>2, FS_EmptySet
<1>c. p.cow => p.refs = 1 /\ u.atl = {}
  <2>1. Cardinality({w}) = 1
    BY CardOne
  <2> QED BY <2>1, <1>1
<1>4. CASE p.cow
  <2>1. q = [u EXCEPT !.refs = 0] /\ u.cow /\ u.refs = 1
    BY <1>4, <1>1, <1>c
  <2>2. /\ q \in SlotType /\ q.refs = 0 /\ q.atl = u.atl /\ q.v /\ q.cow = u.cow /\ q.pfn = u.pfn
        /\ q.swapped = u.swapped
    <3> HIDE DEF q
    <3>1. [u EXCEPT !.refs = 0] \in SlotType
      BY <1>1 DEF SlotType
    <3> QED BY <2>1, <3>1, <1>1 DEF SlotType
  <2>3. Cardinality(q.atl) = 0 /\ q.atl = {}
    BY <2>2, <1>4, <1>c, CardOne
  <2>4. Lost(u, q) = {}
    BY <2>2 DEF Lost
  <2> HIDE DEF q
  <2> QED BY <1>1, <1>4, <1>c, <2>1, <2>2, <2>3, <2>4
<1>5. CASE ~p.cow /\ p.refs # 1
  <2>1. x \in SlotType /\ x.refs = p.refs - 1 /\ x.refs # 0 /\ q = x
    BY <1>1, <1>2, <1>5, MoreRefs DEF DerefSlot, SlotType
  <2>2. /\ x.atl = u.atl /\ x.v /\ x.cow = u.cow /\ x.pfn = u.pfn /\ x.swapped = u.swapped
    BY <1>1 DEF SlotType
  <2>3. q.refs > 0
    <3> HIDE DEF q, x
    <3>1. x.refs >= 0 /\ x.refs \in Int
      BY <2>1, <1>2
    <3>2. q.refs = x.refs /\ x.refs # 0
      BY <2>1
    <3>3. \A n \in Int : n >= 0 /\ n # 0 => n > 0
      OBVIOUS
    <3> QED BY <3>1, <3>2, <3>3
  <2>4. Lost(u, q) = {}
    BY <2>1, <2>2 DEF Lost
  <2> HIDE DEF q, x
  <2> QED BY <1>1, <1>2, <1>5, <2>1, <2>2, <2>3, <2>4
<1>6. CASE ~p.cow /\ p.refs = 1
  <2>0. u.atl = {}
    BY <1>2, <1>3, <1>6
  <2>1. /\ x \in SlotType /\ x.refs = 0 /\ q = LastRef(s, x)
        /\ x.atl = {} /\ x.v /\ x.cow = u.cow /\ x.pfn = u.pfn /\ x.swapped = u.swapped
    <3>1. x \in SlotType
      BY <1>1, MoreRefs
    <3>2. /\ x.refs = 0
          /\ x.atl = {} /\ x.v /\ x.cow = u.cow /\ x.pfn = u.pfn /\ x.swapped = u.swapped
      BY <2>0, <1>1, <1>2, <1>6 DEF SlotType
    <3>3. q = LastRef(s, x)
      BY <3>2, <1>1, <1>6 DEF DerefSlot
    <3> QED BY <3>1, <3>2, <3>3
  <2> HIDE DEF x
  <2>2. CASE prefs[s] > 0 /\ x.m
    <3>1. q = Kept(x)
      BY <2>1, <2>2 DEF LastRef, Kept
    <3>2. /\ q \in SlotType /\ q.refs = 1 /\ q.atl = {Cache} /\ q.v /\ q.cow = u.cow /\ q.pfn = u.pfn
          /\ q.swapped = u.swapped
      <4>1. /\ Kept(x) \in SlotType /\ Kept(x).refs = 1 /\ Kept(x).atl = x.atl \cup {Cache}
            /\ Kept(x).v = x.v /\ Kept(x).cow = x.cow /\ Kept(x).pfn = x.pfn
            /\ Kept(x).swapped = x.swapped
        BY <2>1, KeptType
      <4>2. x.atl \cup {Cache} = {Cache}
        BY <2>1
      <4> QED BY <2>1, <3>1, <4>1, <4>2, Zenon
    <3>3. Cardinality(q.atl) = 1
      BY <3>2, CardOne
    <3>4. Lost(u, q) = {}
      BY <3>2 DEF Lost
    <3> HIDE DEF q
    <3> QED BY <1>1, <1>6, <2>0, <3>2, <3>3, <3>4
  <2>3. CASE ~(prefs[s] > 0 /\ x.m)
    <3>1. q = [x EXCEPT !.v = FALSE]
      BY <2>1, <2>3 DEF LastRef
    <3>2. /\ q \in SlotType /\ q.refs = 0 /\ q.atl = {} /\ q.v = FALSE /\ q.cow = u.cow /\ q.pfn = u.pfn
          /\ q.swapped = u.swapped
      BY <2>1, <3>1 DEF SlotType
    <3>3. Cardinality(q.atl) = 0
      BY <3>2, CardOne
    <3>4. Lost(u, q) = {u.pfn}
      BY <3>2, <1>1 DEF Lost
    <3> HIDE DEF q
    <3> QED BY <1>1, <1>6, <2>0, <3>2, <3>3, <3>4
  <2> QED BY <2>2, <2>3
<1> QED BY <1>4, <1>5, <1>6

LEMMA DetachStep ==
  ASSUME Inv, NEW t \in Users, Detach(t)
  PROVE  Core' /\ panic' = panic
<1> DEFINE s == SetOf(t)
           v == ViewOf[t]
           p == Unlisted(slot[s], v, pte[v].m)
           lastCow == p.cow /\ p.refs = 1
           q == Left(s, slot[s], v, pte[v].m)
<1>0. /\ thr[t] \in ThrType /\ s \in Sets /\ slot[s] \in SlotType /\ Types /\ LocksOK /\ ShapeOf(s)
      /\ Pc(t) = "dlock" /\ held[s] = None /\ t # None /\ Alive(t) /\ LockOf(t) /\ WorkOf(t)
      /\ v \in Views /\ v # Cache /\ Of[v] = s /\ SetOf(t)' = s /\ Kind[s] # "FILE"
      /\ pvalid[v] /\ v \in slot[s].atl /\ slot[s].v /\ pte[v].m \in BOOLEAN /\ Leaving(t)
      /\ slot[s].cow => slot[s].atl = {v}
  <2>1. /\ thr[t] \in ThrType /\ s \in Sets /\ slot[s] \in SlotType /\ Types /\ LocksOK /\ ShapeOf(s)
        /\ Pc(t) = "dlock" /\ held[s] = None /\ t # None /\ Alive(t) /\ LockOf(t) /\ WorkOf(t)
        /\ v \in Views /\ v # Cache /\ Of[v] = s /\ Kind[s] # "FILE" /\ Leaving(t)
    BY Statics, RecordTypes DEF Inv, Detach, Alive, LocksOK, WorkOK, ShapeOK, Leaving
  <2>2. pvalid[v] /\ v \in slot[s].atl
    BY <2>1 DEF WorkOf, Inv, ViewsOK, ValidOf
  <2>3. slot[s].v /\ (slot[s].cow => slot[s].atl = {v})
    <3>1. slot[s].v
      BY <2>1, <2>2 DEF ShapeOf
    <3> QED BY <3>1, <2>1, <2>2, OfCow, OfCowList
  <2>4. pte[v].m \in BOOLEAN
    BY <2>1, RecordTypes DEF PteType
  <2> QED BY <2>1, <2>2, <2>3, <2>4 DEF SetOf
<1>m. \A u \in Users : u # t /\ ViewOf[u] = v => Pc(u) = "dead"
  BY <1>0 DEF Inv, ThreadsOK
<1>r. /\ Pend(s) = 0 /\ Owed(s) = 0 /\ Sharing(s) = {} /\ Sharing(s)' = {}
      /\ slot[s].refs = Cardinality(slot[s].atl) /\ IsFiniteSet(slot[s].atl)
  <2>1. Pend(s) = 0
    BY <1>0, HeldWork DEF Pend, Counted, Working
  <2>2. Owed(s) = 0 /\ slot[s].refs = Cardinality(slot[s].atl) + Pend(s)
    BY <1>0, OfLiving
  <2>3. Cardinality(slot[s].atl) \in Nat /\ IsFiniteSet(slot[s].atl)
    BY <1>0, Finite
  <2> QED BY <2>1, <2>2, <2>3, <1>0, NoSharing
<1>1. /\ slot' = [slot EXCEPT ![s] = q]
      /\ free' = free \cup Lost(p, q)
      /\ pte' = [pte EXCEPT ![v] = NoPte]
      /\ pvalid' = [pvalid EXCEPT ![v] = FALSE]
      /\ held' = [held EXCEPT ![s] = IF lastCow THEN t ELSE None]
      /\ thr' = [thr EXCEPT ![t].pc = IF lastCow THEN "clast" ELSE "drop"]
      /\ UNCHANGED <<prefs, gone, panic>>
  <2>1. p = [slot[s] EXCEPT !.atl = @ \ {v}, !.m = @ \/ pte[v].m]
    BY DEF Unlisted
  <2>2. q = IF lastCow THEN [p EXCEPT !.refs = 0] ELSE DerefSlot(s, p)
    BY DEF Left
  <2> QED BY <2>1, <2>2, <1>0, Zenon DEF Detach, OffList, Goes, FreePages
<1>3. /\ q \in SlotType /\ q.cow = slot[s].cow /\ q.pfn = slot[s].pfn /\ q.swapped = slot[s].swapped
      /\ q.refs = Cardinality(q.atl) /\ q.atl \ {Cache} = (slot[s].atl \ {v}) \ {Cache}
      /\ lastCow <=> slot[s].cow
      /\ slot[s].cow => q.v /\ q.refs = 0 /\ q.atl = {}
      /\ ~slot[s].cow /\ q.v => q.refs > 0
      /\ ~q.v => ~slot[s].cow /\ q.refs = 0 /\ q.atl = {} /\ Lost(p, q) = {slot[s].pfn}
      /\ q.v => Lost(p, q) = {}
  <2>1. /\ slot[s] \in SlotType /\ v \in Views /\ pte[v].m \in BOOLEAN /\ s \in Sets /\ slot[s].v
        /\ v \in slot[s].atl /\ IsFiniteSet(slot[s].atl) /\ slot[s].refs = Cardinality(slot[s].atl)
        /\ slot[s].cow => slot[s].atl = {v}
    BY <1>0, <1>r
  <2>2. /\ q \in SlotType /\ q.cow = slot[s].cow /\ q.pfn = slot[s].pfn /\ q.swapped = slot[s].swapped
        /\ q.refs = Cardinality(q.atl) /\ q.atl \ {Cache} = (slot[s].atl \ {v}) \ {Cache}
        /\ (p.cow /\ p.refs = 1) <=> slot[s].cow
        /\ slot[s].cow => q.v /\ q.refs = 0 /\ q.atl = {}
        /\ ~slot[s].cow /\ q.v => q.refs > 0 /\ Lost(p, q) = {}
        /\ ~q.v => ~slot[s].cow /\ q.refs = 0 /\ q.atl = {} /\ Lost(p, q) = {slot[s].pfn}
        /\ q.v => Lost(p, q) = {}
    BY <2>1, SlotLeft
  <2> HIDE DEF q
  <2> QED BY <2>2
<1> HIDE DEF q, p, lastCow
<1>2. /\ thr' \in [Users -> ThrType] /\ \A u \in Users : u # t => thr'[u] = thr[u]
      /\ Pc(t)' = (IF lastCow THEN "clast" ELSE "drop") /\ thr'[t].pg = thr[t].pg /\ thr'[t].was = thr[t].was
  BY <1>0, <1>1 DEF Types, ThrType, Pcs, Pc
<1>4. /\ slot' \in [Sets -> SlotType] /\ slot'[s] = q /\ \A x \in Sets : x # s => slot'[x] = slot[x]
  BY <1>0, <1>1, <1>3 DEF Types
<1>5. /\ pvalid' \in [Views -> BOOLEAN] /\ ~pvalid'[v] /\ \A z \in Views : z # v => pvalid'[z] = pvalid[z]
      /\ pte' \in [Views -> PteType] /\ ~pte'[v].v /\ \A z \in Views : z # v => pte'[z] = pte[z]
  BY <1>0, <1>1 DEF Types, NoPte, PteType
<1>k. /\ Alive(t)' /\ ~Forking(t) /\ ~Forking(t)' /\ ~Linking(t) /\ ~Linking(t)'
      /\ Pc(t) # "linked" /\ Pc(t)' # "linked" /\ Pc(t) \notin Counted /\ Pc(t)' \notin Counted
      /\ Pc(t) # "clast"
      /\ \A u \in Users : Pc(u)' = "none" <=> Pc(u) = "none"
      /\ \A u \in Users : Pc(u)' = "linked" <=> Pc(u) = "linked"
      /\ \A u \in Users : Alive(u)' <=> Alive(u)
      /\ \A u \in Users : NewView(u)' = NewView(u) /\ NewSet(u)' = NewSet(u)
  BY <1>0, <1>2 DEF Pc, Forking, Alive, Linking, NewView, NewSet, Counted
<1>6. Types'
  <2>1. free' \subseteq Frames
    <3>1. Lost(p, q) \subseteq Frames
      BY <1>0, <1>3 DEF ShapeOf
    <3> QED BY <3>1, <1>0, <1>1 DEF Types
  <2>2. held' \in [Sets -> Users \cup {None}]
    BY <1>0, <1>1 DEF Types
  <2> QED BY <2>1, <2>2, <1>0, <1>1, <1>2, <1>4, <1>5 DEF Types
<1>7. LocksOK'
  <2>1. Locked(t) = {} /\ Locked(t)' = IF lastCow THEN {s} ELSE {}
    BY <1>0, <1>2 DEF Locked, Working, Filling
  <2>2. \A x \in Sets : held'[x] = t <=> x \in Locked(t)'
    BY <1>0, <1>1, <2>1 DEF LockOf, Types
  <2>3. LockOf(t)'
    BY <1>0, <1>2, <2>2, Statics DEF LockOf, Filling, WithPage
  <2>4. \A x \in Sets : held'[x] = held[x] \/ (held[x] \in {t, None} /\ held'[x] \in {t, None})
    BY <1>0, <1>1 DEF Types
  <2> QED BY <1>0, <1>2, <2>3, <2>4, LocksFrame
<1>8. ThreadsOK'
  BY <1>0, <1>2, <1>k, ThreadsFrame DEF Inv
<1>9. ShapeOK'
  <2> SUFFICES ASSUME NEW x \in Sets PROVE ShapeOf(x)'
    BY DEF ShapeOK
  <2>1. ShapeOf(x)
    BY DEF Inv, ShapeOK
  <2>2. CASE x = s
    BY <2>2, <1>0, <1>3, <1>4 DEF ShapeOf
  <2>3. CASE x # s
    BY <2>1, <2>3, <1>4 DEF ShapeOf
  <2> QED BY <2>2, <2>3
<1>c. \A x \in Sets : slot'[x].cow = slot[x].cow
  BY <1>3, <1>4
<1>10. MastersOK'
  <2> SUFFICES ASSUME NEW x \in Sets, slot'[x].cow PROVE slot'[Master[x]].v
    BY DEF MastersOK
  <2>1. slot[Master[x]].v /\ Master[x] \in Sets /\ Kind[Master[x]] = "FILE"
    BY <1>c, OfCow
  <2> QED BY <2>1, <1>0, <1>4
<1>11. WorkOK'
  <2>1. ASSUME NEW u \in Users, u # t PROVE WorkOf(u)'
    <3>1. WorkOf(u) /\ SetOf(u) \in Sets /\ ViewOf[u] \in Views /\ SetOf(u) = Of[ViewOf[u]]
      BY Statics DEF Inv, WorkOK
    <3>2. Pc(u) # "dead" => ViewOf[u] # v
      BY <2>1, <1>m
    <3>3. Minds(u) => pvalid'[ViewOf[u]] = pvalid[ViewOf[u]]
      BY <3>1, <3>2, <1>5 DEF Minds, Working
    <3>4. Filling(u) => thr[u].on \in Sets /\ thr[u].on # s
      BY <1>0, HeldWork
    <3>5. Forking(u) => NewSet(u) \in Sets /\ NewSet(u) # s
      BY <1>0, OfLiving, Forks2, ForkStatics DEF Inv
    <3>6. CASE Minds(u) /\ SetOf(u) = s
      <4>1. Pc(u) \in {"dlock", "drop", "flock"}
        BY <3>6, <2>1, <1>0, OthersMind
      <4>2. Pc(u) # "flock"
        <5>1. SUFFICES ASSUME Pc(u) = "flock" PROVE FALSE
          OBVIOUS
        <5>2. Child[u] # None
          BY <5>1, Forks2 DEF Forking, Inv
        <5>3. ViewOf[u] = v
          BY <5>2, <3>6, <1>0, ForkStatics
        <5> QED BY <5>1, <5>3, <3>2
      <4>3. thr'[u] = thr[u] /\ Pc(u)' = Pc(u) /\ SetOf(u)' = SetOf(u)
        BY <2>1, <1>2 DEF Pc, SetOf
      <4> QED BY <3>1, <3>3, <3>6, <4>1, <4>2, <4>3, <1>c DEF WorkOf, Filling, Counted
    <3>7. CASE ~(Minds(u) /\ SetOf(u) = s)
      <4>1. Pc(u) = "clast" => Minds(u)
        BY DEF Minds, Working
      <4>2. Minds(u) => slot'[SetOf(u)] = slot[SetOf(u)]
        BY <3>1, <3>7, <1>4
      <4> QED BY <4>1, <4>2, <3>1, <3>3, <3>4, <3>5, <2>1, <1>2, <1>4, WorkFrame
    <3> QED BY <3>6, <3>7
  <2>2. WorkOf(t)'
    BY <1>0, <1>2, <1>3, <1>4, <1>5 DEF WorkOf, Filling, Counted
  <2> QED BY <2>1, <2>2 DEF WorkOK
<1>12. RefsOK'
  <2> SUFFICES ASSUME NEW x \in Sets PROVE RefsOf(x)'
    BY DEF RefsOK
  <2>1. RefsOf(x) /\ Sharing(x)' = Sharing(x)
    BY <1>c, SharingFrame DEF Inv, RefsOK, CowSets
  <2>2. Pend(x)' = Pend(x) /\ Owed(x)' = Owed(x) /\ (x # s => (Unused(x)' <=> Unused(x)))
    BY <1>0, <1>2, <1>k, CountFrame
  <2>3. CASE x # s
    BY <2>1, <2>2, <2>3, <1>4, RefsFrame
  <2>4. CASE x = s
    <3>1. Cardinality(Sharing(s)') = 0 /\ Pend(s)' = 0 /\ Owed(s)' = 0
      BY <1>0, <1>r, <2>2, <2>4, CardOne
    <3>2. Cardinality(q.atl) \in Nat
      <4>1. slot' \in [Sets -> SlotType]
        BY <1>4
      <4>2. q.atl \subseteq slot[s].atl \cup {Cache}
        BY <1>3
      <4>3. IsFiniteSet(slot[s].atl \cup {Cache})
        BY <1>r, FS_AddElement
      <4>4. IsFiniteSet(q.atl)
        BY <4>2, <4>3, FS_Subset
      <4> QED BY <4>4, FS_CardinalityType
    <3>3. slot[s].cow => Unused(s)'
      BY <1>0, <1>2, <1>3 DEF Unused
    <3>4. q.refs = Cardinality(q.atl) + 0 + 0 - 0 /\ q.refs >= 0
      BY <3>2, <1>3
    <3>5. q.v => q.refs > 0 \/ Unused(s)'
      BY <3>3, <1>3
    <3> QED BY <2>4, <3>1, <3>4, <3>5, <1>4 DEF RefsOf
  <2> QED BY <2>3, <2>4
<1>13. ViewsOK'
  <2>0. ViewsOK
    BY DEF Inv
  <2>1. ASSUME NEW z \in Views PROVE ValidOf(z)'
    <3>1. CASE z = v
      BY <3>1, <1>5 DEF ValidOf
    <3>2. CASE z # v
      <4>1. z \in slot[Of[z]].atl => z \in slot'[Of[z]].atl
        BY <3>2, <1>3, <1>4, Statics
      <4> QED BY <3>2, <4>1, <2>0, <1>5, <1>k DEF ViewsOK, ValidOf
    <3> QED BY <3>1, <3>2
  <2>2. ASSUME NEW x \in Sets PROVE ListOf(x)'
    <3> SUFFICES ASSUME NEW z \in slot'[x].atl \ {Cache}
                 PROVE Of[z] = x /\ (pvalid'[z] \/ \E u \in Users : Pc(u)' = "linked" /\ NewView(u)' = z)
      BY Zenon DEF ListOf
    <3>1. z \in slot[x].atl /\ (x = s => z # v)
      BY <1>3, <1>4
    <3>2. Of[z] = x /\ (pvalid[z] \/ \E u \in Users : Pc(u) = "linked" /\ NewView(u) = z)
      BY <3>1, <2>0 DEF ViewsOK, ListOf
    <3>3. z \in Views /\ z # v
      BY <3>1, <3>2, <1>0, RecordTypes DEF SlotType
    <3> QED BY <3>2, <3>3, <1>5, <1>k
  <2>3. ASSUME NEW u \in Users PROVE LinkedOf(u)'
    <3>1. CASE Pc(u) = "linked"
      <4>1. /\ NewView(u) \in Views /\ NewSet(u) \in Sets /\ NewView(u) # v /\ NewSet(u) # s
        BY <3>1, <1>0, Forks2, ForkStatics, OfLiving DEF Inv, Forking
      <4> QED BY <4>1, <3>1, <2>0, <1>k, <1>4, <1>5 DEF ViewsOK, LinkedOf
    <3> QED BY <3>1, <1>k DEF LinkedOf
  <2>4. ASSUME NEW u \in Users PROVE UnbornOf(u)'
    BY <2>0, <1>k, <1>5, Statics DEF ViewsOK, UnbornOf
  <2> QED BY <2>1, <2>2, <2>3, <2>4 DEF ViewsOK
<1>14. LifeOK'
  <2>1. \A x \in Sets : slot'[x].v => slot[x].v
    BY <1>0, <1>4
  <2> QED BY <1>0, <1>1, <1>2, <1>k, <2>1, LifeFrame DEF Inv
<1>15. FramesOK'
  <2>0. thr[t].pg \notin Frames /\ thr'[t].pg \notin Frames
    BY <1>0, <1>2 DEF LockOf, WithPage
  <2>p. \A u \in Users : thr'[u].pg = thr[u].pg
    BY <1>2
  <2>1. CASE q.v
    <3>1. free' = free
      BY <2>1, <1>1, <1>3
    <3>2. \A x \in Sets : \A g \in Frames : HasFrame(x, g)' <=> HasFrame(x, g)
      BY <2>1, <1>0, <1>3, <1>4 DEF HasFrame
    <3> QED BY <3>1, <3>2, <2>0, <1>2, FramesStay
  <2>2. CASE ~q.v
    <3> DEFINE f == slot[s].pfn
    <3>1. f \in Frames /\ free' = free \cup {f} /\ ~slot[s].cow
      BY <2>2, <1>0, <1>1, <1>3 DEF ShapeOf
    <3>2. HasFrame(s, f) /\ \A g \in Frames : HasFrame(s, g) <=> g = f
      BY <3>1, <1>0 DEF HasFrame
    <3>3. f \notin free /\ (\A u \in Users : thr[u].pg # f) /\ \A x \in Sets : HasFrame(x, f) => x = s
      BY <3>1, <3>2, <1>0 DEF Inv, FramesOK
    <3>4. \A u \in Users : \A g \in Frames : thr'[u].pg = g <=> thr[u].pg = g /\ g # f
      BY <3>3, <2>p
    <3>5. \A y \in Sets : \A g \in Frames : HasFrame(y, g)' <=> HasFrame(y, g) /\ g # f
      <4>1. \A g \in Frames : ~HasFrame(s, g)'
        BY <2>2, <1>4 DEF HasFrame
      <4>2. \A y \in Sets : y # s => \A g \in Frames : HasFrame(y, g)' <=> HasFrame(y, g)
        BY <1>4 DEF HasFrame
      <4> HIDE DEF f
      <4> QED BY <4>1, <4>2, <3>2, <3>3
    <3> QED BY <3>1, <3>3, <3>4, <3>5, FrameFreed
  <2> QED BY <2>1, <2>2
<1> QED BY <1>1, <1>6, <1>7, <1>8, <1>9, <1>10, <1>11, <1>12, <1>13, <1>14, <1>15 DEF Core

-----------------------------------------------------------------------------
(* A set is dropped.                                                     *)

\* The set that a leaving thread drops, and the master that goes with it.
LEMMA Droppable ==
  ASSUME Inv, NEW t \in Users, Pc(t) = "drop"
  PROVE  LET s == SetOf(t)  v == ViewOf[t]  m == Master[s] IN
         /\ v \in AttachedTo(s) /\ prefs[s] = Cardinality(AttachedTo(s))
         /\ prefs[s] = 1 <=> AttachedTo(s) = {v}
         /\ Kind[s] = "COW" => prefs[s] = 1
         /\ \A u \in Users : u # t /\ ViewOf[u] = v => Pc(u) = "dead"
         /\ \A u \in Users : Forking(u) => NewSet(u) # s /\ NewView(u) # v
         /\ prefs[s] = 1 => Freeable(slot[s]) /\ \A u \in Users : u # t /\ SetOf(u) = s => Pc(u) = "dead"
         /\ Kind[s] = "COW" /\ prefs[m] = 1 => LiveSets(m) = {s} /\ Sharing(m) = {} /\ Freeable(slot[m])
<1> DEFINE s == SetOf(t)
           v == ViewOf[t]
           m == Master[s]
<1>0. /\ s \in Sets /\ v \in Views /\ Of[v] = s /\ Kind[s] # "FILE" /\ Alive(t) /\ Leaving(t) /\ Types
      /\ ~pvalid[v] /\ ~slot[s].cow /\ ShapeOf(s)
  BY Statics DEF Inv, Alive, Leaving, WorkOK, WorkOf, ShapeOK
<1>1. \A u \in Users : u # t /\ ViewOf[u] = v => Pc(u) = "dead"
  BY <1>0 DEF Inv, ThreadsOK
<1>2. v \in AttachedTo(s) /\ s \notin gone /\ (Kind[s] = "COW" => s \in LiveSets(m))
  BY <1>0, Lively
<1>3. prefs[s] = Cardinality(AttachedTo(s)) /\ IsFiniteSet(AttachedTo(s))
  BY <1>0, Finite DEF Inv, LifeOK, LifeOf
<1>4. prefs[s] = 1 <=> AttachedTo(s) = {v}
  <2>1. Cardinality({v}) = 1
    BY CardOne
  <2>2. ASSUME prefs[s] = 1 PROVE AttachedTo(s) = {v}
    <3>1. Cardinality(AttachedTo(s) \ {v}) = 0 /\ IsFiniteSet(AttachedTo(s) \ {v})
      BY <2>2, <1>2, <1>3, CardDel
    <3>2. AttachedTo(s) \ {v} = {}
      BY <3>1, FS_EmptySet
    <3> QED BY <3>2, <1>2
  <2> QED BY <2>1, <2>2, <1>3
<1>5. Kind[s] = "COW" => prefs[s] = 1
  <2>1. Kind[s] = "COW" => AttachedTo(s) = {v}
    BY <1>0, <1>2, Statics DEF AttachedTo
  <2> QED BY <2>1, <1>4
<1>6. \A u \in Users : Forking(u) => NewSet(u) # s /\ NewView(u) # v
  BY <1>0, OfLiving
<1>7. ASSUME prefs[s] = 1
      PROVE  Freeable(slot[s]) /\ \A u \in Users : u # t /\ SetOf(u) = s => Pc(u) = "dead"
  <2>1. AttachedTo(s) = {v}
    BY <1>4, <1>7
  <2>2. ASSUME NEW u \in Users, u # t, SetOf(u) = s PROVE Pc(u) = "dead"
    <3>1. Pc(u) # "none"
      BY <2>2, Unborn DEF Inv
    <3>2. Alive(u) => ViewOf[u] = v
      BY <2>1, <2>2, Lively
    <3> QED BY <3>1, <3>2, <2>2, <1>1 DEF Alive
  <2>3. slot[s].atl \subseteq {Cache} /\ Pend(s) = 0 /\ ~\E u \in Users : Pc(u) = "clast" /\ SetOf(u) = s
    <3>1. \A w \in slot[s].atl \ {Cache} : FALSE
      <4> SUFFICES ASSUME NEW w \in slot[s].atl \ {Cache} PROVE FALSE
        OBVIOUS
      <4>1. Of[w] = s /\ pvalid[w] /\ w \in Views
        BY <1>0, OfLiving, RecordTypes DEF SlotType
      <4>2. Attached(w)
        BY <4>1 DEF Inv, ViewsOK, ValidOf, Attached
      <4>3. w = v
        BY <4>1, <4>2, <2>1 DEF AttachedTo
      <4> QED BY <4>1, <4>3, <1>0
    <3>2. Pend(s) = 0
      BY <2>2 DEF Pend, Counted
    <3> QED BY <3>1, <3>2, <2>2
  <2>4. CASE slot[s].v
    <3>1. slot[s].refs = Cardinality(slot[s].atl) + 0 /\ slot[s].refs > 0
      BY <2>3, <2>4, <1>0, OfLiving
    <3>2. slot[s].atl # {}
      <4>1. Cardinality({}) = 0
        BY CardOne
      <4> QED BY <4>1, <3>1
    <3>3. slot[s].atl = {Cache}
      BY <3>2, <2>3
    <3>4. slot[s].refs = 1
      <4>1. Cardinality({Cache}) = 1
        BY CardOne
      <4> QED BY <4>1, <3>1, <3>3
    <3> QED BY <3>3, <3>4, <2>2, <2>4 DEF Freeable
  <2>5. CASE ~slot[s].v
    BY <2>2, <2>5, <1>0 DEF ShapeOf, Freeable
  <2> QED BY <2>4, <2>5
<1>8. ASSUME Kind[s] = "COW", prefs[m] = 1
      PROVE  LiveSets(m) = {s} /\ Sharing(m) = {} /\ Freeable(slot[m])
  <2>1. m \in Sets /\ Kind[m] = "FILE" /\ s \in LiveSets(m) /\ ShapeOf(m)
    BY <1>0, <1>2, <1>8, Statics DEF Inv, ShapeOK
  <2>2. prefs[m] = Cardinality(LiveSets(m)) /\ IsFiniteSet(LiveSets(m))
    BY <1>0, <2>1, Finite DEF Inv, LifeOK, LifeOf
  <2>3. LiveSets(m) = {s}
    <3>1. Cardinality(LiveSets(m) \ {s}) = 0 /\ IsFiniteSet(LiveSets(m) \ {s})
      BY <1>8, <2>1, <2>2, CardDel
    <3>2. LiveSets(m) \ {s} = {}
      BY <3>1, FS_EmptySet
    <3> QED BY <3>2, <2>1
  <2>4. Sharing(m) = {}
    <3> SUFFICES ASSUME NEW x \in Sharing(m) PROVE FALSE
      OBVIOUS
    <3>1. x \in CowSets(m) /\ x \in Sets /\ slot[x].cow
      BY DEF Sharing, CowSets
    <3>2. slot[x].v /\ Kind[x] = "COW"
      BY <3>1, OfCow
    <3>3. x \in LiveSets(m)
      BY <3>1, <3>2 DEF Inv, LifeOK, LifeOf, LiveSets
    <3> QED BY <3>1, <3>3, <2>3, <1>0
  <2>5. Freeable(slot[m])
    <3>1. CASE slot[m].v
      <4>1. slot[m].atl = {Cache} /\ slot[m].refs = 1 + Cardinality(Sharing(m))
        BY <3>1, <2>1, OfFile
      <4>2. Cardinality(Sharing(m)) = 0
        BY <2>4, CardOne
      <4> QED BY <4>1, <4>2, <3>1 DEF Freeable
    <3>2. CASE ~slot[m].v
      BY <3>2, <2>1 DEF ShapeOf, Freeable
    <3> QED BY <3>1, <3>2
  <2> QED BY <2>3, <2>4, <2>5
<1> QED BY <1>1, <1>2, <1>3, <1>4, <1>5, <1>6, <1>7, <1>8

\* The page sets that t frees.
Dying(t) ==
  LET s == SetOf(t)  m == Master[s] IN
  IF prefs[s] # 1 THEN {} ELSE IF Kind[s] = "COW" /\ prefs[m] = 1 THEN {s, m} ELSE {s}

LEMMA DyingSets ==
  ASSUME Inv, NEW t \in Users, Pc(t) = "drop", NEW x \in Dying(t)
  PROVE  /\ x \in Sets /\ ~slot[x].cow /\ Freeable(slot[x]) /\ prefs[SetOf(t)] = 1
         /\ slot[x].atl \subseteq {Cache} /\ Sharing(x) = {}
         /\ x = SetOf(t) \/ (Kind[SetOf(t)] = "COW" /\ x = Master[SetOf(t)])
         /\ \A u \in Users : u # t /\ SetOf(u) = x => Pc(u) = "dead"
         /\ \A u \in Users : Forking(u) => NewSet(u) # x
         /\ \A u \in Users : Filling(u) => thr[u].on # x
         /\ x \notin gone
<1> DEFINE s == SetOf(t)
           m == Master[s]
<1>0. s \in Sets /\ Kind[s] # "FILE" /\ ~slot[s].cow /\ s \notin gone /\ Alive(t)
  BY Statics, Lively DEF Inv, WorkOK, WorkOf, Alive
<1>1. prefs[s] = 1 /\ Freeable(slot[s]) /\ \A u \in Users : u # t /\ SetOf(u) = s => Pc(u) = "dead"
  BY Droppable DEF Dying
<1>f. \A u \in Users : Filling(u) => u # t /\ Pc(u) # "dead" /\ Alive(u) /\ thr[u].on = FillSet(SetOf(u))
  BY HeldWork DEF Filling, Alive
<1>2. CASE x = s
  <2>1. \A u \in Users : Forking(u) => NewSet(u) # s
    BY Droppable
  <2>2. \A u \in Users : Filling(u) => thr[u].on # s
    <3> SUFFICES ASSUME NEW u \in Users, Filling(u), thr[u].on = s PROVE FALSE
      OBVIOUS
    <3>1. FillSet(SetOf(u)) = s
      BY <1>f
    <3>2. SetOf(u) = s
      BY <3>1, <1>0, Statics DEF FillSet
    <3> QED BY <3>2, <1>1, <1>f
  <2>3. Sharing(s) = {}
    BY <1>0, NoSharing
  <2>4. slot[s].atl \subseteq {Cache}
    BY <1>1 DEF Freeable
  <2> QED BY <1>0, <1>1, <1>2, <2>1, <2>2, <2>3, <2>4
<1>3. CASE x # s
  <2>1. Kind[s] = "COW" /\ prefs[m] = 1 /\ x = m
    BY <1>3 DEF Dying
  <2>2. m \in Sets /\ Kind[m] = "FILE"
    BY <2>1, <1>0, Statics
  <2>3. LiveSets(m) = {s} /\ Sharing(m) = {} /\ Freeable(slot[m])
    BY <2>1, Droppable
  <2>4. ~slot[m].cow /\ m \notin gone
    BY <2>2, <2>3 DEF Inv, ShapeOK, ShapeOf, LifeOK, LifeOf
  <2>5. \A u \in Users : SetOf(u) # m /\ (Forking(u) => NewSet(u) # m)
    BY <2>2, OfFile
  <2>6. \A u \in Users : Filling(u) => thr[u].on # m
    <3> SUFFICES ASSUME NEW u \in Users, Filling(u), thr[u].on = m PROVE FALSE
      OBVIOUS
    <3>1. FillSet(SetOf(u)) = m
      BY <1>f
    <3>2. Kind[SetOf(u)] = "COW" /\ Master[SetOf(u)] = m
      BY <3>1, <2>2, Statics DEF FillSet
    <3>3. SetOf(u) \in LiveSets(m)
      BY <3>2, <1>f, Lively
    <3> QED BY <3>3, <2>3, <1>1, <1>f
  <2>7. slot[m].atl \subseteq {Cache}
    BY <2>3 DEF Freeable
  <2> QED BY <1>1, <2>1, <2>2, <2>3, <2>4, <2>5, <2>6, <2>7
<1> QED BY <1>2, <1>3

LEMMA DropSetStep ==
  ASSUME Inv, NEW t \in Users, DropSet(t)
  PROVE  Core' /\ panic' = panic
<1> DEFINE s == SetOf(t)
           v == ViewOf[t]
           m == Master[s]
           D == Dying(t)
           freed == {slot[x].pfn : x \in {y \in D : slot[y].v}}
           less(x) == x = s \/ (prefs[s] = 1 /\ Kind[s] = "COW" /\ x = m)
<1>0. /\ thr[t] \in ThrType /\ s \in Sets /\ slot[s] \in SlotType /\ Types /\ LocksOK /\ ThreadsOK
      /\ Pc(t) = "drop" /\ t # None /\ Alive(t) /\ LockOf(t) /\ WorkOf(t) /\ ~pvalid[v] /\ ~slot[s].cow
      /\ v \in Views /\ v # Cache /\ Of[v] = s /\ Kind[s] # "FILE" /\ s \notin gone
      /\ (Kind[s] = "COW" => m \in Sets /\ Kind[m] = "FILE")
  <2>1. /\ thr[t] \in ThrType /\ s \in Sets /\ slot[s] \in SlotType /\ Types /\ LocksOK /\ ThreadsOK
        /\ Pc(t) = "drop" /\ t # None /\ Alive(t) /\ LockOf(t) /\ WorkOf(t)
        /\ v \in Views /\ v # Cache /\ Of[v] = s /\ Kind[s] # "FILE"
    BY Statics, RecordTypes DEF Inv, DropSet, Alive, LocksOK, WorkOK
  <2>2. ~pvalid[v] /\ ~slot[s].cow /\ s \notin gone
    BY <2>1, Lively DEF WorkOf
  <2> QED BY <2>1, <2>2, Statics
<1>d. /\ v \in AttachedTo(s) /\ prefs[s] = Cardinality(AttachedTo(s))
      /\ prefs[s] = 1 <=> AttachedTo(s) = {v}
      /\ Kind[s] = "COW" => prefs[s] = 1
      /\ \A u \in Users : u # t /\ ViewOf[u] = v => Pc(u) = "dead"
      /\ \A u \in Users : Forking(u) => NewSet(u) # s /\ NewView(u) # v
      /\ prefs[s] = 1 => \A u \in Users : u # t /\ SetOf(u) = s => Pc(u) = "dead"
      /\ Kind[s] = "COW" /\ prefs[m] = 1 => LiveSets(m) = {s}
  BY <1>0, Droppable
<1>e. ASSUME NEW x \in D
      PROVE  /\ x \in Sets /\ ~slot[x].cow /\ Freeable(slot[x]) /\ prefs[s] = 1
             /\ slot[x].atl \subseteq {Cache} /\ Sharing(x) = {} /\ x \notin gone
             /\ less(x) /\ (\A u \in Users : u # t /\ SetOf(u) = x => Pc(u) = "dead")
             /\ \A u \in Users : (Forking(u) => NewSet(u) # x) /\ (Filling(u) => thr[u].on # x)
  BY <1>0, DyingSets
<1>s. (s \in D <=> prefs[s] = 1) /\ (Kind[s] = "COW" => (m \in D <=> prefs[m] = 1))
  BY <1>0, <1>d DEF Dying
<1>1. /\ prefs' = [x \in Sets |-> IF less(x) THEN prefs[x] - 1 ELSE prefs[x]]
      /\ gone' = gone \cup D
      /\ free' = free \cup freed
      /\ slot' = [x \in Sets |-> IF x \in D THEN EmptySlot ELSE slot[x]]
      /\ thr' = [thr EXCEPT ![t].pc = "dead"]
      /\ UNCHANGED <<held, pvalid, pte, panic>>
  <2>1. ~\E x \in D : ~Freeable(slot[x])
    BY <1>e
  <2>2. D = IF ~(prefs[s] = 1) THEN {} ELSE IF Kind[s] = "COW" /\ prefs[m] = 1 THEN {s, m} ELSE {s}
    BY DEF Dying
  <2> HIDE DEF D
  <2> QED BY <2>1, <2>2, Zenon DEF DropSet, Goes, FreePages, mapVars
<1> HIDE DEF D
<1>2. /\ thr' \in [Users -> ThrType] /\ \A u \in Users : u # t => thr'[u] = thr[u]
      /\ Pc(t)' = "dead" /\ thr'[t].pg = thr[t].pg /\ thr'[t].was = thr[t].was
  BY <1>0, <1>1 DEF Types, ThrType, Pcs, Pc
<1>4. /\ \A x \in D : slot'[x] = EmptySlot
      /\ \A x \in Sets : x \notin D => slot'[x] = slot[x]
  BY <1>1, <1>e
<1>5. \A x \in D : /\ slot'[x].v = FALSE /\ slot'[x].cow = FALSE /\ slot'[x].swapped = FALSE
                   /\ slot'[x].refs = 0 /\ slot'[x].atl = {}
  BY <1>4 DEF EmptySlot
<1>c. \A x \in Sets : /\ slot'[x].cow = slot[x].cow
                      /\ slot'[x].v => slot[x].v
                      /\ slot'[x].atl \ {Cache} = slot[x].atl \ {Cache}
  <2> SUFFICES ASSUME NEW x \in Sets PROVE slot'[x].cow = slot[x].cow /\ (slot'[x].v => slot[x].v)
                                           /\ slot'[x].atl \ {Cache} = slot[x].atl \ {Cache}
    OBVIOUS
  <2>1. CASE x \in D
    <3>1. slot[x].cow = FALSE
      BY <2>1, <1>e, <1>0, RecordTypes DEF SlotType
    <3> QED BY <3>1, <2>1, <1>5, <1>e
  <2>2. CASE x \notin D
    BY <2>2, <1>4
  <2> QED BY <2>1, <2>2
<1>k. /\ \A u \in Users : u # t => /\ Pc(u)' = Pc(u) /\ (Forking(u)' <=> Forking(u))
                                   /\ (Leaving(u)' <=> Leaving(u)) /\ (Alive(u)' <=> Alive(u))
                                   /\ (Linking(u)' <=> Linking(u))
      /\ ~Alive(t)' /\ ~Forking(t) /\ ~Forking(t)' /\ ~Linking(t) /\ ~Linking(t)' /\ ~Leaving(t)'
      /\ Pc(t) # "linked" /\ Pc(t)' # "linked" /\ Pc(t) \notin Counted /\ Pc(t)' \notin Counted
      /\ Pc(t) # "clast" /\ Pc(t)' # "clast" /\ Pc(t) # "none" /\ Pc(t)' # "none" /\ Pc(t) # "dead"
      /\ \A u \in Users : NewView(u)' = NewView(u) /\ NewSet(u)' = NewSet(u) /\ SetOf(u)' = SetOf(u)
  BY <1>0, <1>2 DEF Pc, Forking, Leaving, Alive, Linking, NewView, NewSet, SetOf, Counted
<1>l. /\ \A u \in Users : Pc(u)' = "none" <=> Pc(u) = "none"
      /\ \A u \in Users : Pc(u)' = "linked" <=> Pc(u) = "linked"
      /\ \A u \in Users : Forking(u)' <=> Forking(u)
      /\ \A u \in Users : Linking(u)' <=> Linking(u)
  BY <1>k
<1>f. /\ freed \subseteq Frames
      /\ \A g \in freed : \E x \in D : HasFrame(x, g)
      /\ \A x \in D : \A g \in Frames : HasFrame(x, g) => g \in freed
  <2>1. \A x \in D : slot[x].v => slot[x].pfn \in Frames /\ HasFrame(x, slot[x].pfn)
    BY <1>e DEF Inv, ShapeOK, ShapeOf, HasFrame
  <2> QED BY <2>1 DEF HasFrame
<1> HIDE DEF freed
<1>6. Types'
  <2>1. slot' \in [Sets -> SlotType]
    <3>1. EmptySlot \in SlotType
      BY DEF EmptySlot, SlotType
    <3> QED BY <3>1, <1>0, <1>1, RecordTypes
  <2>2. prefs' \in [Sets -> Int]
    <3> HIDE DEF less
    <3>1. \A x \in Sets : (IF less(x) THEN prefs[x] - 1 ELSE prefs[x]) \in Int
      BY <1>0 DEF Types
    <3> QED BY <3>1, <1>1
  <2>3. gone' \subseteq Sets
    BY <1>0, <1>1, <1>e DEF Types
  <2>4. free' \subseteq Frames
    BY <1>0, <1>1, <1>f DEF Types
  <2> QED BY <2>1, <2>2, <2>3, <2>4, <1>0, <1>1, <1>2 DEF Types
<1>7. LocksOK'
  <2>1. Locked(t) = {} /\ Locked(t)' = {}
    BY <1>0, <1>2 DEF Locked, Working, Filling
  <2>2. LockOf(t)'
    BY <1>0, <1>1, <1>2, <2>1 DEF LockOf, Filling, WithPage
  <2> QED BY <1>0, <1>1, <1>2, <2>2, LocksFrame
<1>8. ThreadsOK'
  <2>1. \A u \in Users : Forking(u)' => Child[u] \in Users /\ Pc(Child[u])' = "none"
    BY <1>0, <1>l DEF ThreadsOK
  <2>2. \A u \in Users : Pc(u)' = "none" => u \notin Born
    BY <1>0, <1>l DEF ThreadsOK
  <2>3. ASSUME NEW u \in Users, NEW w \in Users, Leaving(u)', ViewOf[w] = ViewOf[u], w # u
        PROVE  Pc(w)' = "dead"
    <3>1. u # t /\ Leaving(u)
      BY <2>3, <1>k
    <3>2. Pc(w) = "dead"
      BY <3>1, <2>3, <1>0 DEF ThreadsOK
    <3> QED BY <3>2, <1>k
  <2> QED BY <2>1, <2>2, <2>3 DEF ThreadsOK, Born
<1>9. ShapeOK'
  <2> SUFFICES ASSUME NEW x \in Sets PROVE ShapeOf(x)'
    BY DEF ShapeOK
  <2>1. ShapeOf(x)
    BY DEF Inv, ShapeOK
  <2>2. CASE x \in D
    BY <2>2, <1>5 DEF ShapeOf
  <2>3. CASE x \notin D
    BY <2>1, <2>3, <1>4 DEF ShapeOf
  <2> QED BY <2>2, <2>3
<1>10. MastersOK'
  <2> SUFFICES ASSUME NEW x \in Sets, slot'[x].cow PROVE slot'[Master[x]].v
    BY DEF MastersOK
  <2>1. slot[Master[x]].v /\ Master[x] \in Sets /\ x \in Sharing(Master[x])
    BY <1>c, OfCow
  <2>2. Master[x] \notin D
    BY <2>1, <1>e
  <2> QED BY <2>1, <2>2, <1>4
<1>11. WorkOK'
  <2>1. ASSUME NEW u \in Users, u # t PROVE WorkOf(u)'
    <3>1. WorkOf(u) /\ SetOf(u) \in Sets
      BY Statics DEF Inv, WorkOK
    <3>2. Minds(u) => SetOf(u) \notin D
      BY <2>1, <1>e DEF Minds, Working
    <3>3. Filling(u) => thr[u].on \in Sets /\ thr[u].on \notin D
      BY <1>e, HeldWork
    <3>4. Forking(u) => NewSet(u) \in Sets /\ NewSet(u) \notin D
      BY <1>0, <1>e, Forks2, ForkStatics
    <3>5. Pc(u) = "clast" => Minds(u)
      BY DEF Minds, Working
    <3> QED BY <1>1, <1>2, <1>4, <2>1, <3>1, <3>2, <3>3, <3>4, <3>5, WorkFrame
  <2>2. WorkOf(t)'
    BY <1>0, <1>2, <1>k DEF WorkOf, Filling, Counted
  <2> QED BY <2>1, <2>2 DEF WorkOK
<1>12. RefsOK'
  <2> SUFFICES ASSUME NEW x \in Sets PROVE RefsOf(x)'
    BY DEF RefsOK
  <2>1. RefsOf(x) /\ Sharing(x)' = Sharing(x)
    BY <1>c, SharingFrame DEF Inv, RefsOK, CowSets
  <2>2. Pend(x)' = Pend(x) /\ Owed(x)' = Owed(x) /\ (Unused(x)' <=> Unused(x))
    BY <1>0, <1>2, <1>k, CountFrame
  <2>3. CASE x \in D
    BY <2>3, <1>5 DEF RefsOf
  <2>4. CASE x \notin D
    BY <2>1, <2>2, <2>4, <1>4, RefsFrame
  <2> QED BY <2>3, <2>4
<1>13. ViewsOK'
  <2>0. ViewsOK
    BY DEF Inv
  <2>1. ASSUME NEW z \in Views PROVE ValidOf(z)'
    <3> SUFFICES ASSUME pvalid[z] PROVE z \in slot'[Of[z]].atl /\ \E u \in Users : ViewOf[u] = z /\ Alive(u)'
      BY <1>1 DEF ValidOf
    <3>1. z # v /\ z \in slot[Of[z]].atl /\ Of[z] \in Sets /\ z # Cache
      BY <1>0, <2>0, Statics DEF ViewsOK, ValidOf
    <3>2. PICK u \in Users : ViewOf[u] = z /\ Alive(u)
      BY <2>0 DEF ViewsOK, ValidOf
    <3>3. u # t
      BY <3>1, <3>2
    <3> QED BY <3>1, <3>2, <3>3, <1>c, <1>k
  <2>2. ASSUME NEW x \in Sets PROVE ListOf(x)'
    BY <2>0, <1>1, <1>c, <1>l, <1>k DEF ViewsOK, ListOf
  <2>3. ASSUME NEW u \in Users PROVE LinkedOf(u)'
    <3>1. CASE Pc(u) = "linked"
      <4>1. NewSet(u) \in Sets /\ NewSet(u) \notin D
        BY <3>1, <1>0, <1>e, Forks2, ForkStatics DEF Forking
      <4> QED BY <4>1, <3>1, <2>0, <1>k, <1>1, <1>4 DEF ViewsOK, LinkedOf
    <3> QED BY <3>1, <1>l DEF LinkedOf
  <2>4. ASSUME NEW u \in Users PROVE UnbornOf(u)'
    BY <2>0, <1>l, <1>1 DEF ViewsOK, UnbornOf
  <2> QED BY <2>1, <2>2, <2>3, <2>4 DEF ViewsOK
<1>14. LifeOK'
  <2>0. LifeOK
    BY DEF Inv
  <2>1. \A z \in Views : Attached(z)' <=> Attached(z) /\ z # v
    <3>1. ~Attached(v)'
      <4>1. \A u \in Users : ViewOf[u] = v => ~Alive(u)'
        BY <1>d, <1>k DEF Alive
      <4>2. \A u \in Users : Linking(u)' => NewView(u)' # v
        BY <1>d, <1>l, <1>k DEF Linking, Forking
      <4> QED BY <4>1, <4>2 DEF Attached
    <3>2. ASSUME NEW z \in Views, z # v PROVE Attached(z)' <=> Attached(z)
      BY <3>2, <1>k, <1>l DEF Attached
    <3> QED BY <3>1, <3>2
  <2>2. /\ AttachedTo(s)' = AttachedTo(s) \ {v}
        /\ \A x \in Sets : x # s => AttachedTo(x)' = AttachedTo(x)
    BY <2>1, <1>0 DEF AttachedTo
  <2>3. /\ Live(s)' <=> prefs[s] # 1
        /\ \A x \in Sets : x # s => (Live(x)' <=> Live(x))
    <3>1. Live(s)' <=> AttachedTo(s) \ {v} # {}
      BY <2>2, <1>d, <1>l, <1>k DEF Live
    <3>2. AttachedTo(s) \ {v} # {} <=> AttachedTo(s) # {v}
      BY <1>d
    <3>3. \A x \in Sets : x # s => (Live(x)' <=> Live(x))
      BY <2>2, <1>l, <1>k DEF Live
    <3> QED BY <3>1, <3>2, <3>3, <1>d
  <2>4. /\ \A x \in Sets : x # m \/ Kind[s] # "COW" => LiveSets(x)' = LiveSets(x)
        /\ Kind[s] = "COW" => LiveSets(m)' = LiveSets(m) \ {s} /\ s \in LiveSets(m)
    <3>1. Kind[s] = "COW" => s \in LiveSets(m)
      BY <1>0, Lively
    <3>2. Kind[s] = "COW" => ~Live(s)'
      BY <2>3, <1>d
    <3> QED BY <3>1, <3>2, <2>3, <1>0 DEF LiveSets, CowSets
  <2>5. LifeOf(s)'
    <3>1. prefs'[s] = Cardinality(AttachedTo(s)')
      <4>1. IsFiniteSet(AttachedTo(s))
        BY <1>0, Finite
      <4>2. Cardinality(AttachedTo(s) \ {v}) = Cardinality(AttachedTo(s)) - 1
        BY <4>1, <1>d, CardDel
      <4> QED BY <4>2, <2>2, <1>0, <1>1, <1>d
    <3>2. slot'[s].v => Live(s)'
      BY <2>3, <1>s, <1>5
    <3>3. s \in gone' => /\ ~slot'[s].v /\ ~Live(s)'
                         /\ \A u \in Users : SetOf(u)' = s => Pc(u)' # "none"
      <4>1. s \in gone' => s \in D /\ prefs[s] = 1
        BY <1>0, <1>1, <1>s
      <4>2. prefs[s] = 1 => \A u \in Users : SetOf(u)' = s => Pc(u)' # "none"
        <5>1. prefs[s] = 1 => \A u \in Users : u # t /\ SetOf(u) = s => Pc(u) = "dead"
          BY <1>d
        <5> QED BY <5>1, <1>k
      <4> QED BY <4>1, <4>2, <2>3, <1>5
    <3> QED BY <3>1, <3>2, <3>3, <1>0 DEF LifeOf
  <2>6. ASSUME Kind[s] = "COW" PROVE LifeOf(m)'
    <3>1. m \in Sets /\ Kind[m] = "FILE" /\ prefs[m] = Cardinality(LiveSets(m)) /\ m \notin gone
      BY <1>0, <2>0, <2>4, <2>6 DEF LifeOK, LifeOf
    <3>2. prefs'[m] = prefs[m] - 1
      BY <3>1, <2>6, <1>1, <1>d
    <3>3. prefs'[m] = Cardinality(LiveSets(m)')
      <4>1. IsFiniteSet(LiveSets(m))
        BY <3>1, <1>0, Finite
      <4>2. Cardinality(LiveSets(m) \ {s}) = Cardinality(LiveSets(m)) - 1
        BY <4>1, <2>4, <2>6, CardDel
      <4> QED BY <4>2, <2>4, <2>6, <3>1, <3>2
    <3>4. m \in gone' => ~slot'[m].v /\ LiveSets(m)' = {}
      <4>1. m \in gone' => m \in D /\ prefs[m] = 1
        BY <3>1, <2>6, <1>1, <1>s
      <4>2. prefs[m] = 1 => LiveSets(m) = {s}
        BY <2>6, <1>d
      <4> QED BY <4>1, <4>2, <2>4, <2>6, <1>5
    <3> QED BY <3>1, <3>3, <3>4 DEF LifeOf
  <2>7. ASSUME NEW x \in Sets, x # s, x # m \/ Kind[s] # "COW" PROVE LifeOf(x)'
    <3>1. ~less(x) /\ x \notin D
      BY <2>7, <1>e
    <3>2. /\ prefs'[x] = prefs[x] /\ slot'[x] = slot[x] /\ (x \in gone' <=> x \in gone)
      BY <3>1, <1>1, <1>4
    <3>3. AttachedTo(x)' = AttachedTo(x) /\ (Live(x)' <=> Live(x)) /\ LiveSets(x)' = LiveSets(x)
      BY <2>2, <2>3, <2>4, <2>7
    <3> QED BY <3>2, <3>3, <2>0, <1>l, <1>k DEF LifeOK, LifeOf
  <2> QED BY <2>5, <2>6, <2>7 DEF LifeOK
<1>15. FramesOK'
  <2>0. FramesOK /\ free \subseteq Frames
    BY <1>0 DEF Inv, Types
  <2>p. \A u \in Users : thr'[u].pg = thr[u].pg
    BY <1>2
  <2>1. \A x \in Sets : \A g \in Frames : HasFrame(x, g)' <=> HasFrame(x, g) /\ x \notin D
    <3>1. \A x \in D : \A g \in Frames : ~HasFrame(x, g)'
      BY <1>5 DEF HasFrame
    <3>2. \A x \in Sets : x \notin D => \A g \in Frames : HasFrame(x, g)' <=> HasFrame(x, g)
      BY <1>4 DEF HasFrame
    <3> QED BY <3>1, <3>2
  <2>2. \A g \in Frames : \/ g \in free'
                          \/ \E x \in Sets : HasFrame(x, g)'
                          \/ \E u \in Users : thr'[u].pg = g
    <3> SUFFICES ASSUME NEW g \in Frames, ~\E u \in Users : thr[u].pg = g, g \notin free
                 PROVE  g \in free' \/ \E x \in Sets : HasFrame(x, g)'
      BY <2>p, <1>1
    <3>1. PICK x \in Sets : HasFrame(x, g)
      BY <2>0 DEF FramesOK
    <3> QED BY <3>1, <2>1, <1>1, <1>f
  <2>3. \A g \in free' : (\A x \in Sets : ~HasFrame(x, g)') /\ \A u \in Users : thr'[u].pg # g
    <3>1. ASSUME NEW g \in free
          PROVE  (\A x \in Sets : ~HasFrame(x, g)') /\ \A u \in Users : thr'[u].pg # g
      BY <2>0, <2>1, <2>p DEF FramesOK
    <3>2. ASSUME NEW g \in freed
          PROVE  (\A x \in Sets : ~HasFrame(x, g)') /\ \A u \in Users : thr'[u].pg # g
      <4>1. PICK y \in D : HasFrame(y, g)
        BY <1>f
      <4>2. y \in Sets /\ g \in Frames
        BY <1>e, <1>f
      <4>3. \A x \in Sets : HasFrame(x, g) => x = y
        BY <4>1, <4>2, <2>0 DEF FramesOK
      <4>4. \A u \in Users : thr[u].pg # g
        BY <4>1, <4>2, <2>0 DEF FramesOK
      <4> QED BY <4>2, <4>3, <4>4, <2>1, <2>p
    <3> QED BY <3>1, <3>2, <1>1
  <2>4. \A g \in Frames, x \in Sets : HasFrame(x, g)' => \A u \in Users : thr'[u].pg # g
    BY <2>0, <2>1, <2>p DEF FramesOK
  <2>5. \A g \in Frames, x, y \in Sets : HasFrame(x, g)' /\ HasFrame(y, g)' => x = y
    BY <2>0, <2>1 DEF FramesOK
  <2>6. \A g \in Frames, u, w \in Users : thr'[u].pg = g /\ thr'[w].pg = g => u = w
    BY <2>0, <2>p DEF FramesOK
  <2> QED BY <2>2, <2>3, <2>4, <2>5, <2>6 DEF FramesOK
<1> QED BY <1>1, <1>6, <1>7, <1>8, <1>9, <1>10, <1>11, <1>12, <1>13, <1>14, <1>15 DEF Core

-----------------------------------------------------------------------------
(* What frames and swap blocks contain keeps its type.                   *)

\* What pages and swap blocks may contain.
LEMMA ContentsOf ==
  /\ "zero" \in Contents /\ "file" \in Contents /\ "junk" \in Contents /\ Sets \subseteq Contents
  /\ \A t \in Users, c \in Contents : Child[t] # None => Copied(t, c) \in Contents
<1>1. \A t \in Users : Child[t] # None => NewSet(t) \in Sets
  BY ForkStatics
<1> QED BY <1>1 DEF Contents, Copied

\* Pages are given back: their contents are lost.
LEMMA FreedData ==
  ASSUME mem \in [Frames -> Contents], NEW fs, FreePages(fs)
  PROVE  mem' \in [Frames -> Contents]
<1>1. mem' = [f \in Frames |-> IF f \in fs THEN "junk" ELSE mem[f]]
  BY Zenon DEF FreePages
<1> QED BY <1>1, ContentsOf

\* The steps of a thread that touch no page, or only give pages back.
LEMMA PlainData ==
  ASSUME Inv, NEW t \in Users,
         \/ (\E w \in BOOLEAN : Fault(t, w)) \/ LockSlot(t) \/ LockMaster(t) \/ AllocPage(t)
         \/ PageInFails(t) \/ Map(t) \/ Exit(t) \/ CowLast(t)
         \/ AttachView(t) \/ LinkSlot(t) \/ ForkEnds(t)
  PROVE  Data' /\ HandRests' /\ panic' = panic
<1>0. Data /\ HandRests
  BY DEF Inv
<1>1. CASE (\E w \in BOOLEAN : Fault(t, w)) \/ LockSlot(t) \/ LockMaster(t) \/ AllocPage(t)
           \/ Exit(t) \/ AttachView(t) \/ LinkSlot(t) \/ ForkEnds(t)
  <2>1. UNCHANGED <<latest, mem, swap, hand, qio, missed, panic>>
    BY <1>1, Zenon DEF Fault, LockSlot, LockMaster, AllocPage, Exit, AttachView, LinkSlot, ForkEnds,
                       dataVars, devVars
  <2> QED BY <1>0, <2>1 DEF Data, HandRests
<1>2. CASE PageInFails(t) \/ Map(t) \/ CowLast(t)
  <2>1. UNCHANGED <<latest, swap, hand, qio, missed, panic>>
    BY <1>2, Zenon DEF PageInFails, Map, CowLast, devVars
  <2>2. mem' \in [Frames -> Contents]
    <3>1. (\E fs : FreePages(fs)) \/ mem' = mem
      BY <1>2, Zenon DEF PageInFails, Map, CowLast
    <3> QED BY <3>1, <1>0, FreedData DEF Data
  <2> QED BY <1>0, <2>1, <2>2 DEF Data, HandRests
<1> QED BY <1>1, <1>2

\* The steps that store in a page, or read it in.
LEMMA FillData ==
  ASSUME Inv, NEW t \in Users, Store(t) \/ SetCore(t) \/ PageIn(t)
  PROVE  Data' /\ HandRests' /\ panic' = panic
<1>0. Data /\ HandRests
  BY DEF Inv
<1>1. CASE Store(t)
  <2> DEFINE s == SetOf(t)
             Aged(c) == IF c = s THEN "junk" ELSE c
  <2>1. /\ mem' = [f \in Frames |-> IF f = pte[ViewOf[t]].pfn THEN s ELSE Aged(mem[f])]
        /\ swap' = [x \in Sets |-> Aged(swap[x])]
        /\ latest' = [latest EXCEPT ![s] = s]
        /\ UNCHANGED <<hand, qio, missed, panic>>
    BY <1>1, Zenon DEF Store, devVars
  <2>2. s \in Contents /\ \A c \in Contents : Aged(c) \in Contents
    BY ContentsOf, Statics
  <2> HIDE DEF s, Aged
  <2>3. mem' \in [Frames -> Contents] /\ swap' \in [Sets -> Contents] /\ latest' \in [Sets -> Contents]
    BY <1>0, <2>1, <2>2 DEF Data
  <2> QED BY <1>0, <2>1, <2>3 DEF Data, HandRests
<1>2. CASE SetCore(t)
  <2>1. UNCHANGED <<latest, swap, hand, qio, missed, panic>> /\ (mem' = mem \/ mem' = [mem EXCEPT ![thr[t].pg] = "zero"])
    BY <1>2, Zenon DEF SetCore, devVars
  <2>2. mem' \in [Frames -> Contents]
    BY <1>0, <2>1, ContentsOf DEF Data
  <2> QED BY <1>0, <2>1, <2>2 DEF Data, HandRests
<1>3. CASE PageIn(t)
  <2> DEFINE x == thr[t].on
             c == IF Kind[x] = "FILE" THEN "file" ELSE swap[x]
  <2>1. /\ UNCHANGED <<latest, swap, hand, qio, missed, panic>> /\ Pc(t) = "read"
        /\ mem' = [mem EXCEPT ![thr[t].pg] = c]
    BY <1>3, Zenon DEF PageIn, devVars
  <2>2. c \in Contents
    <3>1. x \in Sets
      BY <2>1, HeldWork DEF Filling
    <3> QED BY <3>1, <1>0, ContentsOf DEF Data
  <2> HIDE DEF c
  <2>3. mem' \in [Frames -> Contents]
    BY <1>0, <2>1, <2>2 DEF Data
  <2> QED BY <1>0, <2>1, <2>3 DEF Data, HandRests
<1> QED BY <1>1, <1>2, <1>3

\* The steps with an ASSERT: it holds.
LEMMA AssertData ==
  ASSUME Inv, NEW t \in Users, panic' = panic,
         BreakCow(t) \/ CowWrite(t) \/ Detach(t) \/ DropSet(t)
  PROVE  Data' /\ HandRests'
<1>0. Data /\ HandRests /\ ~Panics
  BY DEF Inv, Panics
<1>1. CASE BreakCow(t)
  <2>1. UNCHANGED <<latest, mem, swap, hand, qio, missed>>
    BY <1>0, <1>1, Zenon DEF BreakCow, dataVars, devVars
  <2> QED BY <1>0, <2>1 DEF Data, HandRests
<1>2. CASE CowWrite(t)
  <2> DEFINE s == SetOf(t)
             m == Master[s]
             gone0 == Lost(slot[m], DerefSlot(m, slot[m]))
             c == mem[slot[m].pfn]
  <2>1. /\ UNCHANGED <<latest, swap, hand, qio, missed>> /\ Pc(t) = "ccore"
        /\ mem' = [g \in Frames |-> IF g = thr[t].pg THEN c
                                    ELSE IF g \in gone0 THEN "junk" ELSE mem[g]]
    BY <1>0, <1>2, Zenon DEF CowWrite, devVars
  <2>2. c \in Contents
    <3>1. slot[s].cow /\ s \in Sets
      BY <2>1, Statics DEF Inv, WorkOK, WorkOf
    <3>2. m \in Sets /\ slot[m].v
      BY <3>1, OfCow
    <3>3. slot[m].pfn \in Frames
      BY <3>2 DEF Inv, ShapeOK, ShapeOf
    <3> QED BY <3>3, <1>0 DEF Data
  <2> HIDE DEF c, gone0
  <2>3. mem' \in [Frames -> Contents]
    BY <1>0, <2>1, <2>2, ContentsOf DEF Data
  <2> QED BY <1>0, <2>1, <2>3 DEF Data, HandRests
<1>3. CASE Detach(t)
  <2>1. UNCHANGED <<latest, swap, hand, qio, missed>> /\ \E fs : FreePages(fs)
    BY <1>0, <1>3, Zenon DEF Detach, devVars
  <2>2. mem' \in [Frames -> Contents]
    BY <2>1, <1>0, FreedData DEF Data
  <2> QED BY <1>0, <2>1, <2>2 DEF Data, HandRests
<1>4. CASE DropSet(t)
  <2>1. UNCHANGED <<latest, hand, qio, missed>> /\ (\E fs : FreePages(fs))
        /\ \E dead : swap' = [x \in Sets |-> IF x \in dead THEN "junk" ELSE swap[x]]
    <3> DEFINE s == SetOf(t)
               m == Master[s]
               D == IF ~(prefs[s] = 1) THEN {} ELSE IF Kind[s] = "COW" /\ prefs[m] = 1 THEN {s, m} ELSE {s}
    <3>1. UNCHANGED <<latest, hand, qio, missed>> /\ (\E fs : FreePages(fs))
          /\ swap' = [x \in Sets |-> IF x \in D THEN "junk" ELSE swap[x]]
      BY <1>0, <1>4, Zenon DEF DropSet, devVars
    <3> HIDE DEF D
    <3> QED BY <3>1
  <2>2. mem' \in [Frames -> Contents]
    BY <2>1, <1>0, FreedData DEF Data
  <2>3. swap' \in [Sets -> Contents]
    BY <2>1, <1>0, ContentsOf DEF Data
  <2> QED BY <1>0, <2>1, <2>2, <2>3 DEF Data, HandRests
<1> QED BY <1>1, <1>2, <1>3, <1>4

\* The steps of fork() that copy what a program sees.
LEMMA ForkData ==
  ASSUME Inv, NEW t \in Users, Fork(t) \/ DupSlot(t) \/ (CopyPage(t) /\ panic' = panic)
  PROVE  Data' /\ HandRests' /\ panic' = panic
<1> DEFINE s == SetOf(t)
           n == NewSet(t)
           c == Copied(t, latest[s])
<1>0. Data /\ HandRests /\ s \in Sets /\ ThreadsOK /\ panic = FALSE
  BY Statics DEF Inv
<1>1. Child[t] # None /\ n \in Sets
  <2>1. Forking(t) \/ Child[t] # None
    BY DEF Fork, DupSlot, CopyPage, Forking
  <2> QED BY <2>1, <1>0, Forks2, ForkStatics
<1>c. c \in Contents
  BY <1>0, <1>1, ContentsOf DEF Data
<1>2. ASSUME latest' = latest \/ latest' = [latest EXCEPT ![n] = c]
      PROVE  latest' \in [Sets -> Contents]
  <2> HIDE DEF c
  <2> QED BY <1>0, <1>c, <1>2 DEF Data
<1>3. CASE Fork(t) \/ DupSlot(t)
  <2>1. UNCHANGED <<mem, swap, hand, qio, missed, panic>> /\ (latest' = latest \/ latest' = [latest EXCEPT ![n] = c])
    BY <1>3, Zenon DEF Fork, DupSlot, dataVars, devVars
  <2> QED BY <1>0, <1>2, <2>1 DEF Data, HandRests
<1>4. CASE CopyPage(t) /\ panic' = panic
  <2>1. slot[s].v /\ slot[s].pfn \in Frames
    <3>1. slot[s].v
      BY <1>4 DEF CopyPage, Inv, WorkOK, WorkOf
    <3> QED BY <3>1, <1>0 DEF Inv, ShapeOK, ShapeOf
  <2> DEFINE d == Copied(t, mem[slot[s].pfn])
  <2>2. /\ UNCHANGED <<swap, hand, qio, missed>> /\ latest' = [latest EXCEPT ![n] = c]
        /\ mem' = [mem EXCEPT ![thr[t].pg] = d]
    BY <1>4, <2>1, Zenon DEF CopyPage, devVars
  <2>3. d \in Contents
    BY <1>0, <1>1, <2>1, ContentsOf DEF Data
  <2> HIDE DEF d
  <2>4. mem' \in [Frames -> Contents]
    BY <1>0, <2>2, <2>3 DEF Data
  <2> QED BY <1>0, <1>2, <1>4, <2>2, <2>4 DEF Data, HandRests
<1> QED BY <1>3, <1>4

-----------------------------------------------------------------------------
(* The invariant.                                                        *)

LEMMA InvInit ==
  ASSUME PagesInit PROVE Inv
<1>0. /\ thr = [u \in Users |-> At(IF u \in Born THEN "user" ELSE "none")]
      /\ slot = [s \in Sets |-> EmptySlot] /\ held = [s \in Sets |-> None]
      /\ prefs = [s \in Sets |-> IF Kind[s] = "FILE" THEN Cardinality(CowSets(s) \cap FirstSets)
                                 ELSE Cardinality({v \in {ViewOf[u] : u \in Born} : Of[v] = s})]
      /\ gone = {} /\ pvalid = [v \in Views |-> FALSE] /\ pte = [v \in Views |-> NoPte]
      /\ free = Frames /\ hand = Scanning /\ qio = << >> /\ panic = FALSE
      /\ mem = [f \in Frames |-> "junk"] /\ swap = [s \in Sets |-> "junk"]
      /\ latest = [s \in Sets |-> Fresh(s)]
  BY Zenon DEF PagesInit
<1>1. \A t \in Users : /\ thr[t] \in ThrType /\ thr[t].pg = None /\ thr[t].was = FALSE
                       /\ Pc(t) \in {"user", "none"} /\ (Pc(t) = "user" <=> t \in Born)
  BY <1>0 DEF At, ThrType, Pcs, Pc
<1>2. \A s \in Sets : /\ slot[s] \in SlotType /\ slot[s].v = FALSE /\ slot[s].cow = FALSE
                      /\ slot[s].swapped = FALSE /\ slot[s].refs = 0 /\ slot[s].atl = {}
  BY <1>0 DEF EmptySlot, SlotType
<1>3. \A t \in Users : /\ ~Forking(t) /\ ~Linking(t) /\ ~Leaving(t) /\ ~Filling(t) /\ Pc(t) \notin Counted
                       /\ Locked(t) = {} /\ Pc(t) \notin WithPage /\ (Alive(t) <=> t \in Born)
                       /\ Pc(t) # "linked" /\ Pc(t) # "clast" /\ Pc(t) # "master"
  BY <1>1 DEF Forking, Linking, Leaving, Filling, Counted, Locked, Working, WithPage, Alive
<1>4. \A s \in Sets : AttachedTo(s) = {v \in {ViewOf[u] : u \in Born} : Of[v] = s}
  <2>1. \A v \in Views : Attached(v) <=> v \in {ViewOf[u] : u \in Born}
    BY <1>3 DEF Attached, Born
  <2>2. {ViewOf[u] : u \in Born} \subseteq Views
    BY Statics DEF Born
  <2> QED BY <2>1, <2>2 DEF AttachedTo
<1>5. \A s \in Sets : LiveSets(s) = CowSets(s) \cap FirstSets
  <2>1. \A s \in Sets : Live(s) <=> s \in FirstSets
    BY <1>3, <1>4 DEF Live, FirstSets
  <2> QED BY <2>1 DEF LiveSets, CowSets
<1>6. \A s \in Sets : prefs[s] = IF Kind[s] = "FILE" THEN Cardinality(LiveSets(s)) ELSE Cardinality(AttachedTo(s))
  BY <1>0, <1>4, <1>5
<1>7. Types
  <2>1. \A s \in Sets : prefs[s] \in Int
    <3> SUFFICES ASSUME NEW s \in Sets PROVE prefs[s] \in Int
      OBVIOUS
    <3>1. IsFiniteSet(AttachedTo(s)) /\ IsFiniteSet(LiveSets(s))
      BY NamesAssumption, FS_Subset DEF AttachedTo, LiveSets, CowSets
    <3>2. Cardinality(AttachedTo(s)) \in Nat /\ Cardinality(LiveSets(s)) \in Nat
      BY <3>1, FS_CardinalityType
    <3> QED BY <3>2, <1>6
  <2>2. NoPte \in PteType
    BY DEF NoPte, PteType
  <2> QED BY <2>1, <2>2, <1>0, <1>1, <1>2 DEF Types
<1>8. Data
  <2>1. \A s \in Sets : Fresh(s) \in Contents
    BY ContentsOf DEF Fresh
  <2> QED BY <2>1, <1>0, ContentsOf DEF Data
<1>9. HandRests /\ panic = FALSE
  BY <1>0 DEF HandRests, Scanning
<1>10. LocksOK
  BY <1>0, <1>1, <1>3, Statics DEF LocksOK, LockOf
<1>11. ThreadsOK
  BY <1>1, <1>3 DEF ThreadsOK
<1>12. ShapeOK /\ MastersOK
  BY <1>2 DEF ShapeOK, ShapeOf, MastersOK
<1>13. WorkOK
  BY <1>1, <1>3 DEF WorkOK, WorkOf
<1>14. RefsOK
  BY <1>2 DEF RefsOK, RefsOf
<1>15. ViewsOK
  <2>1. \A v \in Views : pvalid[v] = FALSE /\ pte[v].v = FALSE
    BY <1>0 DEF NoPte
  <2> QED BY <2>1, <1>2, <1>3, Statics DEF ViewsOK, ValidOf, ListOf, LinkedOf, UnbornOf
<1>16. LifeOK
  BY <1>0, <1>2, <1>6 DEF LifeOK, LifeOf
<1>17. FramesOK
  <2>1. \A s \in Sets : \A f \in Frames : ~HasFrame(s, f)
    BY <1>2 DEF HasFrame
  <2>2. \A t \in Users : \A f \in Frames : thr[t].pg # f
    BY <1>1, Statics
  <2> QED BY <2>1, <2>2, <1>0 DEF FramesOK
<1> QED BY <1>7, <1>8, <1>9, <1>10, <1>11, <1>12, <1>13, <1>14, <1>15, <1>16, <1>17 DEF Inv

\* One step of a thread.
LEMMA ThreadStep ==
  ASSUME Inv, NEW t \in Users, Thread(t)
  PROVE  Core' /\ Data' /\ HandRests' /\ panic' = panic
<1>1. CASE \E w \in BOOLEAN : Fault(t, w)
  BY <1>1, FaultStep, PlainData
<1>2. CASE Store(t)
  BY <1>2, StoreStep, FillData
<1>3. CASE LockSlot(t)
  BY <1>3, LockSlotStep, PlainData
<1>4. CASE LockMaster(t)
  BY <1>4, LockMasterStep, PlainData
<1>5. CASE AllocPage(t)
  BY <1>5, AllocPageStep, PlainData
<1>6. CASE SetCore(t)
  BY <1>6, SetCoreStep, FillData
<1>7. CASE PageIn(t)
  BY <1>7, PageInStep, FillData
<1>8. CASE PageInFails(t)
  BY <1>8, PageInFailsStep, PlainData
<1>9. CASE Map(t)
  BY <1>9, MapStep, PlainData
<1>10. CASE BreakCow(t)
  BY <1>10, BreakCowStep, AssertData
<1>11. CASE CowWrite(t)
  BY <1>11, CowWriteStep, AssertData
<1>12. CASE Exit(t)
  BY <1>12, ExitStep, PlainData
<1>13. CASE Detach(t)
  BY <1>13, DetachStep, AssertData
<1>14. CASE CowLast(t)
  BY <1>14, CowLastStep, PlainData
<1>15. CASE DropSet(t)
  BY <1>15, DropSetStep, AssertData
<1>16. CASE Fork(t)
  BY <1>16, ForkStep, ForkData
<1>17. CASE DupSlot(t)
  BY <1>17, DupSlotStep, ForkData
<1>18. CASE CopyPage(t)
  BY <1>18, CopyPageStep, ForkData
<1>19. CASE AttachView(t)
  BY <1>19, AttachViewStep, PlainData
<1>20. CASE LinkSlot(t)
  BY <1>20, LinkSlotStep, PlainData
<1>21. CASE ForkEnds(t)
  BY <1>21, ForkEndsStep, PlainData
<1> QED BY <1>1, <1>2, <1>3, <1>4, <1>5, <1>6, <1>7, <1>8, <1>9, <1>10, <1>11, <1>12, <1>13, <1>14,
           <1>15, <1>16, <1>17, <1>18, <1>19, <1>20, <1>21 DEF Thread

\* Without a shortage, pageout() looks at no page and starts no I/O.
LEMMA NoPageout ==
  ASSUME Inv, Troubles = {}
  PROVE  ~Pageout /\ ~QioMoves /\ ~QioDone
<1>1. HandRests
  BY DEF Inv
<1>2. ~HandLocks /\ ~HandReads /\ ~HandSkips
  BY <1>1 DEF HandRests, HandLocks, HandReads, HandSkips
<1>3. ~HandKeeps /\ ~HandWants /\ ~HandSteals /\ ~HandQueues /\ ~HandClears
  BY <1>1 DEF HandRests, HandKeeps, HandWants, HandSteals, HandQueues, HandClears, Found
<1>4. ~QioMoves /\ ~QioDone
  BY <1>1 DEF HandRests, QioMoves, QioDone
<1> QED BY <1>2, <1>3, <1>4 DEF Pageout

LEMMA InvStep ==
  ASSUME Inv, Troubles = {}, [PagesNext]_pageVars
  PROVE  Inv'
<1>1. CASE UNCHANGED pageVars
  <2>1. UNCHANGED <<thr, latest, slot, held, prefs, gone, pvalid, pte, free, hand, qio, missed, mem, swap, panic>>
    BY <1>1, Zenon DEF pageVars, progVars, setVars, mapVars, coreVars, devVars, dataVars
  <2>2. /\ Types' /\ Data' /\ HandRests' /\ (panic = FALSE)' /\ ShapeOK' /\ MastersOK'
    BY <2>1 DEF Inv, Types, Data, HandRests, ShapeOK, ShapeOf, MastersOK
  <2>3. LocksOK' /\ ThreadsOK' /\ WorkOK'
    BY <2>1 DEF Inv, LocksOK, LockOf, Locked, FillSet, Filling, SetOf, Pc, ThreadsOK, Forking, Leaving,
                WorkOK, WorkOf, NewSet, NewView
  <2>4. RefsOK' /\ ViewsOK'
    BY <2>1 DEF Inv, RefsOK, RefsOf, Sharing, Pend, Owed, Unused, Forking, Pc, SetOf, NewSet, NewView,
                ViewsOK, ValidOf, ListOf, LinkedOf, UnbornOf, Alive, CowSets
  <2>5. LifeOK'
    <3>1. \A u \in Users : /\ Alive(u)' = Alive(u) /\ Linking(u)' = Linking(u) /\ Forking(u)' = Forking(u)
                           /\ Pc(u)' = Pc(u) /\ SetOf(u)' = SetOf(u)
                           /\ NewSet(u)' = NewSet(u) /\ NewView(u)' = NewView(u)
      BY <2>1 DEF Alive, Linking, Forking, Pc, SetOf, NewSet, NewView
    <3>2. \A v \in Views : Attached(v)' = Attached(v)
      BY <3>1, Zenon DEF Attached
    <3>3. \A x \in Sets : AttachedTo(x)' = AttachedTo(x)
      BY <3>2 DEF AttachedTo
    <3>4. \A x \in Sets : Live(x)' <=> Live(x)
      BY <3>1, <3>3, Zenon DEF Live
    <3>5. \A m \in Sets : LiveSets(m)' = LiveSets(m)
      BY <3>4 DEF LiveSets, CowSets
    <3>6. ASSUME NEW x \in Sets PROVE LifeOf(x)'
      <4>1. LifeOf(x)
        BY DEF Inv, LifeOK
      <4> QED BY <2>1, <3>1, <3>3, <3>4, <3>5, <4>1 DEF LifeOf
    <3> QED BY <3>6 DEF LifeOK
  <2>6. FramesOK'
    BY <2>1, StillFrames
  <2> QED BY <2>2, <2>3, <2>4, <2>5, <2>6 DEF Inv
<1>2. CASE PagesNext
  <2>1. PICK t \in Users : Thread(t)
    BY <1>2, NoPageout DEF PagesNext
  <2>2. Core' /\ Data' /\ HandRests' /\ panic' = FALSE
    BY <2>1, ThreadStep DEF Inv
  <2> QED BY <2>2 DEF Core, Inv
<1> QED BY <1>1, <1>2

LEMMA Always ==
  ASSUME Troubles = {} PROVE PagesSpec => []Inv
<1>1. PagesInit => Inv
  BY InvInit
<1>2. Inv /\ [PagesNext]_pageVars => Inv'
  BY InvStep
<1> QED BY <1>1, <1>2, PTL DEF PagesSpec
-----------------------------------------------------------------------------
(* The invariant says what the properties say.                           *)

\* A set that fork() has made and not yet given its view is not in use.
LEMMA NotYetInUse ==
  ASSUME Inv, NEW t \in Users, Forking(t), ~Linking(t)
  PROVE  prefs[NewSet(t)] = 0
<1>0. ThreadsOK /\ LifeOK
  BY DEF Inv
<1>1. /\ Child[t] # None
      /\ \A u \in Users : ViewOf[u] = NewView(t) => Pc(u) = "none"
      /\ \A u \in Users : Forking(u) /\ NewView(u) = NewView(t) => u = t
  BY <1>0, Forks2
<1>2. NewSet(t) \in Sets /\ Kind[NewSet(t)] # "FILE" /\ \A w \in Views : Of[w] = NewSet(t) => w = NewView(t)
  BY <1>1, ForkStatics
<1>3. ~Attached(NewView(t))
  BY <1>1 DEF Attached, Alive, Linking, Forking
<1>4. AttachedTo(NewSet(t)) = {}
  BY <1>2, <1>3 DEF AttachedTo
<1>5. prefs[NewSet(t)] = Cardinality(AttachedTo(NewSet(t)))
  BY <1>0, <1>2 DEF LifeOK, LifeOf
<1> QED BY <1>4, <1>5, CardOne

\* Who refers to a page nobody works on: the attach list and the sharing slots.
LEMMA SettledRefs ==
  ASSUME Inv, NEW s \in Settled
  PROVE  /\ Sharers(s) = Sharing(s)
         /\ slot[s].v => /\ slot[s].refs = Cardinality(slot[s].atl) + Cardinality(Sharing(s))
                         /\ slot[s].refs > 0
         /\ ~slot[s].v => slot[s].atl = {} /\ Sharing(s) = {}
         /\ Viewers(slot[s]) = {v \in Views : Of[v] = s /\ pvalid[v]}
<1>0. s \in Sets /\ held[s] = None /\ prefs[s] > 0 /\ \A t \in Users : Linking(t) => NewSet(t) # s
  BY DEF Settled, Linking
<1>1. Types /\ ShapeOK /\ MastersOK /\ LifeOK /\ RefsOf(s) /\ ViewsOK
  BY <1>0 DEF Inv, RefsOK
<1>2. Sharers(s) = Sharing(s)
  <2>1. \A x \in Sets : slot[x].cow => x \notin gone
    BY <1>1 DEF ShapeOK, ShapeOf, LifeOK, LifeOf
  <2> QED BY <2>1 DEF Sharers, Sharing, CowSets
<1>3. Pend(s) = 0 /\ \A u \in Users : Pc(u) = "clast" => SetOf(u) # s
  <2>1. \A u \in Users : Pc(u) \in Working => SetOf(u) # s
    BY <1>0, HeldWork
  <2> QED BY <2>1 DEF Pend, Counted, Working
<1>4. Owed(s) = 0
  BY <1>0 DEF Owed, Linking
<1>5. ~Unused(s)
  <2>1. \A t \in Users : Forking(t) => NewSet(t) # s
    BY <1>0, NotYetInUse
  <2> QED BY <2>1, <1>3 DEF Unused
<1>6. slot[s].v => /\ slot[s].refs = Cardinality(slot[s].atl) + Cardinality(Sharing(s))
                   /\ slot[s].refs > 0
  <2>1. /\ slot[s].v => slot[s].refs = Cardinality(slot[s].atl) + Cardinality(Sharing(s)) + Pend(s) - Owed(s)
        /\ slot[s].v => slot[s].refs > 0
    BY <1>1, <1>5 DEF RefsOf
  <2>2. Cardinality(slot[s].atl) \in Nat /\ Cardinality(Sharing(s)) \in Nat
    BY <1>0, <1>1, Finite
  <2> QED BY <2>1, <2>2, <1>3, <1>4
<1>7. ~slot[s].v => slot[s].atl = {} /\ Sharing(s) = {}
  BY <1>0, <1>1 DEF ShapeOK, ShapeOf, MastersOK, Sharing, CowSets
<1>8. Viewers(slot[s]) = {v \in Views : Of[v] = s /\ pvalid[v]}
  <2>1. slot[s].atl \subseteq Views \cup {Cache}
    BY <1>0, <1>1, RecordTypes DEF SlotType
  <2>2. \A v \in Viewers(slot[s]) : v \in Views /\ Of[v] = s /\ pvalid[v]
    BY <1>0, <1>1, <2>1 DEF Viewers, ViewsOK, ListOf, Linking, NewView, NewSet
  <2>3. \A v \in Views : Of[v] = s /\ pvalid[v] => v \in Viewers(slot[s])
    BY <1>1, Statics DEF Viewers, ViewsOK, ValidOf
  <2> QED BY <2>2, <2>3
<1> QED BY <1>2, <1>6, <1>7, <1>8

LEMMA RefsHold ==
  ASSUME Inv PROVE RefsAreMappings
<1> SUFFICES ASSUME NEW s \in Settled
             PROVE  /\ slot[s].refs * (IF slot[s].v THEN 1 ELSE 0)
                         = Cardinality(slot[s].atl) + Cardinality(Sharers(s))
                    /\ slot[s].v => slot[s].refs > 0
                    /\ Viewers(slot[s]) = {v \in Views : Of[v] = s /\ pvalid[v]}
  BY DEF RefsAreMappings
<1>1. slot[s].refs \in Int
  BY RecordTypes DEF Settled, SlotType, Inv
<1>2. CASE slot[s].v
  <2>1. slot[s].refs * (IF slot[s].v THEN 1 ELSE 0) = slot[s].refs
    BY <1>1, <1>2
  <2> QED BY <1>2, <2>1, SettledRefs
<1>3. CASE ~slot[s].v
  <2>1. slot[s].refs * (IF slot[s].v THEN 1 ELSE 0) = 0
    BY <1>1, <1>3
  <2>2. Cardinality(slot[s].atl) = 0 /\ Cardinality(Sharers(s)) = 0
    BY <1>3, SettledRefs, CardOne
  <2> QED BY <1>3, <2>1, <2>2, SettledRefs
<1> QED BY <1>2, <1>3

LEMMA FramesHold ==
  ASSUME Inv PROVE FramesOwned
<1> DEFINE owners(f) == {s \in Sets \ gone : slot[s].v /\ ~slot[s].cow /\ slot[s].pfn = f}
                        \cup {t \in Users : thr[t].pg = f}
                        \cup {"free" : x \in free \cap {f}}
<1> SUFFICES ASSUME NEW f \in Frames PROVE Cardinality(owners(f)) = 1
  BY DEF FramesOwned
<1>1. FramesOK /\ \A s \in Sets : slot[s].v => s \notin gone
  BY DEF Inv, LifeOK, LifeOf
<1>2. owners(f) = {s \in Sets : HasFrame(s, f)} \cup {t \in Users : thr[t].pg = f}
                  \cup (IF f \in free THEN {"free"} ELSE {})
  BY <1>1 DEF HasFrame
<1>3. CASE f \in free
  <2>1. owners(f) = {"free"}
    BY <1>1, <1>2, <1>3 DEF FramesOK
  <2> QED BY <2>1, CardOne
<1>4. ASSUME NEW s \in Sets, HasFrame(s, f) PROVE Cardinality(owners(f)) = 1
  <2>1. owners(f) = {s}
    BY <1>1, <1>2, <1>4 DEF FramesOK
  <2> QED BY <2>1, CardOne
<1>5. ASSUME NEW t \in Users, thr[t].pg = f PROVE Cardinality(owners(f)) = 1
  <2>1. owners(f) = {t}
    BY <1>1, <1>2, <1>5 DEF FramesOK
  <2> QED BY <2>1, CardOne
<1> QED BY <1>1, <1>3, <1>4, <1>5 DEF FramesOK

LEMMA TypesHold ==
  ASSUME Inv PROVE PagesTypeOK
<1>1. Types /\ Data /\ RefsOK
  BY DEF Inv
<1>2. slot \in [Sets -> [v: BOOLEAN, cow: BOOLEAN, swapped: BOOLEAN, m: BOOLEAN,
                        refs: Nat, pfn: Frames \cup {None}, atl: SUBSET (Views \cup {Cache})]]
  <2> DEFINE F == Frames \cup {None}
             A == SUBSET (Views \cup {Cache})
  <2>1. slot \in [Sets -> [v: BOOLEAN, cow: BOOLEAN, swapped: BOOLEAN, m: BOOLEAN, refs: Int, pfn: F, atl: A]]
    BY <1>1 DEF Types, SlotType
  <2>2. \A s \in Sets : slot[s].refs >= 0
    BY <1>1 DEF RefsOK, RefsOf
  <2> HIDE DEF F, A
  <2>3. slot \in [Sets -> [v: BOOLEAN, cow: BOOLEAN, swapped: BOOLEAN, m: BOOLEAN, refs: Nat, pfn: F, atl: A]]
    BY <2>1, <2>2
  <2> QED BY <2>3 DEF F, A
<1>3. \A v \in Views : pte[v].pfn \in Frames \cup {None}
  BY <1>1, RecordTypes DEF PteType
<1> QED BY <1>1, <1>2, <1>3 DEF Types, Data, PagesTypeOK
-----------------------------------------------------------------------------
(* What programs see.                                                    *)

\* Sets with more than one view: none that fork() copies, none of kind COW.
Many(x) == \E v, w \in Views : v # w /\ Of[v] = x /\ Of[w] = x

\* A fault may yet fill the slot of x again: somebody is to stay in the set,
\* and no fork() is about to give it a copy.
Stays(u)   == Pc(u) \notin {"dead", "dlock", "clast", "drop"}
Copying(u) == \E t \in Users : Pc(t) \in {"falloc", "fcore"} /\ Child[t] = u
Wanted(x)  == \E u \in Users : SetOf(u) = x /\ Stays(u) /\ ~Copying(u)

\* What is stored is in the page, and a page that is given back while somebody
\* may want it again was not stored in: the slot or a translation would say so.
ValueOf(x) ==
  /\ latest[x] \in {Fresh(x), x} /\ (Kind[x] = "FILE" => latest[x] = Fresh(x))
  /\ slot[x].v /\ ~slot[x].cow => mem[slot[x].pfn] = latest[x]
  /\ slot[x].cow => latest[x] = Fresh(x) /\ slot[x].pfn = slot[Master[x]].pfn
  /\ ~slot[x].v /\ Wanted(x) => latest[x] = Fresh(x)
  /\ Many(x) /\ slot[x].v /\ latest[x] # Fresh(x) =>
       slot[x].m \/ \E v \in Views : Of[v] = x /\ pvalid[v] /\ pte[v].m

\* A translation is to the page of the slot, or, while the slot is taken from
\* its master, still to the page of the master and for reading.
Current(v) == /\ pvalid[v] \/ \E t \in Users : Pc(t) = "linked" /\ NewView(t) = v
              /\ pte[v].pfn = slot[Of[v]].pfn
              /\ slot[Of[v]].cow => pte[v].ro
Stale(v) == /\ ~pvalid[v] /\ pte[v].ro /\ Kind[Of[v]] = "COW"
            /\ slot[Master[Of[v]]].v /\ pte[v].pfn = slot[Master[Of[v]]].pfn
            /\ latest[Of[v]] = Fresh(Of[v])
            /\ \E u \in Users : ViewOf[u] = v /\ Pc(u) \in Counted
PteOf(v) == pte[v].v => Current(v) \/ Stale(v)

Values == /\ \A x \in Sets : ValueOf(x)
          /\ \A v \in Views : PteOf(v)
          /\ \A t \in Users : Pc(t) = "read" => Kind[thr[t].on] = "FILE"

LEMMA ValueNames ==
  \A x, y \in Sets : Fresh(x) # y /\ (Kind[x] = Kind[y] => Fresh(x) = Fresh(y))
BY NamesAssumption DEF Fresh

\* Sets with more than one view are of fresh memory, and fork() copies none.
LEMMA ManyKind ==
  ASSUME NEW x \in Sets
  PROVE  /\ Many(x) => Kind[x] # "COW" /\ Kind[x] # "FILE"
         /\ \A t \in Users : Child[t] # None => ~Many(NewSet(t)) /\ ~Many(SetOf(t))
<1>1. Many(x) => Kind[x] # "COW" /\ Kind[x] # "FILE"
  BY Statics DEF Many
<1>2. ASSUME NEW t \in Users, Child[t] # None PROVE ~Many(NewSet(t)) /\ ~Many(SetOf(t))
  BY <1>2, ForkStatics DEF Many
<1> QED BY <1>1, <1>2

\* The set of a thread that is to stay is wanted.
LEMMA WantsOwn ==
  ASSUME ThreadsOK, NEW t \in Users, Alive(t), Stays(t)
  PROVE  Wanted(SetOf(t))
<1>1. ~Copying(t)
  BY DEF Copying, ThreadsOK, Forking, Alive
<1> QED BY <1>1 DEF Wanted

\* A current translation is of a slot that is valid.
LEMMA CurrentValid ==
  ASSUME ViewsOK, ShapeOK, NEW v \in Views, pte[v].v, Current(v)
  PROVE  slot[Of[v]].v
<1>1. CASE pvalid[v]
  BY <1>1, Statics DEF ViewsOK, ValidOf, ShapeOK, ShapeOf
<1>2. ASSUME NEW t \in Users, Pc(t) = "linked", NewView(t) = v PROVE slot[Of[v]].v
  BY <1>2 DEF ViewsOK, LinkedOf, NewSet, NewView
<1> QED BY <1>1, <1>2 DEF Current

\* The translations of a program that runs are not about to be counted.
LEMMA NotLinked ==
  ASSUME ThreadsOK, NEW t \in Users, Alive(t), NEW u \in Users, Pc(u) = "linked"
  PROVE  NewView(u) # ViewOf[t] /\ NewSet(u) # SetOf(t)
<1>1. Forking(u)
  BY DEF Forking
<1> QED BY <1>1, Forks2 DEF Alive

\* Frames that are freed are in no slot.
LEMMA MemKept ==
  ASSUME FramesOK', ShapeOK', NEW fs, FreePages(fs), NEW x \in Sets, slot'[x].v, ~slot'[x].cow
  PROVE  mem'[slot'[x].pfn] = mem[slot'[x].pfn]
<1>1. slot'[x].pfn \in Frames
  BY DEF ShapeOK, ShapeOf
<1>2. slot'[x].pfn \notin free'
  BY <1>1 DEF FramesOK, HasFrame
<1>3. slot'[x].pfn \notin fs /\ mem' = [f \in Frames |-> IF f \in fs THEN "junk" ELSE mem[f]]
  BY <1>2 DEF FreePages
<1> QED BY <1>1, <1>3

LEMMA ValueFrame ==
  ASSUME NEW x \in Sets, ValueOf(x), latest'[x] = latest[x],
         slot'[x].v = slot[x].v, slot'[x].cow = slot[x].cow, slot'[x].pfn = slot[x].pfn,
         slot[x].m => slot'[x].m,
         slot[x].v /\ ~slot[x].cow => mem'[slot[x].pfn] = mem[slot[x].pfn],
         slot[x].cow => slot'[Master[x]].pfn = slot[Master[x]].pfn,
         Wanted(x)' => Wanted(x),
         \A v \in Views : Of[v] = x /\ pvalid[v] /\ pte[v].m /\ Many(x) => pvalid'[v] /\ pte'[v].m
  PROVE  ValueOf(x)'
<1>1. Fresh(x)' = Fresh(x) /\ (Many(x)' <=> Many(x))
  BY DEF Fresh, Many
<1>2. /\ latest[x] \in {Fresh(x), x} /\ (Kind[x] = "FILE" => latest[x] = Fresh(x))
      /\ slot[x].v /\ ~slot[x].cow => mem[slot[x].pfn] = latest[x]
      /\ slot[x].cow => latest[x] = Fresh(x) /\ slot[x].pfn = slot[Master[x]].pfn
      /\ ~slot[x].v /\ Wanted(x) => latest[x] = Fresh(x)
  BY DEF ValueOf
<1>3. (Many(x) /\ slot[x].v /\ latest[x] # Fresh(x) =>
         slot[x].m \/ \E v \in Views : Of[v] = x /\ pvalid[v] /\ pte[v].m)'
  BY <1>1 DEF ValueOf
<1>4. (/\ latest[x] \in {Fresh(x), x} /\ (Kind[x] = "FILE" => latest[x] = Fresh(x))
       /\ slot[x].v /\ ~slot[x].cow => mem[slot[x].pfn] = latest[x]
       /\ slot[x].cow => latest[x] = Fresh(x) /\ slot[x].pfn = slot[Master[x]].pfn
       /\ ~slot[x].v /\ Wanted(x) => latest[x] = Fresh(x))'
  BY <1>1, <1>2
<1> QED BY <1>3, <1>4 DEF ValueOf

LEMMA PteFrame ==
  ASSUME NEW v \in Views, PteOf(v), pte'[v].v => pte[v].v, pte'[v].ro = pte[v].ro,
         pte'[v].pfn = pte[v].pfn, pvalid'[v] = pvalid[v],
         pte[v].v /\ Current(v) =>
           /\ slot'[Of[v]].pfn = slot[Of[v]].pfn /\ slot'[Of[v]].cow = slot[Of[v]].cow
           /\ \A t \in Users : Pc(t) = "linked" /\ NewView(t) = v => Pc(t)' = "linked",
         Stale(v) => /\ slot'[Master[Of[v]]].v
                     /\ slot'[Master[Of[v]]].pfn = slot[Master[Of[v]]].pfn
                     /\ latest'[Of[v]] = latest[Of[v]]
                     /\ \E u \in Users : ViewOf[u] = v /\ Pc(u)' \in Counted
  PROVE  PteOf(v)'
<1> SUFFICES ASSUME pte'[v].v PROVE Current(v)' \/ Stale(v)'
  BY DEF PteOf
<1>1. CASE Current(v)
  <2>1. \A t \in Users : NewView(t)' = NewView(t)
    BY DEF NewView
  <2> QED BY <1>1, <2>1 DEF Current
<1>2. CASE Stale(v)
  <2>1. Fresh(Of[v])' = Fresh(Of[v]) /\ Counted' = Counted
    BY DEF Fresh, Counted
  <2> QED BY <1>2, <2>1 DEF Stale
<1> QED BY <1>1, <1>2 DEF PteOf

LEMMA WantedFrame ==
  ASSUME NEW t \in Users, \A u \in Users : u # t => thr'[u] = thr[u],
         Stays(t)' => Stays(t),
         Pc(t) \in {"falloc", "fcore"} => Pc(t)' \in {"falloc", "fcore"}
  PROVE  \A x \in Sets : Wanted(x)' => Wanted(x)
<1>1. \A u \in Users : Stays(u)' => Stays(u)
  BY DEF Stays, Pc
<1>2. \A u \in Users : Copying(u) => Copying(u)'
  BY DEF Copying, Pc
<1> QED BY <1>1, <1>2 DEF Wanted, SetOf

\* A step that changes neither contents nor translations.
LEMMA Quiet ==
  ASSUME Inv, Values, NEW t \in Users,
         \A u \in Users : u # t => thr'[u] = thr[u],
         Stays(t)' => Stays(t),
         Pc(t) \in {"falloc", "fcore"} => Pc(t)' \in {"falloc", "fcore"},
         Pc(t) = "linked" => Pc(t)' = "linked",
         Pc(t) \in Counted => Pc(t)' \in Counted,
         Pc(t)' = "read" => Kind[thr'[t].on] = "FILE",
         latest' = latest, pte' = pte, pvalid' = pvalid,
         \A x \in Sets : /\ slot'[x].v = slot[x].v /\ slot'[x].cow = slot[x].cow
                         /\ slot'[x].pfn = slot[x].pfn /\ slot'[x].m = slot[x].m,
         \A x \in Sets : slot[x].v /\ ~slot[x].cow => mem'[slot[x].pfn] = mem[slot[x].pfn]
  PROVE  Values'
<1>1. ASSUME NEW x \in Sets PROVE ValueOf(x)'
  <2>1. ValueOf(x) /\ (slot[x].cow => Master[x] \in Sets)
    BY OfCow DEF Values
  <2>2. Wanted(x)' => Wanted(x)
    BY WantedFrame
  <2> QED BY <2>1, <2>2, ValueFrame
<1>2. ASSUME NEW v \in Views PROVE PteOf(v)'
  <2>1. PteOf(v) /\ Of[v] \in Sets
    BY Statics DEF Values
  <2>2. Stale(v) => Master[Of[v]] \in Sets
    BY <2>1, Statics DEF Stale
  <2>3. \A u \in Users : (Pc(u) = "linked" => Pc(u)' = "linked") /\ (Pc(u) \in Counted => Pc(u)' \in Counted)
    BY DEF Pc
  <2>4. Stale(v) => \E u \in Users : ViewOf[u] = v /\ Pc(u)' \in Counted
    BY <2>3 DEF Stale
  <2>5. /\ slot'[Of[v]].pfn = slot[Of[v]].pfn /\ slot'[Of[v]].cow = slot[Of[v]].cow
        /\ \A u \in Users : Pc(u) = "linked" /\ NewView(u) = v => Pc(u)' = "linked"
    BY <2>1, <2>3
  <2>6. Stale(v) => /\ slot'[Master[Of[v]]].v
                    /\ slot'[Master[Of[v]]].pfn = slot[Master[Of[v]]].pfn
    BY <2>2 DEF Stale
  <2> QED BY <2>1, <2>4, <2>5, <2>6, PteFrame
<1>3. ASSUME NEW u \in Users, Pc(u)' = "read" PROVE Kind[thr'[u].on] = "FILE"
  BY <1>3 DEF Values, Pc
<1> QED BY <1>1, <1>2, <1>3 DEF Values
-----------------------------------------------------------------------------
(* Steps that change no contents.                                        *)

\* What these steps have in common, for the contents.
LEMMA QuietFault ==
  ASSUME Inv, Values, NEW t \in Users, NEW w \in BOOLEAN, Fault(t, w)
  PROVE  Values'
<1>1. /\ thr' = [thr EXCEPT ![t].pc = "lock", ![t].w = w] /\ Pc(t) = "user"
      /\ UNCHANGED <<latest, slot, pvalid, pte, mem>>
  BY Zenon DEF Fault, setVars, mapVars, dataVars
<1>2. thr[t] \in ThrType /\ Types
  BY RecordTypes DEF Inv
<1>3. Pc(t)' = "lock" /\ \A u \in Users : u # t => thr'[u] = thr[u]
  BY <1>1, <1>2 DEF Types, ThrType, Pc
<1>4. Stays(t) /\ Stays(t)' /\ Pc(t) \notin Counted
  BY <1>1, <1>3 DEF Stays, Counted
<1> QED BY <1>1, <1>3, <1>4, Quiet

LEMMA QuietExit ==
  ASSUME Inv, Values, NEW t \in Users, Exit(t)
  PROVE  Values'
<1> DEFINE pc == IF {u \in Users \ {t} : ViewOf[u] = ViewOf[t] /\ Pc(u) \notin {"none", "dead"}} # {}
                 THEN "dead" ELSE IF pvalid[ViewOf[t]] THEN "dlock" ELSE "drop"
<1>1. /\ thr' = [thr EXCEPT ![t].pc = pc] /\ Pc(t) = "user"
      /\ UNCHANGED <<latest, slot, pvalid, pte, mem>>
  BY Zenon DEF Exit, Goes, setVars, mapVars, dataVars
<1>p. pc \in {"dead", "dlock", "drop"}
  OBVIOUS
<1> HIDE DEF pc
<1>2. thr[t] \in ThrType /\ Types
  BY RecordTypes DEF Inv
<1>3. Pc(t)' = pc /\ \A u \in Users : u # t => thr'[u] = thr[u]
  BY <1>1, <1>2 DEF Types, ThrType, Pc
<1>4. Stays(t) /\ Pc(t) \notin Counted
  BY <1>1 DEF Stays, Counted
<1> QED BY <1>1, <1>p, <1>3, <1>4, Quiet

LEMMA QuietAlloc ==
  ASSUME Inv, Values, NEW t \in Users, AllocPage(t)
  PROVE  Values'
<1>1. PICK f \in free : thr' = [thr EXCEPT ![t].pg = f, ![t].pc = AfterAlloc(t)]
  BY Zenon DEF AllocPage
<1>2. UNCHANGED <<latest, slot, pvalid, pte, mem>>
  BY Zenon DEF AllocPage, setVars, mapVars, dataVars
<1>3. thr[t] \in ThrType /\ Types /\ Pc(t) \in {"alloc", "calloc", "falloc"}
  BY RecordTypes DEF Inv, AllocPage, Allocs
<1>4. Pc(t)' = AfterAlloc(t) /\ \A u \in Users : u # t => thr'[u] = thr[u]
  BY <1>1, <1>3 DEF Types, ThrType, Pc
<1>5. /\ Pc(t) = "alloc" => Pc(t)' = "core"
      /\ Pc(t) = "calloc" => Pc(t)' = "ccore"
      /\ Pc(t) = "falloc" => Pc(t)' = "fcore"
  BY <1>3, <1>4 DEF AfterAlloc
<1>6. Stays(t) /\ Stays(t)' /\ (Pc(t) \in Counted => Pc(t)' \in Counted)
  BY <1>3, <1>5 DEF Stays, Counted
<1> QED BY <1>2, <1>3, <1>4, <1>5, <1>6, Quiet

LEMMA QuietAttach ==
  ASSUME Inv, Values, NEW t \in Users, AttachView(t)
  PROVE  Values'
<1>1. /\ thr' = [thr EXCEPT ![t].pc = "link"] /\ Pc(t) = "attach"
      /\ UNCHANGED <<latest, slot, pvalid, pte, mem>>
  BY Zenon DEF AttachView, Goes, mapVars, dataVars
<1>2. thr[t] \in ThrType /\ Types
  BY RecordTypes DEF Inv
<1>3. Pc(t)' = "link" /\ \A u \in Users : u # t => thr'[u] = thr[u]
  BY <1>1, <1>2 DEF Types, ThrType, Pc
<1>4. Stays(t) /\ Pc(t) \notin Counted
  BY <1>1 DEF Stays, Counted
<1> QED BY <1>1, <1>3, <1>4, Quiet

LEMMA QuietFails ==
  ASSUME Inv, Inv', Values, NEW t \in Users, PageInFails(t)
  PROVE  Values'
<1>1. /\ thr' = [thr EXCEPT ![t] = At("user")] /\ Pc(t) = "read" /\ FreePages({thr[t].pg})
      /\ UNCHANGED <<latest, slot, pvalid, pte>>
  BY Zenon DEF PageInFails, Back, mapVars
<1>2. thr[t] \in ThrType /\ Types
  BY RecordTypes DEF Inv
<1>3. Pc(t)' = "user" /\ \A u \in Users : u # t => thr'[u] = thr[u]
  BY <1>1, <1>2 DEF Types, Pc, At
<1>4. Stays(t) /\ Pc(t) \notin Counted
  BY <1>1 DEF Stays, Counted
<1>5. \A x \in Sets : slot[x].v /\ ~slot[x].cow => mem'[slot[x].pfn] = mem[slot[x].pfn]
  <2>1. FramesOK' /\ ShapeOK'
    BY DEF Inv
  <2> QED BY <1>1, <2>1, MemKept
<1> QED BY <1>1, <1>3, <1>4, <1>5, Quiet

LEMMA QuietLock ==
  ASSUME Inv, Values, NEW t \in Users, LockSlot(t)
  PROVE  Values'
<1> DEFINE s == SetOf(t)
<1>0. thr[t] \in ThrType /\ Types /\ s \in Sets /\ slot[s] \in SlotType /\ Pc(t) = "lock"
  BY RecordTypes, Statics DEF Inv, LockSlot
<1>1. UNCHANGED <<latest, pvalid, pte, mem>>
  BY Zenon DEF LockSlot, mapVars, dataVars
<1>2. \/ slot' = [slot EXCEPT ![s].refs = @ + 1] /\ thr' = [thr EXCEPT ![t].pc = "got", ![t].was = TRUE]
      \/ slot' = slot /\ thr' = [thr EXCEPT ![t].pc = IF Kind[s] = "COW" THEN "master" ELSE "alloc", ![t].on = s]
  BY Zenon DEF LockSlot
<1>3. \A x \in Sets : /\ slot'[x].v = slot[x].v /\ slot'[x].cow = slot[x].cow
                      /\ slot'[x].pfn = slot[x].pfn /\ slot'[x].m = slot[x].m
  BY <1>0, <1>2 DEF Types, SlotType
<1>4. Pc(t)' \in {"got", "master", "alloc"} /\ \A u \in Users : u # t => thr'[u] = thr[u]
  BY <1>0, <1>2 DEF Types, ThrType, Pc
<1>5. Stays(t) /\ Pc(t) \notin Counted
  BY <1>0 DEF Stays, Counted
<1> QED BY <1>0, <1>1, <1>3, <1>4, <1>5, Quiet
-----------------------------------------------------------------------------
(* Stores, and the lock of the master.                                   *)

\* A store is into the page of the slot, which no other slot has: a slot that
\* shares it is mapped for reading only.
LEMMA StoreValues ==
  ASSUME Inv, Values, NEW t \in Users, Store(t)
  PROVE  Values'
<1> DEFINE s == SetOf(t)
           v == ViewOf[t]
           Aged(c) == IF c = s THEN "junk" ELSE c
<1>0. /\ s \in Sets /\ v \in Views /\ Of[v] = s /\ Types /\ Data /\ ThreadsOK /\ ViewsOK /\ ShapeOK
      /\ FramesOK /\ pte[v] \in PteType /\ Pc(t) = "user" /\ Alive(t) /\ Kind[s] # "FILE"
  BY Statics, RecordTypes DEF Inv, Store, Alive
<1>1. /\ pte[v].v /\ ~pte[v].ro
      /\ pte' = [pte EXCEPT ![v].m = TRUE]
      /\ mem' = [f \in Frames |-> IF f = pte[v].pfn THEN s ELSE Aged(mem[f])]
      /\ latest' = [latest EXCEPT ![s] = s]
      /\ UNCHANGED <<thr, slot, pvalid>>
  BY DEF Store, Usable, setVars
<1>2. Current(v) /\ pvalid[v] /\ slot[s].v /\ ~slot[s].cow /\ pte[v].pfn = slot[s].pfn
  <2>1. Current(v)
    BY <1>0, <1>1 DEF Values, PteOf, Stale
  <2> QED BY <2>1, <1>0, <1>1, NotLinked, CurrentValid DEF Current
<1>3. slot[s].pfn \in Frames /\ HasFrame(s, slot[s].pfn)
  BY <1>0, <1>2 DEF ShapeOK, ShapeOf, HasFrame
<1>4. /\ latest'[s] = s /\ \A x \in Sets : x # s => latest'[x] = latest[x]
      /\ \A w \in Views : pte'[w].v = pte[w].v /\ pte'[w].ro = pte[w].ro /\ pte'[w].pfn = pte[w].pfn
      /\ pte'[v].m /\ \A w \in Views : w # v => pte'[w] = pte[w]
  BY <1>0, <1>1 DEF Types, Data, PteType
<1>5. \A x \in Sets : Wanted(x)' => Wanted(x)
  BY <1>1, WantedFrame DEF Stays, Pc
<1>6. ValueOf(s)'
  <2>1. mem'[slot[s].pfn] = s
    BY <1>1, <1>2, <1>3
  <2> QED BY <1>0, <1>1, <1>2, <1>4, <2>1 DEF ValueOf
<1>7. ASSUME NEW x \in Sets, x # s PROVE ValueOf(x)'
  <2>1. ValueOf(x)
    BY DEF Values
  <2>2. slot[x].v /\ ~slot[x].cow => mem'[slot[x].pfn] = mem[slot[x].pfn]
    <3> SUFFICES ASSUME slot[x].v, ~slot[x].cow PROVE mem'[slot[x].pfn] = mem[slot[x].pfn]
      OBVIOUS
    <3>1. slot[x].pfn \in Frames /\ slot[x].pfn # pte[v].pfn
      BY <1>0, <1>2, <1>3, <1>7 DEF ShapeOK, ShapeOf, FramesOK, HasFrame
    <3>2. mem[slot[x].pfn] # s
      BY <2>1, <1>0, <1>7, ValueNames DEF ValueOf
    <3> QED BY <3>1, <3>2, <1>1
  <2>3. \A w \in Views : Of[w] = x => pte'[w] = pte[w]
    BY <1>0, <1>4, <1>7
  <2> QED BY <2>1, <2>2, <2>3, <1>1, <1>4, <1>5, <1>7, ValueFrame
<1>8. ASSUME NEW w \in Views PROVE PteOf(w)'
  <2>1. PteOf(w)
    BY DEF Values
  <2>2. CASE Stale(w)
    <3>1. Of[w] # s
      BY <2>2, <1>0, <1>1, Statics DEF Stale
    <3>2. \E u \in Users : ViewOf[u] = w /\ Pc(u)' \in Counted
      BY <2>2, <1>1 DEF Stale, Pc
    <3>3. slot'[Master[Of[w]]].v /\ slot'[Master[Of[w]]].pfn = slot[Master[Of[w]]].pfn
      BY <2>2, <1>1 DEF Stale
    <3>4. /\ latest'[Of[w]] = latest[Of[w]]
          /\ slot'[Of[w]].pfn = slot[Of[w]].pfn /\ slot'[Of[w]].cow = slot[Of[w]].cow
          /\ \A u \in Users : Pc(u) = "linked" /\ NewView(u) = w => Pc(u)' = "linked"
      BY <3>1, <1>1, <1>4, Statics DEF Pc
    <3> QED BY <2>1, <3>2, <3>3, <3>4, <1>1, <1>4, PteFrame
  <2>3. CASE ~Stale(w)
    <3>1. /\ slot'[Of[w]].pfn = slot[Of[w]].pfn /\ slot'[Of[w]].cow = slot[Of[w]].cow
          /\ \A u \in Users : Pc(u) = "linked" /\ NewView(u) = w => Pc(u)' = "linked"
      BY <1>1 DEF Pc
    <3> QED BY <2>1, <2>3, <3>1, <1>1, <1>4, PteFrame
  <2> QED BY <2>2, <2>3
<1>9. ASSUME NEW u \in Users, Pc(u)' = "read" PROVE Kind[thr'[u].on] = "FILE"
  BY <1>1, <1>9 DEF Values, Pc
<1> QED BY <1>6, <1>7, <1>8, <1>9 DEF Values

\* The slot of a COW set takes the page of its master: nothing was stored yet.
LEMMA LockMasterValues ==
  ASSUME Inv, Values, NEW t \in Users, LockMaster(t)
  PROVE  Values'
<1> DEFINE s == SetOf(t)
           m == Master[s]
<1>0. /\ thr[t] \in ThrType /\ Types /\ s \in Sets /\ slot[s] \in SlotType /\ ThreadsOK /\ ViewsOK /\ ShapeOK
      /\ Pc(t) = "master" /\ Alive(t) /\ Kind[s] = "COW" /\ m \in Sets /\ Kind[m] = "FILE" /\ m # s
      /\ slot[m] \in SlotType /\ ~slot[s].v
  <2>1. Pc(t) = "master" /\ Alive(t) /\ s \in Sets /\ WorkOf(t) /\ LockOf(t)
    BY Statics DEF Inv, LockMaster, Alive, WorkOK, LocksOK
  <2>2. Kind[s] = "COW" /\ ~slot[s].v
    BY <2>1 DEF WorkOf, LockOf
  <2> QED BY <2>1, <2>2, Statics, RecordTypes DEF Inv
<1>1. UNCHANGED <<latest, pvalid, pte, mem>>
  BY Zenon DEF LockMaster, mapVars, dataVars
<1>2. CASE slot[m].v
  <2>1. slot' = [slot EXCEPT ![m].refs = @ + 1, ![s] = Shared(@, slot[m].pfn)] /\ thr' = [thr EXCEPT ![t].pc = "got"]
    BY <1>2, Zenon DEF LockMaster, Goes
  <2>2. Pc(t)' = "got" /\ \A u \in Users : u # t => thr'[u] = thr[u]
    BY <1>0, <2>1 DEF Types, ThrType, Pc
  <2>3. /\ slot'[s].v /\ slot'[s].cow /\ slot'[s].pfn = slot[m].pfn
        /\ slot'[m].v = slot[m].v /\ slot'[m].cow = slot[m].cow
        /\ slot'[m].pfn = slot[m].pfn /\ slot'[m].m = slot[m].m
        /\ \A x \in Sets : x # s /\ x # m => slot'[x] = slot[x]
    BY <1>0, <2>1 DEF Types, SlotType, Shared
  <2>4. \A x \in Sets : x # s => /\ slot'[x].v = slot[x].v /\ slot'[x].cow = slot[x].cow
                                 /\ slot'[x].pfn = slot[x].pfn /\ slot'[x].m = slot[x].m
    BY <2>3
  <2>5. Stays(t) /\ Stays(t)' /\ Pc(t) \notin Counted /\ Pc(t)' # "read"
    BY <1>0, <2>2 DEF Stays, Counted
  <2>6. \A x \in Sets : Wanted(x)' => Wanted(x)
    BY <1>0, <2>2, <2>5, WantedFrame
  <2>7. latest[s] = Fresh(s) /\ ~Many(s)
    <3>1. Wanted(s)
      BY <1>0, <2>5, WantsOwn
    <3> QED BY <3>1, <1>0, ManyKind DEF Values, ValueOf
  <2>8. ValueOf(s)'
    <3>1. Fresh(s)' = Fresh(s) /\ (Many(s)' <=> Many(s))
      BY DEF Fresh, Many
    <3> QED BY <3>1, <1>0, <1>1, <2>3, <2>7 DEF ValueOf
  <2>9. ASSUME NEW x \in Sets, x # s PROVE ValueOf(x)'
    <3>1. ValueOf(x) /\ (slot[x].cow => Master[x] \in Sets /\ Master[x] # s)
      BY <1>0, OfCow DEF Values
    <3> QED BY <3>1, <1>1, <2>4, <2>6, <2>9, ValueFrame
  <2>10. ASSUME NEW w \in Views PROVE PteOf(w)'
    <3>1. PteOf(w) /\ Of[w] \in Sets
      BY Statics DEF Values
    <3>2. pte[w].v /\ Current(w) =>
            /\ slot'[Of[w]].pfn = slot[Of[w]].pfn /\ slot'[Of[w]].cow = slot[Of[w]].cow
            /\ \A u \in Users : Pc(u) = "linked" /\ NewView(u) = w => Pc(u)' = "linked"
      <4>1. pte[w].v /\ Current(w) => Of[w] # s
        BY <1>0, CurrentValid
      <4>2. \A u \in Users : Pc(u) = "linked" => Pc(u)' = "linked"
        BY <1>0, <2>2 DEF Pc
      <4> QED BY <4>1, <4>2, <2>4, <3>1
    <3>3. Stale(w) => /\ slot'[Master[Of[w]]].v
                      /\ slot'[Master[Of[w]]].pfn = slot[Master[Of[w]]].pfn
      BY <3>1, <2>4, <1>0, Statics DEF Stale
    <3>4. Stale(w) => \E u \in Users : ViewOf[u] = w /\ Pc(u)' \in Counted
      BY <2>2, <2>5 DEF Stale, Pc
    <3> QED BY <3>1, <3>2, <3>3, <3>4, <1>1, PteFrame
  <2>11. ASSUME NEW u \in Users, Pc(u)' = "read" PROVE Kind[thr'[u].on] = "FILE"
    BY <2>2, <2>11 DEF Values, Pc
  <2> QED BY <2>8, <2>9, <2>10, <2>11 DEF Values
<1>3. CASE ~slot[m].v
  <2>1. slot' = slot /\ thr' = [thr EXCEPT ![t].pc = "alloc", ![t].on = m]
    BY <1>3, Zenon DEF LockMaster
  <2>2. Pc(t)' = "alloc" /\ \A u \in Users : u # t => thr'[u] = thr[u]
    BY <1>0, <2>1 DEF Types, ThrType, Pc
  <2>3. Stays(t) /\ Pc(t) \notin Counted
    BY <1>0 DEF Stays, Counted
  <2> QED BY <1>0, <1>1, <2>1, <2>2, <2>3, Quiet
<1> QED BY <1>2, <1>3
-----------------------------------------------------------------------------
(* A slot gets its page.                                                 *)

\* A page in the hands of a thread is in no slot.
LEMMA MemTaken ==
  ASSUME Inv, NEW t \in Users, thr[t].pg \in Frames, NEW c, mem' = [mem EXCEPT ![thr[t].pg] = c]
  PROVE  /\ mem'[thr[t].pg] = c
         /\ \A x \in Sets : slot[x].v /\ ~slot[x].cow => mem'[slot[x].pfn] = mem[slot[x].pfn]
<1>1. mem'[thr[t].pg] = c /\ \A g \in Frames : g # thr[t].pg => mem'[g] = mem[g]
  BY DEF Inv, Data
<1>2. ASSUME NEW x \in Sets, slot[x].v, ~slot[x].cow PROVE mem'[slot[x].pfn] = mem[slot[x].pfn]
  <2>1. slot[x].pfn \in Frames
    BY <1>2 DEF Inv, ShapeOK, ShapeOf
  <2>2. HasFrame(x, slot[x].pfn)
    BY <1>2 DEF HasFrame
  <2>3. slot[x].pfn # thr[t].pg
    BY <2>1, <2>2 DEF Inv, FramesOK
  <2> QED BY <1>1, <2>1, <2>3
<1> QED BY <1>1, <1>2

\* A slot is filled with the first contents of its set: nothing was stored
\* yet, or somebody would have kept the page.
LEMMA FilledValues ==
  ASSUME Inv, Values, NEW t \in Users, Pc(t) \in {"core", "read"}, Filled(t, thr[t].on),
         latest' = latest, UNCHANGED mapVars,
         mem' = [mem EXCEPT ![thr[t].pg] = Fresh(thr[t].on)]
  PROVE  Values'
<1>a. thr[t].on = FillSet(SetOf(t)) /\ thr[t].on \in Sets
  BY Statics DEF Inv, LocksOK, LockOf, Filling
<1>b. PICK x \in Sets : x = thr[t].on
  BY <1>a
<1> DEFINE s == SetOf(t)
           f == thr[t].pg
           file == Kind[x] = "FILE"
           p == [slot[x] EXCEPT !.v = TRUE, !.m = FALSE, !.pfn = f,
                                !.refs = IF file THEN 2 ELSE 1,
                                !.atl = IF file THEN @ \cup {Cache} ELSE @]
<1>0. /\ thr[t] \in ThrType /\ Types /\ s \in Sets /\ slot[s] \in SlotType /\ ThreadsOK /\ ViewsOK /\ ShapeOK
      /\ Alive(t) /\ Stays(t) /\ Pc(t) \notin Counted /\ f \in Frames /\ Kind[s] # "FILE"
      /\ x \in Sets /\ x = FillSet(s) /\ ~slot[s].v /\ ~slot[x].v /\ slot[x] \in SlotType
      /\ ~slot[x].cow /\ ~slot[s].cow
  <2>1. Alive(t) /\ s \in Sets /\ WorkOf(t) /\ LockOf(t) /\ Types /\ Kind[s] # "FILE" /\ ShapeOK
    BY Statics DEF Inv, Alive, WorkOK, LocksOK
  <2>2. Stays(t) /\ Pc(t) \notin Counted /\ Filling(t)
    BY DEF Stays, Counted, Filling
  <2>3. f \in Frames /\ x = FillSet(s) /\ ~slot[s].v /\ ~slot[x].v
    BY <2>1, <2>2, <1>a, <1>b DEF WorkOf, LockOf, WithPage
  <2>4. ~slot[x].cow /\ ~slot[s].cow
    BY <2>1, <2>3 DEF ShapeOK, ShapeOf
  <2> QED BY <2>1, <2>2, <2>3, <2>4, RecordTypes DEF Inv
<1>1. /\ slot' = IF file THEN [slot EXCEPT ![x] = p, ![s] = Shared(@, p.pfn)]
                         ELSE [slot EXCEPT ![x] = p]
      /\ thr' = [thr EXCEPT ![t].pc = "got", ![t].pg = None, ![t].on = None]
  BY <1>b DEF Filled
<1>2. Pc(t)' = "got" /\ \A u \in Users : u # t => thr'[u] = thr[u]
  BY <1>0, <1>1 DEF Types, ThrType, Pc
<1>p. p.v /\ p.cow = FALSE /\ p.pfn = f
  BY <1>0 DEF SlotType
<1>k. file => x = Master[s] /\ Kind[s] = "COW" /\ x # s
  BY <1>0 DEF FillSet
<1>n. ~file => x = s
  BY <1>0, Statics DEF FillSet
<1>3. /\ slot'[x].v /\ slot'[x].cow = FALSE /\ slot'[x].pfn = f
      /\ file => slot'[s].v /\ slot'[s].cow /\ slot'[s].pfn = f
      /\ \A y \in Sets : y # s /\ y # x => slot'[y] = slot[y]
  <2> HIDE DEF p
  <2>1. CASE file
    <3>1. slot' = [slot EXCEPT ![x] = p, ![s] = Shared(@, f)]
      BY <2>1, <1>1, <1>p
    <3>2. slot'[x] = p /\ slot'[s] = Shared(slot[s], f) /\ \A y \in Sets : y # s /\ y # x => slot'[y] = slot[y]
      BY <3>1, <2>1, <1>0, <1>k DEF Types
    <3> QED BY <3>2, <1>0, <1>p DEF Shared, SlotType
  <2>2. CASE ~file
    BY <2>2, <1>0, <1>1, <1>p DEF Types
  <2> QED BY <2>1, <2>2
<1>4. pvalid' = pvalid /\ pte' = pte
  BY DEF mapVars
<1>5. mem'[f] = Fresh(x) /\ \A y \in Sets : slot[y].v /\ ~slot[y].cow => mem'[slot[y].pfn] = mem[slot[y].pfn]
  BY <1>0, <1>b, MemTaken
<1>6. \A y \in Sets : Wanted(y)' => Wanted(y)
  BY <1>0, <1>2, WantedFrame DEF Stays
<1>7. latest[x] = Fresh(x) /\ latest[s] = Fresh(s)
  <2>1. ValueOf(s) /\ ValueOf(x) /\ Wanted(s)
    BY <1>0, WantsOwn DEF Values
  <2> QED BY <2>1, <1>0, <1>n DEF ValueOf
<1>8. ValueOf(x)'
  <2>1. Fresh(x)' = Fresh(x)
    BY DEF Fresh
  <2> QED BY <2>1, <1>3, <1>5, <1>7 DEF ValueOf
<1>9. file => ValueOf(s)'
  <2>1. Fresh(s)' = Fresh(s)
    BY DEF Fresh
  <2> QED BY <2>1, <1>0, <1>k, <1>3, <1>7 DEF ValueOf
<1>10. ASSUME NEW y \in Sets, y # s, y # x PROVE ValueOf(y)'
  <2>1. ValueOf(y) /\ slot'[y] = slot[y]
    BY <1>3, <1>10 DEF Values
  <2>2. slot[y].cow => slot'[Master[y]].pfn = slot[Master[y]].pfn
    <3>1. slot[y].cow => Master[y] \in Sets /\ slot[Master[y]].v
      BY OfCow
    <3> QED BY <3>1, <1>0, <1>3
  <2> QED BY <2>1, <2>2, <1>4, <1>5, <1>6, ValueFrame
<1>11. ASSUME NEW w \in Views PROVE PteOf(w)'
  <2>1. PteOf(w) /\ Of[w] \in Sets /\ Kind[Of[w]] # "FILE"
    BY Statics DEF Values
  <2>2. pte[w].v /\ Current(w) =>
          /\ slot'[Of[w]].pfn = slot[Of[w]].pfn /\ slot'[Of[w]].cow = slot[Of[w]].cow
          /\ \A u \in Users : Pc(u) = "linked" /\ NewView(u) = w => Pc(u)' = "linked"
    <3>1. pte[w].v /\ Current(w) => Of[w] # s /\ Of[w] # x
      BY <1>0, CurrentValid
    <3>2. \A u \in Users : Pc(u) = "linked" => Pc(u)' = "linked"
      BY <1>2 DEF Pc
    <3> QED BY <3>1, <3>2, <2>1, <1>3
  <2>3. Stale(w) => /\ slot'[Master[Of[w]]].v
                    /\ slot'[Master[Of[w]]].pfn = slot[Master[Of[w]]].pfn
    <3>1. Stale(w) => Master[Of[w]] \in Sets /\ Master[Of[w]] # s /\ Master[Of[w]] # x
      BY <2>1, <1>0, Statics DEF Stale
    <3> QED BY <3>1, <1>3 DEF Stale
  <2>4. Stale(w) => \E u \in Users : ViewOf[u] = w /\ Pc(u)' \in Counted
    BY <1>0, <1>2 DEF Stale, Pc
  <2> QED BY <2>1, <2>2, <2>3, <2>4, <1>4, PteFrame
<1>12. ASSUME NEW u \in Users, Pc(u)' = "read" PROVE Kind[thr'[u].on] = "FILE"
  BY <1>2, <1>12 DEF Values, Pc
<1> QED BY <1>8, <1>9, <1>10, <1>11, <1>12, <1>n DEF Values

LEMMA SetCoreValues ==
  ASSUME Inv, Values, NEW t \in Users, SetCore(t)
  PROVE  Values'
<1> DEFINE x == thr[t].on
           f == thr[t].pg
<1>0. /\ thr[t] \in ThrType /\ Types /\ Pc(t) = "core" /\ x \in Sets /\ ~slot[x].swapped
      /\ Stays(t) /\ Pc(t) \notin Counted
  <2>1. Pc(t) = "core" /\ LockOf(t)
    BY DEF Inv, LocksOK, SetCore
  <2>2. x \in Sets
    BY <2>1, Statics DEF LockOf, Filling
  <2> QED BY <2>1, <2>2, RecordTypes DEF Inv, ShapeOK, ShapeOf, Stays, Counted
<1>1. /\ latest' = latest /\ UNCHANGED mapVars
      /\ \/ Kind[x] = "ZERO" /\ Filled(t, x) /\ mem' = [mem EXCEPT ![f] = "zero"]
         \/ Kind[x] = "FILE" /\ Goes(t, "read") /\ UNCHANGED <<slot, mem>>
  BY <1>0, Zenon DEF SetCore
<1>2. CASE Kind[x] = "ZERO" /\ Filled(t, x) /\ mem' = [mem EXCEPT ![f] = "zero"]
  <2>1. Fresh(x) = "zero"
    BY <1>2 DEF Fresh
  <2> QED BY <2>1, <1>0, <1>1, <1>2, FilledValues
<1>3. CASE Kind[x] = "FILE" /\ Goes(t, "read") /\ UNCHANGED <<slot, mem>>
  <2>1. Pc(t)' = "read" /\ thr'[t].on = x /\ \A u \in Users : u # t => thr'[u] = thr[u]
    BY <1>0, <1>3 DEF Types, ThrType, Pc, Goes
  <2>2. latest' = latest /\ pte' = pte /\ pvalid' = pvalid
    BY <1>1 DEF mapVars
  <2> QED BY <1>0, <1>3, <2>1, <2>2, Quiet
<1> QED BY <1>1, <1>2, <1>3

LEMMA PageInValues ==
  ASSUME Inv, Values, NEW t \in Users, PageIn(t)
  PROVE  Values'
<1> DEFINE x == thr[t].on
           f == thr[t].pg
<1>0. Pc(t) = "read"
  BY DEF PageIn
<1>1. Kind[x] = "FILE" /\ Fresh(x) = "file"
  BY <1>0 DEF Values, Fresh
<1>2. /\ latest' = latest /\ UNCHANGED mapVars /\ Filled(t, x)
      /\ mem' = [mem EXCEPT ![f] = "file"]
  BY <1>1, Zenon DEF PageIn
<1> QED BY <1>0, <1>1, <1>2, FilledValues
-----------------------------------------------------------------------------
(* A view gets its translation.                                          *)

\* A step that works on one set, and not a file.
LEMMA OneSet ==
  ASSUME Inv, Values, NEW t \in Users, \A u \in Users : u # t => thr'[u] = thr[u],
         NEW s \in Sets, Kind[s] # "FILE",
         \A x \in Sets : x # s => /\ slot'[x].v = slot[x].v /\ slot'[x].cow = slot[x].cow
                                  /\ slot'[x].pfn = slot[x].pfn /\ slot'[x].m = slot[x].m
                                  /\ latest'[x] = latest[x]
                                  /\ Wanted(x)' => Wanted(x),
         \A x \in Sets : x # s /\ slot[x].v /\ ~slot[x].cow => mem'[slot[x].pfn] = mem[slot[x].pfn],
         \A w \in Views : Of[w] # s => pte'[w] = pte[w] /\ pvalid'[w] = pvalid[w],
         Pc(t) = "linked" => Pc(t)' = "linked",
         Pc(t) \in Counted => Pc(t)' \in Counted \/ SetOf(t) = s,
         Pc(t)' # "read",
         ValueOf(s)', \A w \in Views : Of[w] = s => PteOf(w)'
  PROVE  Values'
<1>1. ASSUME NEW x \in Sets, x # s PROVE ValueOf(x)'
  <2>1. ValueOf(x) /\ (slot[x].cow => Master[x] \in Sets /\ Master[x] # s)
    BY OfCow DEF Values
  <2>2. \A w \in Views : Of[w] = x /\ pvalid[w] /\ pte[w].m /\ Many(x) => pvalid'[w] /\ pte'[w].m
    BY <1>1
  <2>3. /\ latest'[x] = latest[x] /\ slot'[x].v = slot[x].v /\ slot'[x].cow = slot[x].cow
        /\ slot'[x].pfn = slot[x].pfn /\ (slot[x].m => slot'[x].m) /\ (Wanted(x)' => Wanted(x))
        /\ slot[x].v /\ ~slot[x].cow => mem'[slot[x].pfn] = mem[slot[x].pfn]
        /\ slot[x].cow => slot'[Master[x]].pfn = slot[Master[x]].pfn
    BY <1>1, <2>1
  <2> QED BY <2>1, <2>2, <2>3, ValueFrame
<1>2. ASSUME NEW w \in Views, Of[w] # s PROVE PteOf(w)'
  <2>1. PteOf(w) /\ Of[w] \in Sets /\ pte'[w] = pte[w] /\ pvalid'[w] = pvalid[w]
    BY <1>2, Statics DEF Values
  <2>2. /\ slot'[Of[w]].pfn = slot[Of[w]].pfn /\ slot'[Of[w]].cow = slot[Of[w]].cow
        /\ \A u \in Users : Pc(u) = "linked" /\ NewView(u) = w => Pc(u)' = "linked"
    BY <1>2, <2>1 DEF Pc
  <2>3. Stale(w) => Master[Of[w]] \in Sets /\ Master[Of[w]] # s
    BY <2>1, Statics DEF Stale
  <2>4. Stale(w) => /\ slot'[Master[Of[w]]].v
                    /\ slot'[Master[Of[w]]].pfn = slot[Master[Of[w]]].pfn
                    /\ latest'[Of[w]] = latest[Of[w]]
    BY <2>1, <2>3, <1>2 DEF Stale
  <2>5. Stale(w) => \E u \in Users : ViewOf[u] = w /\ Pc(u)' \in Counted
    <3> SUFFICES ASSUME Stale(w) PROVE \E u \in Users : ViewOf[u] = w /\ Pc(u)' \in Counted
      OBVIOUS
    <3>1. PICK u \in Users : ViewOf[u] = w /\ Pc(u) \in Counted
      BY DEF Stale
    <3>2. SetOf(u) # s
      BY <3>1, <1>2, Statics
    <3> QED BY <3>1, <3>2 DEF Pc
  <2> QED BY <2>1, <2>2, <2>4, <2>5, PteFrame
<1>3. ASSUME NEW u \in Users, Pc(u)' = "read" PROVE Kind[thr'[u].on] = "FILE"
  BY <1>3 DEF Values, Pc
<1> QED BY <1>1, <1>2, <1>3 DEF Values

\* A slot that is valid loses only a reference.
LEMMA MapValues ==
  ASSUME Inv, Inv', Values, NEW t \in Users, Map(t)
  PROVE  Values'
<1> DEFINE s == SetOf(t)
           v == ViewOf[t]
           p == slot[s]
           q == DerefSlot(s, p)
<1>0. /\ thr[t] \in ThrType /\ Types /\ s \in Sets /\ p \in SlotType /\ ThreadsOK /\ ViewsOK /\ ShapeOK
      /\ Pc(t) = "got" /\ Alive(t) /\ p.v /\ Of[v] = s /\ v \in Views /\ Kind[s] # "FILE"
      /\ pte[v] \in PteType /\ Stays(t)
  <2>1. Pc(t) = "got" /\ Alive(t) /\ s \in Sets /\ WorkOf(t) /\ Stays(t)
    BY Statics DEF Inv, Map, Alive, WorkOK, Stays
  <2> QED BY <2>1, Statics, RecordTypes DEF Inv, WorkOf
<1>1. /\ thr' = [thr EXCEPT ![t] = At("user")] /\ latest' = latest
      /\ IF pvalid[v]
         THEN slot' = [slot EXCEPT ![s] = q] /\ FreePages(Lost(p, q)) /\ UNCHANGED mapVars
         ELSE /\ slot' = [slot EXCEPT ![s].atl = @ \cup {v}]
              /\ pte' = [pte EXCEPT ![v] = [v |-> TRUE, ro |-> ProtRO(v, p), m |-> FALSE, pfn |-> p.pfn]]
              /\ pvalid' = [pvalid EXCEPT ![v] = TRUE]
              /\ UNCHANGED mem
  BY Zenon DEF Map, Back
<1>2. Pc(t)' = "user" /\ \A u \in Users : u # t => thr'[u] = thr[u]
  BY <1>0, <1>1 DEF Types, At, Pc
<1>3. Stays(t)' /\ Pc(t) # "linked" /\ Pc(t)' # "read"
  BY <1>0, <1>2 DEF Stays
<1>4. \A x \in Sets : Wanted(x)' => Wanted(x)
  BY <1>0, <1>2, <1>3, WantedFrame
<1>5. CASE pvalid[v]
  <2>1. slot' = [slot EXCEPT ![s] = q] /\ FreePages(Lost(p, q)) /\ pvalid' = pvalid /\ pte' = pte
    BY <1>1, <1>5 DEF mapVars
  <2>2. slot'[s].v
    <3>1. v \in slot'[s].atl
      BY <1>0, <1>5, <2>1 DEF Inv, ViewsOK, ValidOf
    <3> QED BY <1>0, <3>1 DEF Inv, ShapeOK, ShapeOf
  <2>3. q.v /\ q.cow = p.cow /\ q.pfn = p.pfn /\ q.m = p.m
    <3>1. slot'[s] = q
      BY <2>1, <1>0 DEF Types
    <3>2. q.v
      BY <3>1, <2>2
    <3> QED BY <3>2, <1>0 DEF DerefSlot, LastRef, SlotType
  <2> HIDE DEF q
  <2>4. mem' = mem
    <3>1. Lost(p, q) = {}
      BY <2>3 DEF Lost
    <3> QED BY <3>1, <2>1 DEF FreePages, Inv, Data
  <2>5. \A x \in Sets : /\ slot'[x].v = slot[x].v /\ slot'[x].cow = slot[x].cow
                        /\ slot'[x].pfn = slot[x].pfn /\ slot'[x].m = slot[x].m
    BY <1>0, <2>1, <2>3 DEF Types, SlotType
  <2>6. \A w \in Views : Stale(w) => \E u \in Users : ViewOf[u] = w /\ Pc(u)' \in Counted
    <3> SUFFICES ASSUME NEW w \in Views, Stale(w) PROVE \E u \in Users : ViewOf[u] = w /\ Pc(u)' \in Counted
      OBVIOUS
    <3>1. PICK u \in Users : ViewOf[u] = w /\ Pc(u) \in Counted
      BY DEF Stale
    <3>2. w # v
      BY <1>5 DEF Stale
    <3> QED BY <3>1, <3>2, <1>2 DEF Pc
  <2>7. ASSUME NEW w \in Views PROVE PteOf(w)'
    <3>1. PteOf(w) /\ Of[w] \in Sets
      BY Statics DEF Values
    <3>2. /\ slot'[Of[w]].pfn = slot[Of[w]].pfn /\ slot'[Of[w]].cow = slot[Of[w]].cow
          /\ \A u \in Users : Pc(u) = "linked" /\ NewView(u) = w => Pc(u)' = "linked"
      BY <3>1, <2>5, <1>2, <1>3 DEF Pc
    <3>3. Stale(w) => Master[Of[w]] \in Sets
      BY <3>1, Statics DEF Stale
    <3>4. Stale(w) => /\ slot'[Master[Of[w]]].v
                      /\ slot'[Master[Of[w]]].pfn = slot[Master[Of[w]]].pfn
      BY <3>3, <2>5 DEF Stale
    <3> QED BY <3>1, <3>2, <3>4, <2>6, <2>1, <1>1, PteFrame
  <2>8. ASSUME NEW x \in Sets PROVE ValueOf(x)'
    <3>1. ValueOf(x) /\ (slot[x].cow => Master[x] \in Sets)
      BY OfCow DEF Values
    <3> QED BY <3>1, <2>1, <2>4, <2>5, <1>1, <1>4, ValueFrame
  <2>9. ASSUME NEW u \in Users, Pc(u)' = "read" PROVE Kind[thr'[u].on] = "FILE"
    BY <1>2, <1>3, <2>9 DEF Values, Pc
  <2> QED BY <2>7, <2>8, <2>9 DEF Values
<1>6. CASE ~pvalid[v]
  <2>1. /\ slot' = [slot EXCEPT ![s].atl = @ \cup {v}]
        /\ pte' = [pte EXCEPT ![v] = [v |-> TRUE, ro |-> ProtRO(v, p), m |-> FALSE, pfn |-> p.pfn]]
        /\ pvalid' = [pvalid EXCEPT ![v] = TRUE] /\ mem' = mem
    BY <1>1, <1>6
  <2>2. \A x \in Sets : /\ slot'[x].v = slot[x].v /\ slot'[x].cow = slot[x].cow
                        /\ slot'[x].pfn = slot[x].pfn /\ slot'[x].m = slot[x].m
    BY <1>0, <2>1 DEF Types, SlotType
  <2>3. /\ \A w \in Views : w # v => pte'[w] = pte[w] /\ pvalid'[w] = pvalid[w]
        /\ pvalid'[v] /\ pte'[v].pfn = p.pfn /\ pte'[v].ro = ProtRO(v, p)
    BY <1>0, <2>1 DEF Types
  <2>4. PteOf(v)'
    <3>1. slot'[Of[v]].pfn = p.pfn /\ (slot'[Of[v]].cow => pte'[v].ro)
      BY <1>0, <2>2, <2>3 DEF ProtRO
    <3> QED BY <3>1, <2>3 DEF PteOf, Current
  <2>5. ASSUME NEW w \in Views, Of[w] = s, w # v PROVE PteOf(w)'
    <3>1. PteOf(w) /\ pte'[w] = pte[w] /\ pvalid'[w] = pvalid[w] /\ ~Stale(w)
      BY <1>0, <2>3, <2>5, Statics DEF Values, Stale
    <3>2. /\ slot'[Of[w]].pfn = slot[Of[w]].pfn /\ slot'[Of[w]].cow = slot[Of[w]].cow
          /\ \A u \in Users : Pc(u) = "linked" /\ NewView(u) = w => Pc(u)' = "linked"
      BY <1>0, <2>5, <2>2, <1>2, <1>3 DEF Pc
    <3> QED BY <3>1, <3>2, PteFrame
  <2>6. ValueOf(s)'
    <3>1. ValueOf(s) /\ (slot[s].cow => Master[s] \in Sets)
      BY <1>0, OfCow DEF Values
    <3>2. \A w \in Views : Of[w] = s /\ pvalid[w] /\ pte[w].m /\ Many(s) => pvalid'[w] /\ pte'[w].m
      BY <1>6, <2>3
    <3> QED BY <3>1, <3>2, <2>1, <2>2, <1>0, <1>1, <1>4, ValueFrame
  <2>7. \A w \in Views : Of[w] = s => PteOf(w)'
    BY <2>4, <2>5
  <2>8. \A w \in Views : Of[w] # s => pte'[w] = pte[w] /\ pvalid'[w] = pvalid[w]
    BY <1>0, <2>3
  <2>9. \A x \in Sets : x # s /\ slot[x].v /\ ~slot[x].cow => mem'[slot[x].pfn] = mem[slot[x].pfn]
    BY <2>1
  <2>10. \A x \in Sets : latest'[x] = latest[x]
    BY <1>1
  <2> QED BY <1>0, <1>2, <1>3, <1>4, <2>2, <2>6, <2>7, <2>8, <2>9, <2>10, OneSet
<1> QED BY <1>5, <1>6
-----------------------------------------------------------------------------
(* A COW page is left.                                                   *)

\* A translation to a page that is to be copied is left, and is to the page of
\* the master.
LEMMA BreakCowValues ==
  ASSUME Inv, Values, NEW t \in Users, BreakCow(t), panic' = panic
  PROVE  Values'
<1> DEFINE s == SetOf(t)
           v == ViewOf[t]
           m == Master[s]
<1>0. /\ thr[t] \in ThrType /\ Types /\ s \in Sets /\ slot[s] \in SlotType /\ ThreadsOK
      /\ Pc(t) = "got" /\ Alive(t) /\ Of[v] = s /\ v \in Views /\ Kind[s] = "COW" /\ slot[s].cow
      /\ m \in Sets /\ m # s /\ slot[m].v /\ Stays(t) /\ (~thr[t].was => ~pvalid[v]) /\ SetOf(t) = s
  <2>1. Pc(t) = "got" /\ Alive(t) /\ s \in Sets /\ WorkOf(t) /\ slot[s].cow /\ Stays(t)
    BY Statics DEF Inv, BreakCow, BreaksCow, Alive, WorkOK, Stays
  <2>2. Kind[s] = "COW" /\ m \in Sets /\ m # s /\ slot[m].v
    BY <2>1, OfCow
  <2> QED BY <2>1, <2>2, Statics, RecordTypes DEF Inv, WorkOf
<1>1. /\ slot' = [slot EXCEPT ![s] = IF thr[t].was THEN [slot[s] EXCEPT !.refs = @ - 1,
                                                       !.atl = IF pvalid[v] THEN @ \ {v} ELSE @]
                                                  ELSE slot[s]]
      /\ pvalid' = IF thr[t].was THEN [pvalid EXCEPT ![v] = FALSE] ELSE pvalid
      /\ thr' = [thr EXCEPT ![t].pc = "calloc"]
      /\ UNCHANGED <<latest, pte, mem>>
  <2>1. ~Panics
    BY DEF Panics, Inv
  <2> QED BY <2>1, Zenon DEF BreakCow, Goes, dataVars
<1>2. Pc(t)' = "calloc" /\ \A u \in Users : u # t => thr'[u] = thr[u]
  BY <1>0, <1>1 DEF Types, ThrType, Pc
<1>3. Stays(t)' /\ Pc(t) # "linked" /\ Pc(t)' # "read" /\ Pc(t)' \in Counted
  BY <1>0, <1>2 DEF Stays, Counted
<1>4. \A x \in Sets : Wanted(x)' => Wanted(x)
  BY <1>0, <1>2, <1>3, WantedFrame
<1>5. \A x \in Sets : /\ slot'[x].v = slot[x].v /\ slot'[x].cow = slot[x].cow
                      /\ slot'[x].pfn = slot[x].pfn /\ slot'[x].m = slot[x].m
  BY <1>0, <1>1 DEF Types, SlotType
<1>6. ~Many(s) /\ ValueOf(s)
  BY <1>0, ManyKind DEF Values
<1>7. ValueOf(s)'
  BY <1>0, <1>1, <1>4, <1>5, <1>6, ValueFrame
<1>8. \A w \in Views : Of[w] # s => pte'[w] = pte[w] /\ pvalid'[w] = pvalid[w]
  BY <1>0, <1>1 DEF Types
<1>9. PteOf(v)'
  <2> SUFFICES ASSUME pte[v].v PROVE Stale(v)'
    BY <1>1 DEF PteOf
  <2>1. Fresh(s)' = Fresh(s) /\ ViewOf[t] = v
    BY DEF Fresh
  <2>2. ~pvalid'[v]
    BY <1>0, <1>1 DEF Types
  <2>3. pte[v].ro /\ pte[v].pfn = slot[m].pfn /\ latest[s] = Fresh(s)
    <3>1. CASE Current(v)
      BY <3>1, <1>0, <1>6 DEF Current, ValueOf
    <3>2. CASE Stale(v)
      BY <3>2, <1>0 DEF Stale
    <3>3. PteOf(v)
      BY <1>0 DEF Values
    <3> QED BY <3>1, <3>2, <3>3 DEF PteOf
  <2>4. /\ Kind[Of[v]] = "COW" /\ slot'[Master[Of[v]]].v /\ slot'[Master[Of[v]]].pfn = slot[m].pfn
    BY <1>0, <1>5
  <2> QED BY <1>0, <1>1, <1>3, <2>1, <2>2, <2>3, <2>4 DEF Stale
<1>10. \A w \in Views : Of[w] = s => PteOf(w)'
  <2>1. \A w \in Views : Of[w] = s => w = v
    BY <1>0, Statics
  <2> QED BY <1>9, <2>1
<1>11. \A x \in Sets : x # s /\ slot[x].v /\ ~slot[x].cow => mem'[slot[x].pfn] = mem[slot[x].pfn]
  BY <1>1
<1>12. \A x \in Sets : latest'[x] = latest[x]
  BY <1>1
<1> QED BY <1>0, <1>2, <1>3, <1>4, <1>5, <1>7, <1>8, <1>10, <1>11, <1>12, OneSet

\* The copy has what the master has, for nothing was stored in the set yet.
LEMMA CowWriteValues ==
  ASSUME Inv, Values, NEW t \in Users, CowWrite(t), panic' = panic
  PROVE  Values'
<1>a. thr[t].pg \in Frames
  BY DEF Inv, LocksOK, LockOf, WithPage, CowWrite
<1>b. PICK f \in Frames : f = thr[t].pg
  BY <1>a
<1> DEFINE s == SetOf(t)
           v == ViewOf[t]
           m == Master[s]
<1>0. /\ thr[t] \in ThrType /\ Types /\ s \in Sets /\ slot[s] \in SlotType /\ ThreadsOK
      /\ Pc(t) = "ccore" /\ Alive(t) /\ Of[v] = s /\ v \in Views /\ Kind[s] = "COW" /\ slot[s].cow
      /\ m \in Sets /\ m # s /\ slot[m].v /\ ~slot[m].cow /\ slot[m] \in SlotType /\ Kind[m] = "FILE"
      /\ Stays(t) /\ ~pvalid[v] /\ slot[s].v
  <2>1. Pc(t) = "ccore" /\ Alive(t) /\ s \in Sets /\ WorkOf(t) /\ Stays(t)
    BY Statics DEF Inv, CowWrite, Alive, WorkOK, Stays
  <2>2. slot[s].cow /\ ~pvalid[v] /\ slot[s].v
    BY <2>1 DEF WorkOf
  <2>3. Kind[s] = "COW" /\ m \in Sets /\ m # s /\ slot[m].v /\ Kind[m] = "FILE"
    BY <2>1, <2>2, OfCow
  <2>4. ~slot[m].cow
    BY <2>3 DEF Inv, ShapeOK, ShapeOf
  <2> QED BY <2>1, <2>2, <2>3, <2>4, Statics, RecordTypes DEF Inv
<1>1. /\ slot' = [slot EXCEPT ![m] = [slot[m] EXCEPT !.refs = @ - 1], ![s].cow = FALSE, ![s].pfn = f]
      /\ mem' = [g \in Frames |-> IF g = f THEN mem[slot[m].pfn] ELSE mem[g]]
      /\ thr' = [thr EXCEPT ![t].pc = "got", ![t].was = FALSE, ![t].pg = None]
      /\ UNCHANGED <<latest, pvalid, pte>>
  <2>1. ~Panics
    BY DEF Panics, Inv
  <2>2. DerefSlot(m, slot[m]) = [slot[m] EXCEPT !.refs = @ - 1] /\ Lost(slot[m], DerefSlot(m, slot[m])) = {}
    BY <1>0, MasterKept
  <2>3. /\ slot' = [slot EXCEPT ![m] = DerefSlot(m, slot[m]), ![s].cow = FALSE, ![s].pfn = f]
        /\ mem' = [g \in Frames |-> IF g = f THEN mem[slot[m].pfn]
                                    ELSE IF g \in Lost(slot[m], DerefSlot(m, slot[m])) THEN "junk" ELSE mem[g]]
        /\ thr' = [thr EXCEPT ![t].pc = "got", ![t].was = FALSE, ![t].pg = None]
        /\ UNCHANGED <<latest, pvalid, pte>>
    BY <1>b, <2>1, Zenon DEF CowWrite, mapVars
  <2>4. mem' = [g \in Frames |-> IF g = f THEN mem[slot[m].pfn] ELSE mem[g]]
    BY <2>2, <2>3
  <2> QED BY <2>2, <2>3, <2>4
<1>2. Pc(t)' = "got" /\ \A u \in Users : u # t => thr'[u] = thr[u]
  BY <1>0, <1>1 DEF Types, ThrType, Pc
<1>3. Stays(t)' /\ Pc(t) # "linked" /\ Pc(t)' # "read" /\ Pc(t)' \in Counted
  BY <1>0, <1>2 DEF Stays, Counted
<1>4. \A x \in Sets : Wanted(x)' => Wanted(x)
  BY <1>0, <1>2, <1>3, WantedFrame
<1>5. /\ slot'[s].v /\ ~slot'[s].cow /\ slot'[s].pfn = f
      /\ \A x \in Sets : x # s => /\ slot'[x].v = slot[x].v /\ slot'[x].cow = slot[x].cow
                                  /\ slot'[x].pfn = slot[x].pfn /\ slot'[x].m = slot[x].m
  BY <1>0, <1>1 DEF Types, SlotType
<1>6. ~Many(s) /\ ValueOf(s) /\ ValueOf(m)
  BY <1>0, ManyKind DEF Values
<1>7. ValueOf(s)'
  <2>1. Fresh(s)' = Fresh(s) /\ (Many(s)' <=> Many(s))
    BY DEF Fresh, Many
  <2>2. Fresh(s) = Fresh(m)
    BY <1>0 DEF Fresh
  <2>3. mem'[f] = latest[s] /\ latest[s] = Fresh(s)
    BY <1>0, <1>1, <1>6, <2>2 DEF ValueOf
  <2> QED BY <1>0, <1>1, <1>5, <1>6, <2>1, <2>3 DEF ValueOf
<1>8. \A w \in Views : Of[w] # s => pte'[w] = pte[w] /\ pvalid'[w] = pvalid[w]
  BY <1>1
<1>9. PteOf(v)'
  <2>1. PteOf(v) /\ ~Current(v)
    BY <1>0, NotLinked DEF Values, Current
  <2>2. Stale(v) => slot'[Master[Of[v]]].v /\ slot'[Master[Of[v]]].pfn = slot[Master[Of[v]]].pfn
    BY <1>0, <1>5 DEF Stale
  <2>3. \E u \in Users : ViewOf[u] = v /\ Pc(u)' \in Counted
    BY <1>3
  <2>4. v \in Views /\ pte' = pte /\ pvalid' = pvalid /\ latest' = latest
    BY <1>0, <1>1
  <2> QED BY <2>1, <2>2, <2>3, <2>4, PteFrame
<1>10. \A w \in Views : Of[w] = s => PteOf(w)'
  <2>1. \A w \in Views : Of[w] = s => w = v
    BY <1>0, Statics
  <2> QED BY <1>9, <2>1
<1>11. \A x \in Sets : x # s /\ slot[x].v /\ ~slot[x].cow => mem'[slot[x].pfn] = mem[slot[x].pfn]
  <2> SUFFICES ASSUME NEW x \in Sets, x # s, slot[x].v, ~slot[x].cow PROVE mem'[slot[x].pfn] = mem[slot[x].pfn]
    OBVIOUS
  <2>1. slot[x].pfn \in Frames /\ HasFrame(x, slot[x].pfn)
    BY DEF Inv, ShapeOK, ShapeOf, HasFrame
  <2>2. slot[x].pfn # f
    BY <1>b, <2>1 DEF Inv, FramesOK
  <2> QED BY <2>1, <2>2, <1>1
<1>12. \A x \in Sets : latest'[x] = latest[x]
  BY <1>1
<1> QED BY <1>0, <1>2, <1>3, <1>4, <1>5, <1>7, <1>8, <1>10, <1>11, <1>12, OneSet
-----------------------------------------------------------------------------
(* A view is detached.                                                   *)

\* What detach_pview() does with the dirtiness of the view that leaves.
LEMMA LeftDirty ==
  ASSUME NEW p \in SlotType, NEW w \in Views, NEW d \in BOOLEAN, NEW s \in Sets, p.v
  PROVE  LET q == Left(s, p, w, d) IN
         /\ q.v => q.m = (p.m \/ d)
         /\ ~q.v => ~(prefs[s] > 0 /\ (p.m \/ d))
<1> DEFINE u == Unlisted(p, w, d)
<1>1. u \in SlotType /\ u.v /\ u.m = (p.m \/ d)
  <2>1. u \in SlotType /\ u.v = p.v
    BY UnlistedType
  <2> QED BY <2>1 DEF Unlisted, SlotType
<1> HIDE DEF u
<1>2. CASE u.cow /\ u.refs = 1
  <2>1. Left(s, p, w, d) = [u EXCEPT !.refs = 0]
    BY <1>2 DEF Left, u
  <2> QED BY <2>1, <1>1 DEF SlotType
<1>3. CASE ~(u.cow /\ u.refs = 1)
  <2>1. Left(s, p, w, d) = DerefSlot(s, u)
    BY <1>3 DEF Left, u
  <2> QED BY <2>1, <1>1 DEF DerefSlot, LastRef, SlotType
<1> QED BY <1>2, <1>3

\* A page that was stored in is given back only by the last view: while there
\* are others, the slot or their translations know that it is dirty.
LEMMA DetachValues ==
  ASSUME Inv, Inv', Values, NEW t \in Users, Detach(t), panic' = panic
  PROVE  Values'
<1> DEFINE s == SetOf(t)
           v == ViewOf[t]
           p == Unlisted(slot[s], v, pte[v].m)
           lastCow == p.cow /\ p.refs = 1
           q == Left(s, slot[s], v, pte[v].m)
<1>0. /\ thr[t] \in ThrType /\ s \in Sets /\ slot[s] \in SlotType /\ Types /\ ThreadsOK
      /\ Pc(t) = "dlock" /\ held[s] = None /\ Alive(t) /\ Leaving(t) /\ ~Stays(t)
      /\ v \in Views /\ Of[v] = s /\ Kind[s] # "FILE"
      /\ pvalid[v] /\ v \in slot[s].atl /\ slot[s].v /\ pte[v].m \in BOOLEAN
      /\ slot[s].cow => slot[s].atl = {v}
  <2>1. /\ thr[t] \in ThrType /\ s \in Sets /\ slot[s] \in SlotType /\ Types /\ ThreadsOK
        /\ Pc(t) = "dlock" /\ held[s] = None /\ Alive(t) /\ Leaving(t) /\ ~Stays(t) /\ WorkOf(t)
        /\ v \in Views /\ Of[v] = s /\ Kind[s] # "FILE"
    BY Statics, RecordTypes DEF Inv, Detach, Alive, WorkOK, Leaving, Stays
  <2>2. pvalid[v] /\ v \in slot[s].atl
    BY <2>1 DEF WorkOf, Inv, ViewsOK, ValidOf
  <2>3. slot[s].v /\ (slot[s].cow => slot[s].atl = {v})
    <3>1. slot[s].v
      BY <2>1, <2>2 DEF Inv, ShapeOK, ShapeOf
    <3> QED BY <3>1, <2>1, <2>2, OfCow, OfCowList
  <2>4. pte[v].m \in BOOLEAN
    BY <2>1, RecordTypes DEF PteType
  <2> QED BY <2>1, <2>2, <2>3, <2>4
<1>r. slot[s].refs = Cardinality(slot[s].atl) /\ IsFiniteSet(slot[s].atl)
  <2>1. Pend(s) = 0
    BY <1>0, HeldWork DEF Pend, Counted, Working
  <2>2. slot[s].refs = Cardinality(slot[s].atl) + Pend(s)
    BY <1>0, OfLiving
  <2>3. Cardinality(slot[s].atl) \in Nat /\ IsFiniteSet(slot[s].atl)
    BY <1>0, Finite
  <2> QED BY <2>1, <2>2, <2>3
<1>1. /\ slot' = [slot EXCEPT ![s] = q]
      /\ FreePages(Lost(p, q))
      /\ pte' = [pte EXCEPT ![v] = NoPte]
      /\ pvalid' = [pvalid EXCEPT ![v] = FALSE]
      /\ thr' = [thr EXCEPT ![t].pc = IF lastCow THEN "clast" ELSE "drop"]
      /\ latest' = latest
  <2>1. p = [slot[s] EXCEPT !.atl = @ \ {v}, !.m = @ \/ pte[v].m]
    BY DEF Unlisted
  <2>2. q = IF lastCow THEN [p EXCEPT !.refs = 0] ELSE DerefSlot(s, p)
    BY DEF Left
  <2> QED BY <2>1, <2>2, <1>0, Zenon DEF Detach, OffList, Goes
<1>3. q \in SlotType /\ q.cow = slot[s].cow /\ q.pfn = slot[s].pfn /\ (~q.v => ~slot[s].cow)
  <2>1. /\ slot[s] \in SlotType /\ v \in Views /\ pte[v].m \in BOOLEAN /\ s \in Sets /\ slot[s].v
        /\ v \in slot[s].atl /\ IsFiniteSet(slot[s].atl) /\ slot[s].refs = Cardinality(slot[s].atl)
        /\ slot[s].cow => slot[s].atl = {v}
    BY <1>0, <1>r
  <2> QED BY <2>1, SlotLeft
<1>4. /\ q.v => q.m = (slot[s].m \/ pte[v].m)
      /\ ~q.v => ~(slot[s].m \/ pte[v].m)
  <2>1. prefs[s] > 0
    <3>1. AttachedTo(s) # {} /\ IsFiniteSet(AttachedTo(s)) /\ prefs[s] = Cardinality(AttachedTo(s))
      BY <1>0, Lively, Finite DEF Inv, LifeOK, LifeOf
    <3> QED BY <3>1, FS_EmptySet, FS_CardinalityType
  <2> QED BY <2>1, <1>0, LeftDirty
<1> HIDE DEF q, p, lastCow
<1>2. /\ \A u \in Users : u # t => thr'[u] = thr[u]
      /\ Pc(t)' \in {"clast", "drop"}
  BY <1>0, <1>1 DEF Types, ThrType, Pc
<1>5. /\ slot'[s] = q /\ \A x \in Sets : x # s => slot'[x] = slot[x]
      /\ ~pvalid'[v] /\ ~pte'[v].v
      /\ \A w \in Views : w # v => pvalid'[w] = pvalid[w] /\ pte'[w] = pte[w]
  BY <1>0, <1>1 DEF Types, NoPte
<1>6. Pc(t) # "linked" /\ Pc(t)' # "read" /\ Pc(t) \notin Counted /\ ~Stays(t)' /\ Pc(t) \notin {"falloc", "fcore"}
  BY <1>0, <1>2 DEF Stays, Counted
<1>7. \A x \in Sets : Wanted(x)' => Wanted(x)
  BY <1>0, <1>2, <1>6, WantedFrame
<1>8. \A x \in Sets : slot'[x].v /\ ~slot'[x].cow => mem'[slot'[x].pfn] = mem[slot'[x].pfn]
  BY <1>1, MemKept DEF Inv
<1>9. ValueOf(s)'
  <2>0. ValueOf(s) /\ Fresh(s)' = Fresh(s) /\ (Many(s)' <=> Many(s))
    BY <1>0 DEF Values, Fresh, Many
  <2>1. slot'[s].v /\ ~slot'[s].cow => mem'[slot'[s].pfn] = latest'[s]
    BY <2>0, <1>0, <1>1, <1>3, <1>5, <1>8 DEF ValueOf
  <2>2. slot'[s].cow => latest'[s] = Fresh(s) /\ slot'[s].pfn = slot'[Master[s]].pfn
    <3>1. slot[s].cow => Master[s] \in Sets /\ Master[s] # s
      BY <1>0, OfCow
    <3> QED BY <3>1, <2>0, <1>1, <1>3, <1>5 DEF ValueOf
  <2>3. ~slot'[s].v /\ Wanted(s)' => latest'[s] = Fresh(s)
    <3> SUFFICES ASSUME ~q.v, Wanted(s)', latest[s] # Fresh(s) PROVE FALSE
      BY <1>1, <1>5
    <3>1. ~slot[s].m /\ ~pte[v].m
      BY <1>4
    <3>2. PICK u \in Users : SetOf(u) = s /\ Stays(u)'
      BY DEF Wanted, SetOf
    <3>3. u # t /\ Pc(u) # "dead"
      BY <3>2, <1>2, <1>6 DEF Stays, Pc
    <3>4. ViewOf[u] # v
      BY <3>3, <1>0 DEF ThreadsOK
    <3>5. Many(s)
      BY <3>2, <3>4, <1>0, Statics DEF Many
    <3>6. PICK w \in Views : Of[w] = s /\ pvalid[w] /\ pte[w].m
      BY <3>1, <3>5, <2>0, <1>0 DEF ValueOf
    <3>7. pvalid'[w]
      BY <3>1, <3>6, <1>5
    <3>8. w \in slot'[s].atl
      BY <3>6, <3>7 DEF Inv, ViewsOK, ValidOf
    <3>9. slot'[s].v
      BY <3>8, <1>0 DEF Inv, ShapeOK, ShapeOf
    <3> QED BY <3>9, <1>5
  <2>4. Many(s) /\ slot'[s].v /\ latest'[s] # Fresh(s) =>
          slot'[s].m \/ \E w \in Views : Of[w] = s /\ pvalid'[w] /\ pte'[w].m
    <3> SUFFICES ASSUME Many(s), q.v, latest[s] # Fresh(s), ~q.m
                 PROVE  \E w \in Views : Of[w] = s /\ pvalid'[w] /\ pte'[w].m
      BY <1>1, <1>5
    <3>1. ~slot[s].m /\ ~pte[v].m
      BY <1>4
    <3>2. PICK w \in Views : Of[w] = s /\ pvalid[w] /\ pte[w].m
      BY <3>1, <2>0, <1>0 DEF ValueOf
    <3> QED BY <3>1, <3>2, <1>5
  <2>5. latest'[s] \in {Fresh(s), s} /\ (Kind[s] = "FILE" => latest'[s] = Fresh(s))
    BY <2>0, <1>1 DEF ValueOf
  <2> QED BY <2>0, <2>1, <2>2, <2>3, <2>4, <2>5 DEF ValueOf
<1>10. \A w \in Views : Of[w] = s => PteOf(w)'
  <2> SUFFICES ASSUME NEW w \in Views, Of[w] = s PROVE PteOf(w)'
    OBVIOUS
  <2>1. CASE w = v
    BY <2>1, <1>5 DEF PteOf
  <2>2. CASE w # v
    <3>1. PteOf(w) /\ pte'[w] = pte[w] /\ pvalid'[w] = pvalid[w] /\ ~Stale(w)
      BY <2>2, <1>0, <1>5, Statics DEF Values, Stale
    <3>2. /\ slot'[Of[w]].pfn = slot[Of[w]].pfn /\ slot'[Of[w]].cow = slot[Of[w]].cow
          /\ \A u \in Users : Pc(u) = "linked" /\ NewView(u) = w => Pc(u)' = "linked"
      BY <1>2, <1>3, <1>5, <1>6 DEF Pc
    <3> QED BY <3>1, <3>2, PteFrame
  <2> QED BY <2>1, <2>2
<1>11. \A x \in Sets : x # s /\ slot[x].v /\ ~slot[x].cow => mem'[slot[x].pfn] = mem[slot[x].pfn]
  BY <1>5, <1>8
<1>12. \A w \in Views : Of[w] # s => pte'[w] = pte[w] /\ pvalid'[w] = pvalid[w]
  BY <1>0, <1>5
<1>13. \A x \in Sets : x # s => /\ slot'[x].v = slot[x].v /\ slot'[x].cow = slot[x].cow
                                /\ slot'[x].pfn = slot[x].pfn /\ slot'[x].m = slot[x].m
                                /\ latest'[x] = latest[x]
                                /\ Wanted(x)' => Wanted(x)
  BY <1>1, <1>5, <1>7
<1> QED BY <1>0, <1>2, <1>6, <1>9, <1>10, <1>11, <1>12, <1>13, OneSet

\* The slot of a COW set that nobody has any more.
LEMMA CowLastValues ==
  ASSUME Inv, Values, NEW t \in Users, CowLast(t)
  PROVE  Values'
<1> DEFINE s == SetOf(t)
           m == Master[s]
           v == ViewOf[t]
<1>0. /\ thr[t] \in ThrType /\ s \in Sets /\ slot[s] \in SlotType /\ Types /\ ThreadsOK
      /\ Pc(t) = "clast" /\ Alive(t) /\ Leaving(t) /\ v \in Views /\ Of[v] = s
      /\ slot[s].v /\ slot[s].cow /\ ~pvalid[v] /\ slot[m] \in SlotType
      /\ Kind[s] = "COW" /\ m \in Sets /\ m # s /\ slot[m].v /\ Kind[m] = "FILE"
  <2>1. /\ thr[t] \in ThrType /\ s \in Sets /\ slot[s] \in SlotType /\ Types /\ ThreadsOK
        /\ Pc(t) = "clast" /\ Alive(t) /\ Leaving(t) /\ WorkOf(t) /\ v \in Views /\ Of[v] = s
    BY Statics, RecordTypes DEF Inv, CowLast, Alive, WorkOK, Leaving
  <2>2. slot[s].v /\ slot[s].cow /\ ~pvalid[v]
    BY <2>1 DEF WorkOf
  <2>3. Kind[s] = "COW" /\ m \in Sets /\ m # s /\ slot[m].v /\ Kind[m] = "FILE"
    BY <2>1, <2>2, OfCow
  <2> QED BY <2>1, <2>2, <2>3, RecordTypes
<1>1. /\ slot' = [slot EXCEPT ![m] = [slot[m] EXCEPT !.refs = @ - 1], ![s].cow = FALSE, ![s].v = FALSE]
      /\ thr' = [thr EXCEPT ![t].pc = "drop"]
      /\ UNCHANGED <<latest, mem, pvalid, pte>>
  <2>1. DerefSlot(m, slot[m]) = [slot[m] EXCEPT !.refs = @ - 1] /\ Lost(slot[m], DerefSlot(m, slot[m])) = {}
    BY <1>0, MasterKept
  <2>2. /\ slot' = [slot EXCEPT ![m] = DerefSlot(m, slot[m]), ![s].cow = FALSE, ![s].v = FALSE]
        /\ FreePages(Lost(slot[m], DerefSlot(m, slot[m])))
        /\ thr' = [thr EXCEPT ![t].pc = "drop"]
        /\ UNCHANGED <<latest, pvalid, pte>>
    BY Zenon DEF CowLast, mapVars, Goes
  <2>3. mem' = mem
    BY <2>1, <2>2 DEF FreePages, Inv, Data
  <2> QED BY <2>1, <2>2, <2>3
<1>2. Pc(t)' = "drop" /\ \A u \in Users : u # t => thr'[u] = thr[u]
  BY <1>0, <1>1 DEF Types, ThrType, Pc
<1>3. ~Stays(t) /\ ~Stays(t)' /\ Pc(t) # "linked" /\ Pc(t)' # "read" /\ Pc(t) \notin Counted
      /\ Pc(t) \notin {"falloc", "fcore"}
  BY <1>0, <1>2 DEF Stays, Counted
<1>4. \A x \in Sets : Wanted(x)' => Wanted(x)
  BY <1>0, <1>2, <1>3, WantedFrame
<1>5. /\ ~slot'[s].v /\ ~slot'[s].cow
      /\ \A x \in Sets : x # s => /\ slot'[x].v = slot[x].v /\ slot'[x].cow = slot[x].cow
                                  /\ slot'[x].pfn = slot[x].pfn /\ slot'[x].m = slot[x].m
  BY <1>0, <1>1 DEF Types, SlotType
<1>6. \A u \in Users : SetOf(u) = s => ViewOf[u] = v /\ (u # t => Pc(u) = "dead")
  BY <1>0, Statics DEF ThreadsOK
<1>7. ValueOf(s)'
  <2>1. Fresh(s)' = Fresh(s) /\ ValueOf(s)
    BY <1>0 DEF Fresh, Values
  <2>2. ~Wanted(s)'
    <3> SUFFICES ASSUME NEW u \in Users, SetOf(u) = s, Stays(u)' PROVE FALSE
      BY DEF Wanted, SetOf
    <3>1. u # t
      BY <1>3
    <3> QED BY <3>1, <1>2, <1>6 DEF Stays, Pc
  <2> QED BY <2>1, <2>2, <1>1, <1>5 DEF ValueOf
<1>8. \A w \in Views : Of[w] = s => PteOf(w)'
  <2>1. \A w \in Views : Of[w] = s => w = v
    BY <1>0, Statics
  <2>2. ~Current(v)
    BY <1>0, NotLinked DEF Current
  <2>3. ~Stale(v)
    BY <1>0, <1>3, <1>6, Statics DEF Stale, Counted
  <2> QED BY <2>1, <2>2, <2>3, <1>0, <1>1 DEF PteOf, Values
<1>9. \A x \in Sets : x # s /\ slot[x].v /\ ~slot[x].cow => mem'[slot[x].pfn] = mem[slot[x].pfn]
  BY <1>1
<1>10. \A w \in Views : Of[w] # s => pte'[w] = pte[w] /\ pvalid'[w] = pvalid[w]
  BY <1>1
<1>11. \A x \in Sets : x # s => /\ slot'[x].v = slot[x].v /\ slot'[x].cow = slot[x].cow
                                /\ slot'[x].pfn = slot[x].pfn /\ slot'[x].m = slot[x].m
                                /\ latest'[x] = latest[x]
                                /\ Wanted(x)' => Wanted(x)
  BY <1>1, <1>4, <1>5
<1> QED BY <1>0, <1>2, <1>3, <1>7, <1>8, <1>9, <1>10, <1>11, OneSet
-----------------------------------------------------------------------------
(* A set is dropped.                                                     *)

\* A set goes when nobody is left who would want it.
LEMMA DropSetValues ==
  ASSUME Inv, Inv', Values, NEW t \in Users, DropSet(t), panic' = panic
  PROVE  Values'
<1> DEFINE s == SetOf(t)
           v == ViewOf[t]
           dead == Dying(t)
<1>0. /\ thr[t] \in ThrType /\ Types /\ Pc(t) = "drop" /\ Alive(t) /\ s \in Sets /\ ThreadsOK
      /\ dead \subseteq Sets /\ v \in Views /\ Kind[s] # "FILE"
  BY Statics, RecordTypes, DyingSets DEF Inv, DropSet, Alive
<1>1. /\ slot' = [x \in Sets |-> IF x \in dead THEN EmptySlot ELSE slot[x]]
      /\ FreePages({slot[x].pfn : x \in {y \in dead : slot[y].v}})
      /\ thr' = [thr EXCEPT ![t].pc = "dead"]
      /\ UNCHANGED <<latest, pvalid, pte>>
  <2>1. ~Panics
    BY DEF Panics, Inv
  <2>2. dead = IF ~(prefs[s] = 1) THEN {}
               ELSE IF Kind[s] = "COW" /\ prefs[Master[s]] = 1 THEN {s, Master[s]} ELSE {s}
    BY DEF Dying
  <2> QED BY <2>1, <2>2, Zenon DEF DropSet, Goes, mapVars
<1> HIDE DEF dead
<1>2. Pc(t)' = "dead" /\ \A u \in Users : u # t => thr'[u] = thr[u]
  BY <1>0, <1>1 DEF Types, ThrType, Pc
<1>3. ~Stays(t) /\ ~Stays(t)' /\ Pc(t) # "linked" /\ Pc(t)' # "read" /\ Pc(t) \notin Counted
      /\ Pc(t) \notin {"falloc", "fcore"}
  BY <1>0, <1>2 DEF Stays, Counted
<1>4. \A x \in Sets : Wanted(x)' => Wanted(x)
  BY <1>0, <1>2, <1>3, WantedFrame
<1>5. /\ \A x \in dead : ~slot'[x].v /\ ~slot'[x].cow
      /\ \A x \in Sets : x \notin dead => slot'[x] = slot[x]
  BY <1>0, <1>1 DEF EmptySlot
<1>6. \A x \in Sets : slot'[x].v /\ ~slot'[x].cow => mem'[slot'[x].pfn] = mem[slot'[x].pfn]
  BY <1>1, MemKept DEF Inv
<1>7. \A x \in dead : /\ slot[x].atl \subseteq {Cache} /\ Sharing(x) = {}
                      /\ x = s \/ (Kind[s] = "COW" /\ x = Master[s])
                      /\ \A u \in Users : u # t /\ SetOf(u) = x => Pc(u) = "dead"
                      /\ \A u \in Users : Forking(u) => NewSet(u) # x
  BY <1>0, DyingSets DEF dead
<1>8. ASSUME NEW x \in Sets PROVE ValueOf(x)'
  <2>1. ValueOf(x) /\ Fresh(x)' = Fresh(x)
    BY DEF Values, Fresh
  <2>2. CASE x \in dead
    <3>1. ~Wanted(x)'
      <4> SUFFICES ASSUME NEW u \in Users, SetOf(u) = x, Stays(u)' PROVE FALSE
        BY DEF Wanted, SetOf
      <4>1. u # t
        BY <1>3
      <4> QED BY <4>1, <2>2, <1>2, <1>7 DEF Stays, Pc
    <3> QED BY <2>1, <2>2, <3>1, <1>1, <1>5 DEF ValueOf
  <2>3. CASE x \notin dead
    <3>1. slot[x].cow => slot'[Master[x]].pfn = slot[Master[x]].pfn
      <4>1. slot[x].cow => Master[x] \in Sets /\ x \in Sharing(Master[x])
        BY OfCow
      <4> QED BY <4>1, <1>5, <1>7
    <3>2. slot'[x] = slot[x]
      BY <2>3, <1>5
    <3>3. slot[x].v /\ ~slot[x].cow => mem'[slot[x].pfn] = mem[slot[x].pfn]
      BY <3>2, <1>6
    <3> QED BY <2>1, <3>1, <3>2, <3>3, <1>1, <1>4, ValueFrame
  <2> QED BY <2>2, <2>3
<1>9. ASSUME NEW w \in Views PROVE PteOf(w)'
  <2>1. PteOf(w) /\ Of[w] \in Sets /\ Kind[Of[w]] # "FILE" /\ w # Cache
    BY Statics DEF Values
  <2>2. pte[w].v /\ Current(w) =>
          /\ slot'[Of[w]].pfn = slot[Of[w]].pfn /\ slot'[Of[w]].cow = slot[Of[w]].cow
          /\ \A u \in Users : Pc(u) = "linked" /\ NewView(u) = w => Pc(u)' = "linked"
    <3> SUFFICES ASSUME Current(w) PROVE Of[w] \notin dead
      BY <2>1, <1>2, <1>3, <1>5 DEF Pc
    <3>1. CASE pvalid[w]
      <4>1. w \in slot[Of[w]].atl
        BY <3>1 DEF Inv, ViewsOK, ValidOf
      <4> QED BY <4>1, <2>1, <1>7
    <3>2. ASSUME NEW u \in Users, Pc(u) = "linked", NewView(u) = w PROVE Of[w] \notin dead
      <4>1. Forking(u) /\ NewSet(u) = Of[w]
        BY <3>2 DEF Forking, NewSet
      <4> QED BY <4>1, <1>7
    <3> QED BY <3>1, <3>2 DEF Current
  <2>3. ASSUME Stale(w)
        PROVE  /\ slot'[Master[Of[w]]].v
               /\ slot'[Master[Of[w]]].pfn = slot[Master[Of[w]]].pfn
               /\ \E u \in Users : ViewOf[u] = w /\ Pc(u)' \in Counted
    <3>1. PICK u \in Users : ViewOf[u] = w /\ Pc(u) \in Counted
      BY <2>3 DEF Stale
    <3>2. u # t /\ Alive(u) /\ SetOf(u) = Of[w] /\ Kind[SetOf(u)] = "COW" /\ Master[Of[w]] \in Sets
      BY <3>1, <2>1, <2>3, <1>3, Statics DEF Stale, Alive, Counted
    <3>3. Master[Of[w]] \notin dead
      <4> SUFFICES ASSUME Master[Of[w]] \in dead PROVE FALSE
        OBVIOUS
      <4>1. Kind[s] = "COW" /\ Master[Of[w]] = Master[s] /\ prefs[Master[s]] = 1
        BY <3>2, <1>0, <1>7, Statics DEF dead, Dying
      <4>2. LiveSets(Master[s]) = {s}
        BY <4>1, <1>0, Droppable
      <4>3. SetOf(u) = s
        BY <4>1, <4>2, <3>2, Lively
      <4>4. prefs[s] = 1
        BY DEF dead, Dying
      <4>5. Pc(u) = "dead"
        BY <4>3, <4>4, <3>2, <1>0, Droppable
      <4> QED BY <4>5, <3>2 DEF Alive
    <3>4. slot'[Master[Of[w]]] = slot[Master[Of[w]]]
      BY <3>2, <3>3, <1>5
    <3> QED BY <3>1, <3>2, <3>4, <2>3, <1>2 DEF Stale, Pc
  <2>4. pte' = pte /\ pvalid' = pvalid /\ latest' = latest
    BY <1>1
  <2> QED BY <2>1, <2>2, <2>3, <2>4, PteFrame
<1>10. ASSUME NEW u \in Users, Pc(u)' = "read" PROVE Kind[thr'[u].on] = "FILE"
  BY <1>2, <1>3, <1>10 DEF Values, Pc
<1> QED BY <1>8, <1>9, <1>10 DEF Values
-----------------------------------------------------------------------------
(* fork().                                                               *)

\* The set that fork() makes, until its view is linked.
LEMMA NewSetFacts ==
  ASSUME Inv, Values, NEW t \in Users, Child[t] # None, Pc(Child[t]) = "none",
         Pc(t) # "linked", Alive(t)
  PROVE  LET n == NewSet(t)  s == SetOf(t) IN
         /\ n \in Sets /\ s \in Sets /\ Kind[n] # "FILE" /\ ~Many(n) /\ n # s
         /\ Fresh(n) = Fresh(s) /\ Fresh(s) # s
         /\ latest[s] \in {Fresh(s), s}
         /\ Copied(t, latest[s]) \in {Fresh(n), n}
         /\ latest[s] = Fresh(s) => Copied(t, latest[s]) = Fresh(n)
         /\ \A w \in Views : Of[w] = n => w = NewView(t) /\ ~pte[w].v
         /\ \A u \in Users : SetOf(u) = n => u = Child[t]
         /\ t # Child[t]
<1> DEFINE n == NewSet(t)
           s == SetOf(t)
<1>1. /\ n \in Sets /\ s \in Sets /\ Kind[n] # "FILE" /\ ~Many(n) /\ Kind[n] = Kind[s]
      /\ \A w \in Views : Of[w] = n => w = NewView(t)
      /\ \A u \in Users : SetOf(u) = n => u = Child[t]
      /\ NewView(t) = ViewOf[Child[t]] /\ Child[t] \in Users
  BY Statics, ForkStatics, ManyKind
<1>2. n # s /\ t # Child[t]
  BY <1>1 DEF Alive
<1>3. Fresh(n) = Fresh(s) /\ Fresh(s) # s
  BY <1>1, ValueNames
<1>4. latest[s] \in {Fresh(s), s}
  BY <1>1 DEF Values, ValueOf
<1>5. ~pte[NewView(t)].v
  <2>1. \A u \in Users : Pc(u) = "linked" => Child[u] # Child[t]
    BY ForkStatics
  <2> QED BY <2>1, <1>1 DEF Inv, ViewsOK, UnbornOf
<1> QED BY <1>1, <1>2, <1>3, <1>4, <1>5 DEF Copied

LEMMA ForkValues ==
  ASSUME Inv, Values, NEW t \in Users, Fork(t)
  PROVE  Values'
<1> DEFINE s == SetOf(t)
           n == NewSet(t)
<1>0. /\ thr[t] \in ThrType /\ Types /\ s \in Sets /\ ~slot[s].swapped /\ ThreadsOK
      /\ Pc(t) = "user" /\ Alive(t) /\ Stays(t) /\ ~Forking(t)
      /\ Child[t] # None /\ Pc(Child[t]) = "none"
  BY Statics, RecordTypes DEF Inv, Fork, Alive, ShapeOK, ShapeOf, Forking, Stays
<1>1. /\ thr' = [thr EXCEPT ![t].pc = IF slot[s].v THEN "flock" ELSE "attach"]
      /\ latest' = IF slot[s].v THEN latest ELSE [latest EXCEPT ![n] = Copied(t, latest[s])]
      /\ UNCHANGED <<slot, pvalid, pte, mem>>
  BY <1>0, Zenon DEF Fork, Goes, mapVars, dataVars
<1>2. Pc(t)' \in {"flock", "attach"} /\ \A u \in Users : u # t => thr'[u] = thr[u]
  BY <1>0, <1>1 DEF Types, ThrType, Pc
<1>3. Stays(t)' /\ Pc(t) # "linked" /\ Pc(t)' # "read" /\ Pc(t) \notin Counted
      /\ Pc(t) \notin {"falloc", "fcore"}
  BY <1>0, <1>2 DEF Stays, Counted
<1>4. \A x \in Sets : Wanted(x)' => Wanted(x)
  BY <1>0, <1>2, <1>3, WantedFrame
<1>5. CASE slot[s].v
  <2>1. latest' = latest
    BY <1>1, <1>5
  <2> QED BY <2>1, <1>0, <1>1, <1>2, <1>3, Quiet
<1>6. CASE ~slot[s].v
  <2>1. latest[s] = Fresh(s)
    <3>1. Wanted(s)
      BY <1>0, WantsOwn
    <3> QED BY <3>1, <1>0, <1>6 DEF Values, ValueOf
  <2>2. /\ n \in Sets /\ Kind[n] # "FILE" /\ Copied(t, latest[s]) = Fresh(n)
        /\ \A w \in Views : Of[w] = n => ~pte[w].v
    BY <2>1, <1>0, <1>3, NewSetFacts
  <2>3. ~slot[n].v /\ ~slot[n].cow
    <3>1. ~slot[n].v
      BY <1>0, NotYet
    <3> QED BY <3>1, <2>2 DEF Inv, ShapeOK, ShapeOf
  <2>4. latest'[n] = Fresh(n) /\ \A x \in Sets : x # n => latest'[x] = latest[x]
    BY <1>1, <1>6, <2>2 DEF Inv, Data
  <2>5. ValueOf(n)'
    <3>1. Fresh(n)' = Fresh(n)
      BY DEF Fresh
    <3> QED BY <3>1, <2>3, <2>4, <1>1 DEF ValueOf
  <2>6. \A w \in Views : Of[w] = n => PteOf(w)'
    BY <2>2, <1>1 DEF PteOf
  <2>7. \A x \in Sets : x # n => /\ slot'[x].v = slot[x].v /\ slot'[x].cow = slot[x].cow
                                 /\ slot'[x].pfn = slot[x].pfn /\ slot'[x].m = slot[x].m
                                 /\ latest'[x] = latest[x]
                                 /\ Wanted(x)' => Wanted(x)
    BY <1>1, <1>4, <2>4
  <2>8. \A x \in Sets : x # n /\ slot[x].v /\ ~slot[x].cow => mem'[slot[x].pfn] = mem[slot[x].pfn]
    BY <1>1
  <2>9. \A w \in Views : Of[w] # n => pte'[w] = pte[w] /\ pvalid'[w] = pvalid[w]
    BY <1>1
  <2> QED BY <1>2, <1>3, <2>2, <2>5, <2>6, <2>7, <2>8, <2>9, OneSet
<1> QED BY <1>5, <1>6

\* What is copied is what the old set has now; a page that is shared with the
\* master was not stored in.
LEMMA DupSlotValues ==
  ASSUME Inv, Values, NEW t \in Users, DupSlot(t)
  PROVE  Values'
<1> DEFINE s == SetOf(t)
           n == NewSet(t)
           shared == slot[s].v /\ slot[s].cow
<1>0. /\ thr[t] \in ThrType /\ Types /\ s \in Sets /\ ThreadsOK
      /\ Pc(t) = "flock" /\ Alive(t) /\ Stays(t) /\ ~slot[n].v
      /\ Child[t] # None /\ Pc(Child[t]) = "none" /\ Child[t] \in Users
  <2>1. /\ Pc(t) = "flock" /\ Alive(t) /\ Stays(t) /\ ThreadsOK /\ Forking(t) /\ WorkOf(t)
    BY DEF Inv, DupSlot, Alive, Stays, Forking, WorkOK
  <2> QED BY <2>1, Statics, RecordTypes, Forks2 DEF Inv, WorkOf
<1>1. /\ thr' = [thr EXCEPT ![t].pc = IF shared THEN "attach" ELSE "falloc"]
      /\ latest' = [latest EXCEPT ![n] = Copied(t, latest[s])]
      /\ UNCHANGED <<slot, pvalid, pte, mem>>
  BY Zenon DEF DupSlot, Goes, mapVars, dataVars
<1>2. Pc(t)' = (IF shared THEN "attach" ELSE "falloc") /\ \A u \in Users : u # t => thr'[u] = thr[u]
  BY <1>0, <1>1 DEF Types, ThrType, Pc
<1>3. Stays(t)' /\ Pc(t) # "linked" /\ Pc(t)' # "read" /\ Pc(t) \notin Counted
      /\ Pc(t) \notin {"falloc", "fcore"}
  BY <1>0, <1>2 DEF Stays, Counted
<1>4. \A x \in Sets : Wanted(x)' => Wanted(x)
  BY <1>0, <1>2, <1>3, WantedFrame
<1>5. /\ n \in Sets /\ Kind[n] # "FILE" /\ Copied(t, latest[s]) \in {Fresh(n), n}
      /\ latest[s] = Fresh(s) => Copied(t, latest[s]) = Fresh(n)
      /\ \A w \in Views : Of[w] = n => ~pte[w].v
      /\ \A u \in Users : SetOf(u) = n => u = Child[t]
  BY <1>0, <1>3, NewSetFacts
<1>6. ~slot[n].cow
  BY <1>0, <1>5 DEF Inv, ShapeOK, ShapeOf
<1>7. latest'[n] = Copied(t, latest[s]) /\ \A x \in Sets : x # n => latest'[x] = latest[x]
  BY <1>1, <1>5 DEF Inv, Data
<1>8. ValueOf(n)'
  <2>1. Fresh(n)' = Fresh(n)
    BY DEF Fresh
  <2>2. Wanted(n)' => latest'[n] = Fresh(n)
    <3>1. CASE shared
      BY <3>1, <1>0, <1>5, <1>7 DEF Values, ValueOf
    <3>2. CASE ~shared
      <4>1. Copying(Child[t])'
        BY <3>2, <1>2 DEF Copying
      <4> QED BY <4>1, <1>5 DEF Wanted, SetOf
    <3> QED BY <3>1, <3>2
  <2> QED BY <2>1, <2>2, <1>0, <1>1, <1>5, <1>6, <1>7 DEF ValueOf
<1>9. \A w \in Views : Of[w] = n => PteOf(w)'
  BY <1>1, <1>5 DEF PteOf
<1>10. \A x \in Sets : x # n => /\ slot'[x].v = slot[x].v /\ slot'[x].cow = slot[x].cow
                                /\ slot'[x].pfn = slot[x].pfn /\ slot'[x].m = slot[x].m
                                /\ latest'[x] = latest[x]
                                /\ Wanted(x)' => Wanted(x)
  BY <1>1, <1>4, <1>7
<1>11. \A x \in Sets : x # n /\ slot[x].v /\ ~slot[x].cow => mem'[slot[x].pfn] = mem[slot[x].pfn]
  BY <1>1
<1>12. \A w \in Views : Of[w] # n => pte'[w] = pte[w] /\ pvalid'[w] = pvalid[w]
  BY <1>1
<1> QED BY <1>2, <1>3, <1>5, <1>8, <1>9, <1>10, <1>11, <1>12, OneSet

LEMMA CopyPageValues ==
  ASSUME Inv, Values, NEW t \in Users, CopyPage(t), panic' = panic
  PROVE  Values'
<1>a. thr[t].pg \in Frames
  BY DEF Inv, LocksOK, LockOf, WithPage, CopyPage
<1>b. PICK f \in Frames : f = thr[t].pg
  BY <1>a
<1> DEFINE s == SetOf(t)
           n == NewSet(t)
<1>0. /\ thr[t] \in ThrType /\ Types /\ s \in Sets /\ ThreadsOK
      /\ Pc(t) = "fcore" /\ Alive(t) /\ Stays(t) /\ ~slot[n].v /\ slot[s].v /\ ~slot[s].cow
      /\ Child[t] # None /\ Pc(Child[t]) = "none" /\ Child[t] \in Users
  <2>1. /\ Pc(t) = "fcore" /\ Alive(t) /\ Stays(t) /\ ThreadsOK /\ Forking(t) /\ WorkOf(t)
    BY DEF Inv, CopyPage, Alive, Stays, Forking, WorkOK
  <2> QED BY <2>1, Statics, RecordTypes, Forks2 DEF Inv, WorkOf
<1>1. /\ slot' = [slot EXCEPT ![n].v = TRUE, ![n].pfn = f]
      /\ mem' = [mem EXCEPT ![f] = Copied(t, mem[slot[s].pfn])]
      /\ latest' = [latest EXCEPT ![n] = Copied(t, latest[s])]
      /\ thr' = [thr EXCEPT ![t].pc = "attach", ![t].pg = None]
      /\ UNCHANGED <<pvalid, pte>>
  <2>1. ~Panics
    BY DEF Panics, Inv
  <2> QED BY <2>1, <1>0, <1>b, Zenon DEF CopyPage, mapVars
<1>2. Pc(t)' = "attach" /\ \A u \in Users : u # t => thr'[u] = thr[u]
  BY <1>0, <1>1 DEF Types, ThrType, Pc
<1>3. Stays(t)' /\ Pc(t) # "linked" /\ Pc(t)' # "read" /\ Pc(t) \notin Counted
  BY <1>0, <1>2 DEF Stays, Counted
<1>4. /\ n \in Sets /\ Kind[n] # "FILE" /\ ~Many(n) /\ Copied(t, latest[s]) \in {Fresh(n), n}
      /\ \A w \in Views : Of[w] = n => ~pte[w].v
      /\ \A u \in Users : SetOf(u) = n => u = Child[t]
      /\ SetOf(Child[t]) = n
  BY <1>0, <1>3, NewSetFacts, ForkStatics
<1>5. \A x \in Sets : x # n => (Wanted(x)' => Wanted(x))
  <2> SUFFICES ASSUME NEW x \in Sets, x # n, NEW u \in Users, SetOf(u) = x, Stays(u)', ~Copying(u)'
               PROVE  Wanted(x)
    BY DEF Wanted, SetOf
  <2>1. Stays(u)
    BY <1>0, <1>2 DEF Stays, Pc
  <2>2. ~Copying(u)
    <3> SUFFICES ASSUME NEW y \in Users, Pc(y) \in {"falloc", "fcore"}, Child[y] = u PROVE FALSE
      BY DEF Copying
    <3>1. y # t
      BY <1>4
    <3> QED BY <3>1, <1>2 DEF Copying, Pc
  <2> QED BY <2>1, <2>2 DEF Wanted
<1>6. ~slot[n].cow /\ slot[n] \in SlotType
  BY <1>0, <1>4, RecordTypes DEF Inv, ShapeOK, ShapeOf
<1>7. /\ slot'[n].v /\ ~slot'[n].cow /\ slot'[n].pfn = f
      /\ \A x \in Sets : x # n => slot'[x] = slot[x]
  BY <1>1, <1>4, <1>6, <1>0 DEF Types, SlotType
<1>8. latest'[n] = Copied(t, latest[s]) /\ \A x \in Sets : x # n => latest'[x] = latest[x]
  BY <1>1, <1>4 DEF Inv, Data
<1>9. /\ mem'[f] = Copied(t, mem[slot[s].pfn])
      /\ \A x \in Sets : slot[x].v /\ ~slot[x].cow => mem'[slot[x].pfn] = mem[slot[x].pfn]
  BY <1>1, <1>b, MemTaken
<1>10. ValueOf(n)'
  <2>1. Fresh(n)' = Fresh(n) /\ (Many(n)' <=> Many(n))
    BY DEF Fresh, Many
  <2>2. mem[slot[s].pfn] = latest[s]
    BY <1>0 DEF Values, ValueOf
  <2> QED BY <2>1, <2>2, <1>4, <1>7, <1>8, <1>9 DEF ValueOf
<1>11. \A w \in Views : Of[w] = n => PteOf(w)'
  BY <1>1, <1>4 DEF PteOf
<1>12. \A x \in Sets : x # n => /\ slot'[x].v = slot[x].v /\ slot'[x].cow = slot[x].cow
                                /\ slot'[x].pfn = slot[x].pfn /\ slot'[x].m = slot[x].m
                                /\ latest'[x] = latest[x]
                                /\ Wanted(x)' => Wanted(x)
  BY <1>5, <1>7, <1>8
<1>13. \A w \in Views : Of[w] # n => pte'[w] = pte[w] /\ pvalid'[w] = pvalid[w]
  BY <1>1
<1> QED BY <1>2, <1>3, <1>4, <1>9, <1>10, <1>11, <1>12, <1>13, OneSet

LEMMA LinkSlotValues ==
  ASSUME Inv, Values, NEW t \in Users, LinkSlot(t)
  PROVE  Values'
<1> DEFINE n == NewSet(t)
           w == NewView(t)
           p == slot[n]
<1>0. /\ thr[t] \in ThrType /\ Types /\ ThreadsOK
      /\ Pc(t) = "link" /\ Alive(t) /\ Stays(t)
      /\ Child[t] # None /\ Pc(Child[t]) = "none" /\ Child[t] \in Users
      /\ w \in Views /\ Of[w] = n
  <2>1. /\ Pc(t) = "link" /\ Alive(t) /\ Stays(t) /\ ThreadsOK /\ Forking(t)
    BY DEF Inv, LinkSlot, Alive, Stays, Forking
  <2> QED BY <2>1, Statics, RecordTypes, Forks2, ForkStatics DEF Inv
<1>1. /\ thr' = [thr EXCEPT ![t].pc = "linked"]
      /\ IF p.v THEN /\ slot' = [slot EXCEPT ![n].atl = @ \cup {w}]
                     /\ pte' = [pte EXCEPT ![w] = [v |-> TRUE, ro |-> ProtRO(w, p), m |-> FALSE, pfn |-> p.pfn]]
                ELSE slot' = slot /\ pte' = pte
      /\ UNCHANGED <<latest, pvalid, mem>>
  BY Zenon DEF LinkSlot, Goes, dataVars
<1>2. Pc(t)' = "linked" /\ \A u \in Users : u # t => thr'[u] = thr[u]
  BY <1>0, <1>1 DEF Types, ThrType, Pc
<1>3. Stays(t)' /\ Pc(t) # "linked" /\ Pc(t)' # "read" /\ Pc(t) \notin Counted
      /\ Pc(t) \notin {"falloc", "fcore"}
  BY <1>0, <1>2 DEF Stays, Counted
<1>4. \A x \in Sets : Wanted(x)' => Wanted(x)
  BY <1>0, <1>2, <1>3, WantedFrame
<1>5. /\ n \in Sets /\ Kind[n] # "FILE" /\ ~Many(n) /\ slot[n] \in SlotType
      /\ \A z \in Views : Of[z] = n => z = w /\ ~pte[z].v
  BY <1>0, <1>3, NewSetFacts, RecordTypes
<1>6. \A x \in Sets : /\ slot'[x].v = slot[x].v /\ slot'[x].cow = slot[x].cow
                      /\ slot'[x].pfn = slot[x].pfn /\ slot'[x].m = slot[x].m
  BY <1>0, <1>1, <1>5 DEF Types, SlotType
<1>7. \A z \in Views : Of[z] # n => pte'[z] = pte[z] /\ pvalid'[z] = pvalid[z]
  BY <1>0, <1>1 DEF Types
<1>8. PteOf(w)'
  <2>1. CASE p.v
    <3>1. pte'[w].pfn = p.pfn /\ pte'[w].ro = ProtRO(w, p)
      BY <2>1, <1>0, <1>1 DEF Types
    <3>2. Pc(t)' = "linked" /\ NewView(t)' = w
      BY <1>2 DEF NewView
    <3>3. slot'[Of[w]].pfn = p.pfn /\ (slot'[Of[w]].cow => pte'[w].ro)
      BY <3>1, <1>0, <1>5, <1>6 DEF ProtRO
    <3> QED BY <3>1, <3>2, <3>3 DEF PteOf, Current
  <2>2. CASE ~p.v
    BY <2>2, <1>0, <1>1, <1>5 DEF PteOf
  <2> QED BY <2>1, <2>2
<1>9. ValueOf(n)'
  <2>1. ValueOf(n) /\ (slot[n].cow => Master[n] \in Sets)
    BY <1>5, OfCow DEF Values
  <2> QED BY <2>1, <1>1, <1>4, <1>5, <1>6, ValueFrame
<1>10. \A z \in Views : Of[z] = n => PteOf(z)'
  BY <1>5, <1>8
<1>11. \A x \in Sets : x # n /\ slot[x].v /\ ~slot[x].cow => mem'[slot[x].pfn] = mem[slot[x].pfn]
  BY <1>1
<1>12. \A x \in Sets : latest'[x] = latest[x]
  BY <1>1
<1> QED BY <1>2, <1>3, <1>4, <1>5, <1>6, <1>7, <1>9, <1>10, <1>11, <1>12, OneSet

LEMMA ForkEndsValues ==
  ASSUME Inv, Values, NEW t \in Users, ForkEnds(t)
  PROVE  Values'
<1> DEFINE n == NewSet(t)
           w == NewView(t)
           c == Child[t]
<1>0. /\ Types /\ ThreadsOK /\ Pc(t) = "linked" /\ n \in Sets /\ slot[n] \in SlotType
      /\ c \in Users /\ Pc(c) = "none" /\ c # t /\ w \in Views
      /\ \A u \in Users : ViewOf[u] = w => u = c
  <2>1. /\ Pc(t) = "linked" /\ ThreadsOK /\ Forking(t)
    BY DEF Inv, ForkEnds, Forking
  <2>2. Child[t] # None /\ c \in Users /\ Pc(c) = "none"
    BY <2>1, Forks2
  <2>3. c # t
    BY <2>1, <2>2
  <2> QED BY <2>1, <2>2, <2>3, RecordTypes, ForkStatics DEF Inv
<1>1. /\ thr' = [thr EXCEPT ![t] = At("user"), ![c] = At("user")]
      /\ IF pte[w].v THEN slot' = [slot EXCEPT ![n].refs = @ + 1] /\ pvalid' = [pvalid EXCEPT ![w] = TRUE]
                     ELSE slot' = slot /\ pvalid' = pvalid
      /\ UNCHANGED <<latest, pte, mem>>
  BY Zenon DEF ForkEnds, dataVars
<1>2. /\ Pc(t)' = "user" /\ Pc(c)' = "user"
      /\ \A u \in Users : u # t /\ u # c => thr'[u] = thr[u]
  BY <1>0, <1>1 DEF Types, At, Pc
<1>3. \A x \in Sets : /\ slot'[x].v = slot[x].v /\ slot'[x].cow = slot[x].cow
                      /\ slot'[x].pfn = slot[x].pfn /\ slot'[x].m = slot[x].m
  BY <1>0, <1>1 DEF Types, SlotType
<1>4. /\ pte[w].v => pvalid'[w]
      /\ \A z \in Views : (z # w => pvalid'[z] = pvalid[z]) /\ (pvalid[z] => pvalid'[z])
  BY <1>0, <1>1 DEF Types
<1>5. \A x \in Sets : Wanted(x)' => Wanted(x)
  <2>1. \A u \in Users : Stays(u)' => Stays(u)
    BY <1>0, <1>2 DEF Stays, Pc
  <2>2. \A y \in Users : Pc(y) \in {"falloc", "fcore"} => Pc(y)' = Pc(y)
    BY <1>0, <1>2 DEF Pc
  <2>3. \A u \in Users : Copying(u) => Copying(u)'
    BY <2>2 DEF Copying
  <2> QED BY <2>1, <2>3 DEF Wanted, SetOf
<1>6. ASSUME NEW x \in Sets PROVE ValueOf(x)'
  <2>1. ValueOf(x) /\ (slot[x].cow => Master[x] \in Sets)
    BY OfCow DEF Values
  <2>2. \A z \in Views : Of[z] = x /\ pvalid[z] /\ pte[z].m /\ Many(x) => pvalid'[z] /\ pte'[z].m
    BY <1>1, <1>4
  <2> QED BY <2>1, <2>2, <1>1, <1>3, <1>5, ValueFrame
<1>7. ASSUME NEW z \in Views PROVE PteOf(z)'
  <2>0. PteOf(z) /\ Of[z] \in Sets
    BY Statics DEF Values
  <2>1. CASE z = w
    <3> SUFFICES ASSUME pte[w].v PROVE Current(w)'
      BY <2>1, <1>1 DEF PteOf
    <3>1. ~Stale(w)
      BY <1>0 DEF Stale, Counted
    <3>2. Current(w)
      BY <3>1, <2>0, <2>1 DEF PteOf
    <3> QED BY <3>2, <2>0, <2>1, <1>1, <1>3, <1>4 DEF Current
  <2>2. CASE z # w
    <3>1. \A u \in Users : Pc(u) = "linked" /\ NewView(u) = z => Pc(u)' = "linked"
      BY <2>2, <1>0, <1>2 DEF Pc
    <3>2. Stale(z) => \E u \in Users : ViewOf[u] = z /\ Pc(u)' \in Counted
      <4>1. \A u \in Users : Pc(u) \in Counted => Pc(u)' \in Counted
        BY <1>0, <1>2 DEF Pc, Counted
      <4> QED BY <4>1 DEF Stale
    <3>3. Stale(z) => Master[Of[z]] \in Sets
      BY <2>0, Statics DEF Stale
    <3>4. Stale(z) => /\ slot'[Master[Of[z]]].v
                      /\ slot'[Master[Of[z]]].pfn = slot[Master[Of[z]]].pfn
      BY <3>3, <1>3 DEF Stale
    <3>5. pvalid'[z] = pvalid[z] /\ pte' = pte /\ latest' = latest
      BY <2>2, <1>1, <1>4
    <3>6. slot'[Of[z]].pfn = slot[Of[z]].pfn /\ slot'[Of[z]].cow = slot[Of[z]].cow
      BY <2>0, <1>3
    <3> QED BY <2>0, <3>1, <3>2, <3>4, <3>5, <3>6, PteFrame
  <2> QED BY <2>1, <2>2
<1>8. ASSUME NEW u \in Users, Pc(u)' = "read" PROVE Kind[thr'[u].on] = "FILE"
  <2>1. u # t /\ u # c
    BY <1>2, <1>8
  <2> QED BY <2>1, <1>2, <1>8 DEF Values, Pc
<1> QED BY <1>6, <1>7, <1>8 DEF Values
-----------------------------------------------------------------------------
(* Every step keeps the contents.                                        *)

LEMMA ThreadValues ==
  ASSUME Inv, Inv', Values, NEW t \in Users, Thread(t)
  PROVE  Values'
<1>0. panic' = panic
  BY DEF Inv
<1>1. CASE \E w \in BOOLEAN : Fault(t, w)
  BY <1>1, QuietFault
<1>2. CASE Store(t)
  BY <1>2, StoreValues
<1>3. CASE LockSlot(t)
  BY <1>3, QuietLock
<1>4. CASE LockMaster(t)
  BY <1>4, LockMasterValues
<1>5. CASE AllocPage(t)
  BY <1>5, QuietAlloc
<1>6. CASE SetCore(t)
  BY <1>6, SetCoreValues
<1>7. CASE PageIn(t)
  BY <1>7, PageInValues
<1>8. CASE PageInFails(t)
  BY <1>8, QuietFails
<1>9. CASE Map(t)
  BY <1>9, MapValues
<1>10. CASE BreakCow(t)
  BY <1>0, <1>10, BreakCowValues
<1>11. CASE CowWrite(t)
  BY <1>0, <1>11, CowWriteValues
<1>12. CASE Exit(t)
  BY <1>12, QuietExit
<1>13. CASE Detach(t)
  BY <1>0, <1>13, DetachValues
<1>14. CASE CowLast(t)
  BY <1>14, CowLastValues
<1>15. CASE DropSet(t)
  BY <1>0, <1>15, DropSetValues
<1>16. CASE Fork(t)
  BY <1>16, ForkValues
<1>17. CASE DupSlot(t)
  BY <1>17, DupSlotValues
<1>18. CASE CopyPage(t)
  BY <1>0, <1>18, CopyPageValues
<1>19. CASE AttachView(t)
  BY <1>19, QuietAttach
<1>20. CASE LinkSlot(t)
  BY <1>20, LinkSlotValues
<1>21. CASE ForkEnds(t)
  BY <1>21, ForkEndsValues
<1> QED BY <1>1, <1>2, <1>3, <1>4, <1>5, <1>6, <1>7, <1>8, <1>9, <1>10, <1>11, <1>12, <1>13, <1>14,
           <1>15, <1>16, <1>17, <1>18, <1>19, <1>20, <1>21 DEF Thread

LEMMA ValuesInit ==
  ASSUME PagesInit PROVE Values
<1>1. /\ \A x \in Sets : ~slot[x].v /\ ~slot[x].cow /\ latest[x] = Fresh(x)
      /\ \A v \in Views : ~pte[v].v
      /\ \A t \in Users : Pc(t) # "read"
  BY DEF PagesInit, EmptySlot, NoPte, Pc, At
<1>2. \A x \in Sets : ValueOf(x)
  BY <1>1 DEF ValueOf
<1>3. \A v \in Views : PteOf(v)
  BY <1>1 DEF PteOf
<1> QED BY <1>1, <1>2, <1>3 DEF Values

LEMMA ValuesStep ==
  ASSUME Inv, Inv', Values, Troubles = {}, [PagesNext]_pageVars
  PROVE  Values'
<1>1. CASE UNCHANGED pageVars
  <2>1. UNCHANGED <<thr, latest, slot, pvalid, pte, mem>>
    BY <1>1, Zenon DEF pageVars, progVars, setVars, mapVars, dataVars
  <2>2. \A u \in Users : Pc(u)' = Pc(u) /\ NewView(u)' = NewView(u) /\ SetOf(u)' = SetOf(u)
    BY <2>1 DEF Pc, NewView, SetOf
  <2>3. \A x \in Sets : Wanted(x)' => Wanted(x)
    <3>1. \A u \in Users : (Stays(u)' <=> Stays(u)) /\ (Copying(u)' <=> Copying(u))
      BY <2>1 DEF Stays, Copying, Pc
    <3> QED BY <3>1, <2>2 DEF Wanted
  <2>4. ASSUME NEW x \in Sets PROVE ValueOf(x)'
    <3>1. ValueOf(x)
      BY DEF Values
    <3> QED BY <3>1, <2>1, <2>3, ValueFrame
  <2>5. ASSUME NEW v \in Views PROVE PteOf(v)'
    <3>1. PteOf(v)
      BY DEF Values
    <3>2. Stale(v) => /\ slot'[Master[Of[v]]].v
                      /\ \E u \in Users : ViewOf[u] = v /\ Pc(u)' \in Counted
      BY <2>1, <2>2 DEF Stale
    <3>3. \A u \in Users : Pc(u) = "linked" /\ NewView(u) = v => Pc(u)' = "linked"
      BY <2>2
    <3> QED BY <3>1, <3>2, <3>3, <2>1, PteFrame
  <2>6. ASSUME NEW u \in Users, Pc(u)' = "read" PROVE Kind[thr'[u].on] = "FILE"
    BY <2>1, <2>2, <2>6 DEF Values
  <2> QED BY <2>4, <2>5, <2>6 DEF Values
<1>2. CASE PagesNext
  <2>1. PICK t \in Users : Thread(t)
    BY <1>2, NoPageout DEF PagesNext
  <2> QED BY <2>1, ThreadValues
<1> QED BY <1>1, <1>2

LEMMA AlwaysValues ==
  ASSUME Troubles = {} PROVE PagesSpec => [](Inv /\ Values)
<1>1. PagesInit => Inv /\ Values
  BY InvInit, ValuesInit
<1>2. Inv /\ Values /\ [PagesNext]_pageVars => (Inv /\ Values)'
  BY InvStep, ValuesStep
<1> QED BY <1>1, <1>2, PTL DEF PagesSpec

LEMMA LatestHolds ==
  ASSUME Inv, Values PROVE MappedIsLatest
<1> SUFFICES ASSUME NEW v \in Views, pte[v].v
             PROVE  pte[v].pfn \notin free /\ mem[pte[v].pfn] = latest[Of[v]]
  BY DEF MappedIsLatest
<1> DEFINE x == Of[v]
           m == Master[x]
<1>1. x \in Sets /\ ValueOf(x) /\ PteOf(v)
  BY Statics DEF Values
<1>2. ASSUME NEW y \in Sets, slot[y].v, ~slot[y].cow
      PROVE  slot[y].pfn \notin free /\ mem[slot[y].pfn] = latest[y]
  <2>1. HasFrame(y, slot[y].pfn)
    BY <1>2 DEF HasFrame
  <2> QED BY <2>1, <1>2 DEF Inv, FramesOK, Values, ValueOf
<1>3. ASSUME Kind[x] = "COW", slot[m].v, pte[v].pfn = slot[m].pfn, latest[x] = Fresh(x)
      PROVE  pte[v].pfn \notin free /\ mem[pte[v].pfn] = latest[x]
  <2>1. m \in Sets /\ Kind[m] = "FILE"
    BY <1>1, <1>3, Statics
  <2>2. ~slot[m].cow
    BY <2>1 DEF Inv, ShapeOK, ShapeOf
  <2>3. latest[m] = Fresh(m) /\ Fresh(m) = Fresh(x)
    BY <2>1, <1>3 DEF Values, ValueOf, Fresh
  <2> QED BY <2>1, <2>2, <2>3, <1>2, <1>3
<1>4. CASE Current(v)
  <2>1. slot[x].v /\ pte[v].pfn = slot[x].pfn
    BY <1>4, CurrentValid DEF Inv, Current
  <2>2. CASE slot[x].cow
    BY <2>1, <2>2, <1>1, <1>3, OfCow DEF ValueOf
  <2>3. CASE ~slot[x].cow
    BY <2>1, <2>3, <1>1, <1>2
  <2> QED BY <2>2, <2>3
<1>5. CASE Stale(v)
  BY <1>3, <1>5 DEF Stale
<1> QED BY <1>1, <1>4, <1>5 DEF PteOf
-----------------------------------------------------------------------------
(* The theorems.                                                         *)

\* While pageout() does not run, slots, translations and frames keep their
\* types; above all, deref_slot() never takes pp_refs below zero.
THEOREM TypesCorrect ==
  ASSUME Troubles = {} PROVE PagesSpec => []PagesTypeOK
<1>1. Inv => PagesTypeOK
  BY TypesHold
<1> QED BY <1>1, Always, PTL

\* vm_fault.c:17-32, across faults, COW breaks, fork() and exit(): the
\* references of a slot nobody works on are its valid views, the cache entry
\* of a file and the COW slots that share its page, and none is lost when
\* threads of a process fault, fork and leave at once.
THEOREM RefsCorrect ==
  ASSUME Troubles = {} PROVE PagesSpec => []RefsAreMappings
<1>1. Inv => RefsAreMappings
  BY RefsHold
<1> QED BY <1>1, Always, PTL

\* alloc_page() and free_page(): every page is free, the page of one slot, or
\* in the hands of one thread, so that none is leaked, freed twice or shared
\* by two sets that do not know of each other.
THEOREM FramesCorrect ==
  ASSUME Troubles = {} PROVE PagesSpec => []FramesOwned
<1>1. Inv => FramesOwned
  BY FramesHold
<1> QED BY <1>1, Always, PTL

\* No ASSERT of cow_write(), detach_pview(), pset_free(), copy_page() and
\* delete_atl() fails: a slot that is shared has a master to leave, a valid
\* view is on the attach list it is taken from, and a set that is freed has no
\* reference left but that of its cache entry.
THEOREM NoAssertFails ==
  ASSUME Troubles = {} PROVE PagesSpec => []AssertsHold
<1>1. Inv => AssertsHold
  BY DEF Inv, AssertsHold
<1> QED BY <1>1, Always, PTL

\* vas_fault(), cow_write(), detach_pview(), fork(): what a program loads
\* through a translation is what was last stored in its page set through any
\* view, or what the set began with: never the page of another set, the master's
\* after the set got a copy, or a page that was given back while it was dirty.
THEOREM LatestIsSeen ==
  ASSUME Troubles = {} PROVE PagesSpec => []MappedIsLatest
<1>1. Inv /\ Values => MappedIsLatest
  BY LatestHolds
<1> QED BY <1>1, AlwaysValues, PTL
=============================================================================
