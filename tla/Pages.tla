------------------------------- MODULE Pages -------------------------------
(***************************************************************************)
(* Virtual memory of os/kern: faults (vm_fault.c), page sets of kinds      *)
(* ZFOD, COW and FOD (pset*.c, atl.c), attaching and detaching views       *)
(* (vas.c, pview.c), page stealing (vm_steal.c), physical pages            *)
(* (vm_page.c) and asynchronous page I/O (qio.c), with the translations    *)
(* of mach/hat.c.                                                          *)
(*                                                                         *)
(* A page set has one page.  Slots of a set share only p_refs and the      *)
(* queue of waiters, which wakes everybody, so that a wait for a slot is a *)
(* guard.  The kernel is preempted wherever it holds no spinlock; what one *)
(* thread does under a slot lock that nobody looks at without it is one    *)
(* step.  The bit PP_R only decides which pages are stolen: it is left     *)
(* open.  PP_BAD, which only a synchronous push and copy_page() set, is    *)
(* left out, and pushes succeed.  The pages of COW sets are not stolen, so *)
(* that none of them is ever on swap.                                      *)
(***************************************************************************)
EXTENDS Integers, FiniteSets, SequencesExt

CONSTANTS
  Users,      \* threads of programs
  Views,      \* pviews: a page of an address space
  Sets,       \* psets
  Frames,     \* physical pages
  ViewOf,     \* the view a thread touches; threads of a process share it
  Of,         \* the page set of a view, p_set
  Kind,       \* p_type of a set: "ZERO", "FILE", "COW"
  Master,     \* p_cow of a COW set
  RdOnly,     \* views with PROT_RO
  Child,      \* the thread that a fork() by a thread creates, or None
  Exits,      \* threads that may exit
  Troubles,   \* shortages of memory that pageout() meets; none: it does not run
  NQio,       \* threads in run_qio(), and qio elements
  ReadsFail,  \* may pageio() fail to read a page?
  None

ASSUME PagesAssumption ==
  /\ ViewOf \in [Users -> Views] /\ Of \in [Views -> Sets]
  /\ Kind \in [Sets -> {"ZERO", "FILE", "COW"}]
  /\ \A s \in Sets : Kind[s] = "COW" => Kind[Master[s]] = "FILE"
  \* a COW set has a view of its own; its master is not mapped for writing
  /\ \A v, w \in Views : Of[v] = Of[w] /\ v # w => Kind[Of[v]] # "COW"
  /\ \A v \in Views : Kind[Of[v]] # "FILE"
  /\ Child \in [Users -> Users \cup {None}]
  /\ Troubles \subseteq 0..2 /\ NQio \in Nat /\ ReadsFail \in BOOLEAN
  \* steal_master() is not modelled
  /\ Troubles = {} \/ \A s \in Sets : Kind[s] = "ZERO"

\* Names of different things differ; a set that is a master is a set.
ASSUME NamesAssumption ==
  /\ IsFiniteSet(Views) /\ IsFiniteSet(Sets)
  /\ None \notin Users \cup Frames \cup Sets
  /\ {"pageout", "io"} \cap (Users \cup {None}) = {} /\ "cache" \notin Views
  /\ {"zero", "file"} \cap Sets = {}
  /\ \A s \in Sets : Kind[s] = "COW" => Master[s] \in Sets

\* fork() makes a thread once, with a view of a set of its own, of the kind of
\* the parent's.  (A view that others share is not copied but shared; that is
\* not modelled.)
ASSUME ForkAssumption ==
  \A t \in Users : Child[t] # None =>
    LET v == ViewOf[t]  n == ViewOf[Child[t]] IN
    /\ \A u \in Users : Child[u] = Child[t] => u = t
    /\ \A u \in Users : ViewOf[u] = n => u = Child[t]
    /\ \A w \in Views : (Of[w] = Of[n] => w = n) /\ (Of[w] = Of[v] => w = v)
    /\ Kind[Of[n]] = Kind[Of[v]]
    /\ Kind[Of[v]] = "COW" => Master[Of[n]] = Master[Of[v]]

VARIABLES
  thr,      \* where a thread is: pc, w (it writes), was (wasvalid), on (the
            \* set it fills), pg (the page it has allocated)
  slot,     \* the perpage of a set: v, cow, swapped, m, refs, pfn, atl
  held,     \* who holds PP_LOCK: a thread, "pageout", "io", or None
  prefs,    \* p_refs
  gone,     \* sets that were freed
  pvalid,   \* p_valid of a view
  pte,      \* the translation of a view: v, ro, m, pfn
  free,     \* freelist; C_ALLOC is set in the others
  cpset,    \* c_pset, which shares its place with c_free: a set, a link, None
  hand,     \* pageout(): pc, f (the page it has locked), s (its set), trouble
  qio,      \* qio_hd: pages on their way out, the head may have been "moved"
  missed,   \* history: sets of which do_hand() has cleared a PP_M that was set
            \* after it had handed the slot over, while the image was old
  panic,    \* an ASSERT has failed, or freed memory was touched
  mem, swap,  \* what the frames, and the swap blocks of a set, contain
  latest    \* what a program must see in a set

progVars == <<thr, latest>>
setVars  == <<slot, held, prefs, gone>>
mapVars  == <<pvalid, pte>>
coreVars == <<free, cpset>>
devVars  == <<hand, qio, missed>>
dataVars == <<mem, swap>>
pageVars == <<progVars, setVars, mapVars, coreVars, devVars, dataVars, panic>>

\* Slip: a page shared with the master is mapped as the view allows.
ProtOfView(v, p) == v \in RdOnly

\* What hat_addtrans() is told: a page that is to be copied on write is mapped
\* read-only.
ProtRO(v, p) == v \in RdOnly \/ p.cow

\* Contents: of a fresh page, of the file, junk, or what was last written
\* through a view of the set s (named s).
Contents == {"zero", "file", "junk"} \cup Sets
Fresh(s) == IF Kind[s] = "ZERO" THEN "zero" ELSE "file"

Cache == "cache"
EmptySlot == [v |-> FALSE, cow |-> FALSE, swapped |-> FALSE, m |-> FALSE,
              refs |-> 0, pfn |-> None, atl |-> {}]
NoPte == [v |-> FALSE, ro |-> FALSE, m |-> FALSE, pfn |-> None]
At(pc) == [pc |-> pc, w |-> FALSE, was |-> FALSE, on |-> None, pg |-> None]
Scanning == [pc |-> "scan", f |-> None, s |-> None, trouble |-> 0]

Born == {u \in Users : \A t \in Users : Child[t] # u}
FirstSets == {Of[ViewOf[u]] : u \in Born}
CowSets(m) == {s \in Sets : Kind[s] = "COW" /\ Master[s] = m}
SetOf(t) == Of[ViewOf[t]]

PagesInit ==
  /\ thr = [u \in Users |-> At(IF u \in Born THEN "user" ELSE "none")]
  /\ slot = [s \in Sets |-> EmptySlot]
  /\ held = [s \in Sets |-> None]
  /\ prefs = [s \in Sets |-> IF Kind[s] = "FILE" THEN Cardinality(CowSets(s) \cap FirstSets)
                             ELSE Cardinality({v \in {ViewOf[u] : u \in Born} : Of[v] = s})]
  /\ gone = {}
  /\ pvalid = [v \in Views |-> FALSE]
  /\ pte = [v \in Views |-> NoPte]
  /\ free = Frames
  /\ cpset = [f \in Frames |-> None]
  /\ hand = Scanning
  /\ qio = << >>
  /\ missed = {}
  /\ panic = FALSE
  /\ mem = [f \in Frames |-> "junk"]
  /\ swap = [s \in Sets |-> "junk"]
  /\ latest = [s \in Sets |-> Fresh(s)]

Pc(t) == thr[t].pc
Goes(t, pc) == thr' = [thr EXCEPT ![t].pc = pc]
Back(t) == thr' = [thr EXCEPT ![t] = At("user")]
Panics == panic' = TRUE /\ UNCHANGED <<progVars, setVars, mapVars, coreVars, devVars, dataVars>>

\* A slot that loses its last reference: a dirty page of a set in use is
\* kept by a cache reference, any other page goes back to the free list.
LastRef(s, p) ==
  IF prefs[s] > 0 /\ p.m THEN [p EXCEPT !.refs = 1, !.atl = @ \cup {Cache}]
                         ELSE [p EXCEPT !.v = FALSE]

\* deref_slot() for a set whose page is its own
DerefSlot(s, p) ==
  LET q == [p EXCEPT !.refs = @ - 1] IN IF q.refs = 0 THEN LastRef(s, q) ELSE q

\* Slip: the page of the last reference is not given back.
LostNot(p, q) == {}

Lost(p, q) == IF p.v /\ ~q.v THEN {p.pfn} ELSE {}

\* free_page(): c_free takes the place of c_pset, and what the page held is
\* forgotten.
Linked(fs) == [f \in Frames |-> IF f \notin fs THEN cpset[f]
                                ELSE IF free = {} THEN None ELSE "link"]
FreePages(fs) ==
  /\ free' = free \cup fs
  /\ cpset' = Linked(fs)
  /\ mem' = [f \in Frames |-> IF f \in fs THEN "junk" ELSE mem[f]]

\* lock_page() sleeps while pageout() holds the page
PageUnlocked(f) == hand.f # f
-----------------------------------------------------------------------------
\* The hardware

Usable(v, w) == pte[v].v /\ (w => ~pte[v].ro)

\* A store through the translation of the view of t: older copies of the
\* contents of the set are no longer what they were.
Store(t) ==
  LET v == ViewOf[t]  s == SetOf(t)
      Aged(c) == IF c = s THEN "junk" ELSE c
  IN /\ Pc(t) = "user" /\ Usable(v, TRUE)
     /\ pte' = [pte EXCEPT ![v].m = TRUE]
     /\ mem' = [f \in Frames |-> IF f = pte[v].pfn THEN s ELSE Aged(mem[f])]
     /\ swap' = [x \in Sets |-> Aged(swap[x])]
     /\ latest' = [latest EXCEPT ![s] = s]
     /\ UNCHANGED <<thr, setVars, pvalid, coreVars, devVars, panic>>
-----------------------------------------------------------------------------
\* vas_fault()

\* A write to a read-only view is refused, and nothing changes.
Fault(t, w) ==
  /\ Pc(t) = "user" /\ ~Usable(ViewOf[t], w)
  /\ w => ViewOf[t] \notin RdOnly
  /\ thr' = [thr EXCEPT ![t].pc = "lock", ![t].w = w]
  /\ UNCHANGED <<latest, setVars, mapVars, coreVars, devVars, dataVars, panic>>

\* lock_slot(); a slot that is valid is referenced, others are filled.
LockSlot(t) ==
  LET s == SetOf(t)  p == slot[s] IN
  /\ Pc(t) = "lock" /\ held[s] = None
  /\ held' = [held EXCEPT ![s] = t]
  /\ \/ /\ p.v
        /\ slot' = [slot EXCEPT ![s].refs = @ + 1]
        /\ thr' = [thr EXCEPT ![t].pc = "got", ![t].was = TRUE]
     \/ /\ ~p.v
        /\ thr' = [thr EXCEPT ![t].pc = IF Kind[s] = "COW" THEN "master" ELSE "alloc",
                              ![t].on = s]
        /\ UNCHANGED slot
  /\ UNCHANGED <<latest, prefs, gone, mapVars, coreVars, devVars, dataVars, panic>>

\* The slot of a COW set shares the page of its master.
Shared(p, pfn) == [p EXCEPT !.v = TRUE, !.cow = TRUE, !.m = FALSE, !.refs = 1, !.pfn = pfn]

\* cow_fillslot() locks the slot of the master, under that of the COW set
LockMaster(t) ==
  LET s == SetOf(t)  m == Master[s] IN
  /\ Pc(t) = "master" /\ held[m] = None
  /\ IF slot[m].v
     THEN /\ slot' = [slot EXCEPT ![m].refs = @ + 1, ![s] = Shared(@, slot[m].pfn)]
          /\ Goes(t, "got")
          /\ UNCHANGED held
     ELSE /\ held' = [held EXCEPT ![m] = t]
          /\ thr' = [thr EXCEPT ![t].pc = "alloc", ![t].on = m]
          /\ UNCHANGED slot
  /\ UNCHANGED <<latest, prefs, gone, mapVars, coreVars, devVars, dataVars, panic>>

\* Calls of alloc_page(), which waits for memory: for a fill, for a private
\* copy of a COW page, for a copy at fork().
Allocs == {"alloc", "calloc", "falloc"}
AfterAlloc(t) == CASE Pc(t) = "calloc" -> "ccore" [] Pc(t) = "falloc" -> "fcore"
                   [] OTHER -> "core"

\* The page is in use, and no longer linked into the free list.  (The code
\* sets C_ALLOC and then drops mem_lock before it clears c_free.)
AllocPage(t) ==
  /\ Pc(t) \in Allocs
  /\ \E f \in free :
       /\ free' = free \ {f}
       /\ cpset' = [cpset EXCEPT ![f] = None]
       /\ thr' = [thr EXCEPT ![t].pg = f, ![t].pc = AfterAlloc(t)]
  /\ UNCHANGED <<latest, setVars, mapVars, devVars, dataVars, panic>>

\* Slip: no reference for the cache entry of a file.
FilledOnce(t, x) ==
  LET s == SetOf(t)
      file == Kind[x] = "FILE"
      p == [slot[x] EXCEPT !.v = TRUE, !.m = FALSE, !.pfn = thr[t].pg,
                           !.refs = 1,
                           !.atl = IF file THEN @ \cup {Cache} ELSE @]
  IN /\ slot' = IF file THEN [slot EXCEPT ![x] = p, ![s] = Shared(@, p.pfn)]
                        ELSE [slot EXCEPT ![x] = p]
     /\ held' = IF file THEN [held EXCEPT ![x] = None] ELSE held
     /\ thr' = [thr EXCEPT ![t].pc = "got", ![t].pg = None, ![t].on = None]

\* The slot of set x has been filled: it is valid, and a file keeps a
\* reference of its own to the page.  If x is the master, its slot is
\* unlocked and shared.
Filled(t, x) ==
  LET s == SetOf(t)
      file == Kind[x] = "FILE"
      p == [slot[x] EXCEPT !.v = TRUE, !.m = FALSE, !.pfn = thr[t].pg,
                           !.refs = IF file THEN 2 ELSE 1,
                           !.atl = IF file THEN @ \cup {Cache} ELSE @]
  IN /\ slot' = IF file THEN [slot EXCEPT ![x] = p, ![s] = Shared(@, p.pfn)]
                        ELSE [slot EXCEPT ![x] = p]
     /\ held' = IF file THEN [held EXCEPT ![x] = None] ELSE held
     /\ thr' = [thr EXCEPT ![t].pc = "got", ![t].pg = None, ![t].on = None]

\* set_core(); a page that needs no I/O is zeroed
SetCore(t) ==
  LET x == thr[t].on  f == thr[t].pg  IN
  /\ Pc(t) = "core" /\ PageUnlocked(f)
  /\ cpset' = [cpset EXCEPT ![f] = x]
  /\ \/ /\ Kind[x] = "ZERO" /\ ~slot[x].swapped
        /\ Filled(t, x)
        /\ mem' = [mem EXCEPT ![f] = "zero"]
     \/ /\ Kind[x] = "FILE" \/ slot[x].swapped
        /\ Goes(t, "read")
        /\ UNCHANGED <<slot, held, mem>>
  /\ UNCHANGED <<latest, prefs, gone, mapVars, free, devVars, swap, panic>>

\* pageio() has read the page
PageIn(t) ==
  LET x == thr[t].on  f == thr[t].pg  IN
  /\ Pc(t) = "read"
  /\ mem' = [mem EXCEPT ![f] = IF Kind[x] = "FILE" THEN "file" ELSE swap[x]]
  /\ Filled(t, x)
  /\ UNCHANGED <<latest, prefs, gone, mapVars, coreVars, devVars, swap, panic>>

\* pageio() has failed: the fault is answered with an event
PageInFails(t) ==
  /\ Pc(t) = "read" /\ ReadsFail
  /\ FreePages({thr[t].pg})
  /\ held' = [x \in Sets |-> IF held[x] = t THEN None ELSE held[x]]
  /\ Back(t)
  /\ UNCHANGED <<latest, slot, prefs, gone, mapVars, devVars, swap, panic>>

BreaksCow(t) == thr[t].w /\ slot[SetOf(t)].cow

\* The slot is held, valid and counts this view: enter the translation,
\* unless another thread of the process did so.
Map(t) ==
  LET v == ViewOf[t]  s == SetOf(t)  p == slot[s]
      q == DerefSlot(s, p)
  IN /\ Pc(t) = "got" /\ ~BreaksCow(t)
     /\ IF pvalid[v]
        THEN /\ slot' = [slot EXCEPT ![s] = q]
             /\ FreePages(Lost(p, q))
             /\ UNCHANGED mapVars
        ELSE /\ slot' = [slot EXCEPT ![s].atl = @ \cup {v}]
             /\ pte' = [pte EXCEPT ![v] = [v |-> TRUE, ro |-> ProtRO(v, p),
                                           m |-> FALSE, pfn |-> p.pfn]]
             /\ pvalid' = [pvalid EXCEPT ![v] = TRUE]
             /\ UNCHANGED <<coreVars, mem>>
     /\ held' = [held EXCEPT ![s] = None]
     /\ Back(t)
     /\ UNCHANGED <<latest, prefs, gone, devVars, swap, panic>>

\* A write to a shared page: this view leaves the attach list, and a page
\* for a private copy is asked for.  The translation is left.
BreakCow(t) ==
  LET v == ViewOf[t]  s == SetOf(t)  p == slot[s] IN
  /\ Pc(t) = "got" /\ BreaksCow(t)
  /\ IF thr[t].was /\ pvalid[v] /\ v \notin p.atl THEN Panics
     ELSE /\ slot' = [slot EXCEPT ![s] =
                        IF thr[t].was THEN [p EXCEPT !.refs = @ - 1,
                                                     !.atl = IF pvalid[v] THEN @ \ {v} ELSE @]
                                      ELSE p]
          /\ pvalid' = IF thr[t].was THEN [pvalid EXCEPT ![v] = FALSE] ELSE pvalid
          /\ Goes(t, "calloc")
          /\ UNCHANGED <<latest, held, prefs, gone, pte, coreVars, devVars, dataVars, panic>>

\* cow_write() copies the page and leaves the master, whose slot it does not
\* lock.
CowWrite(t) ==
  LET s == SetOf(t)  m == Master[s]  f == thr[t].pg  q == DerefSlot(m, slot[m]) IN
  /\ Pc(t) = "ccore" /\ PageUnlocked(f)
  /\ IF ~slot[m].v THEN Panics
     ELSE /\ cpset' = [Linked(Lost(slot[m], q)) EXCEPT ![f] = s]
          /\ slot' = [slot EXCEPT ![m] = q, ![s].cow = FALSE, ![s].pfn = f]
          /\ free' = free \cup Lost(slot[m], q)
          /\ mem' = [g \in Frames |-> IF g = f THEN mem[slot[m].pfn]
                                      ELSE IF g \in Lost(slot[m], q) THEN "junk" ELSE mem[g]]
          /\ thr' = [thr EXCEPT ![t].pc = "got", ![t].was = FALSE, ![t].pg = None]
          /\ UNCHANGED <<latest, held, prefs, gone, mapVars, devVars, swap, panic>>
-----------------------------------------------------------------------------
\* exit(): the last thread of a process detaches the view

\* The view is off the vas.  Whether it is valid is read without the slot
\* lock.
Exit(t) ==
  LET mates == {u \in Users \ {t} : ViewOf[u] = ViewOf[t] /\ Pc(u) \notin {"none", "dead"}} IN
  /\ Pc(t) = "user" /\ t \in Exits
  /\ Goes(t, IF mates # {} THEN "dead" ELSE IF pvalid[ViewOf[t]] THEN "dlock" ELSE "drop")
  /\ UNCHANGED <<latest, setVars, mapVars, coreVars, devVars, dataVars, panic>>


\* A slot without the view v, whose bits it keeps
OffList(p, v) == [p EXCEPT !.atl = @ \ {v}, !.m = @ \/ pte[v].m]

\* detach_pview(): take the slot, delete the translation and the reference
Detach(t) ==
  LET v == ViewOf[t]  s == SetOf(t)
      p == OffList(slot[s], v)
      lastCow == p.cow /\ p.refs = 1
      q == IF lastCow THEN [p EXCEPT !.refs = 0] ELSE DerefSlot(s, p)
  IN /\ Pc(t) = "dlock" /\ held[s] = None
     /\ IF v \notin slot[s].atl THEN Panics
        ELSE /\ slot' = [slot EXCEPT ![s] = q]
             /\ FreePages(Lost(p, q))
             /\ pte' = [pte EXCEPT ![v] = NoPte]
             /\ pvalid' = [pvalid EXCEPT ![v] = FALSE]
             /\ held' = [held EXCEPT ![s] = IF lastCow THEN t ELSE None]
             /\ Goes(t, IF lastCow THEN "clast" ELSE "drop")
             /\ UNCHANGED <<latest, prefs, gone, devVars, swap, panic>>

\* Slip: the slot stays valid.
CowLastValid(t) ==
  LET s == SetOf(t)  m == Master[s]  q == DerefSlot(m, slot[m]) IN
  /\ Pc(t) = "clast" /\ held[m] = None
  /\ slot' = [slot EXCEPT ![m] = q, ![s].cow = FALSE]
  /\ FreePages(Lost(slot[m], q))
  /\ held' = [held EXCEPT ![s] = None]
  /\ Goes(t, "drop")
  /\ UNCHANGED <<latest, prefs, gone, mapVars, devVars, swap, panic>>

\* cow_lastref() gives back the reference to the master
CowLast(t) ==
  LET s == SetOf(t)  m == Master[s]  q == DerefSlot(m, slot[m]) IN
  /\ Pc(t) = "clast" /\ held[m] = None
  /\ slot' = [slot EXCEPT ![m] = q, ![s].cow = FALSE, ![s].v = FALSE]
  /\ FreePages(Lost(slot[m], q))
  /\ held' = [held EXCEPT ![s] = None]
  /\ Goes(t, "drop")
  /\ UNCHANGED <<latest, prefs, gone, mapVars, devVars, swap, panic>>

\* What pset_free() asserts: a page that is left is kept by its cache
\* reference alone.
Freeable(p) == IF p.v THEN p.atl = {Cache} /\ p.refs = 1 ELSE p.atl = {}

\* free_pview() and deref_pset(): with its last view goes the set, and with
\* the last COW set the master.
DropSet(t) ==
  LET s == SetOf(t)
      dies == prefs[s] = 1
      m == Master[s]
      dead == IF ~dies THEN {}
              ELSE IF Kind[s] = "COW" /\ prefs[m] = 1 THEN {s, m} ELSE {s}
  IN /\ Pc(t) = "drop"
     /\ IF \E x \in dead : ~Freeable(slot[x]) THEN Panics
        ELSE /\ prefs' = [x \in Sets |-> IF x = s \/ (dies /\ Kind[s] = "COW" /\ x = m)
                                         THEN prefs[x] - 1 ELSE prefs[x]]
             /\ gone' = gone \cup dead
             /\ FreePages({slot[x].pfn : x \in {y \in dead : slot[y].v}})
             /\ slot' = [x \in Sets |-> IF x \in dead THEN EmptySlot ELSE slot[x]]
             /\ swap' = [x \in Sets |-> IF x \in dead THEN "junk" ELSE swap[x]]
             /\ Goes(t, "dead")
             /\ UNCHANGED <<latest, held, mapVars, devVars, panic>>
-----------------------------------------------------------------------------
\* fork(): copy_pview() and attach_valid_slots().  The references that
\* fork_vas() and dup_pview() take to the old set meanwhile are left out: the
\* thread is in its view.

NewView(t) == ViewOf[Child[t]]
NewSet(t) == Of[NewView(t)]

\* The contents of the copy: what the old set has now, under the new name
Copied(t, c) == IF c = SetOf(t) THEN NewSet(t) ELSE c

\* copy_pset(); psop_dup() of a COW set is another reference to the master
Fork(t) ==
  LET s == SetOf(t)  n == NewSet(t) IN
  /\ Pc(t) = "user" /\ Child[t] # None /\ Pc(Child[t]) = "none"
  /\ prefs' = IF Kind[n] = "COW" THEN [prefs EXCEPT ![Master[n]] = @ + 1] ELSE prefs
  /\ IF slot[s].v \/ slot[s].swapped
     THEN Goes(t, "flock") /\ UNCHANGED latest
     ELSE /\ Goes(t, "attach")
          /\ latest' = [latest EXCEPT ![n] = Copied(t, latest[s])]
  /\ UNCHANGED <<slot, held, gone, mapVars, coreVars, devVars, dataVars, panic>>

\* dup_slots(): a page shared with the master is left to be faulted in
DupSlot(t) ==
  LET s == SetOf(t)  shared == slot[s].v /\ slot[s].cow IN
  /\ Pc(t) = "flock" /\ held[s] = None
  /\ Goes(t, IF shared THEN "attach" ELSE "falloc")
  /\ held' = IF shared THEN held ELSE [held EXCEPT ![s] = t]
  /\ latest' = [latest EXCEPT ![NewSet(t)] = Copied(t, latest[s])]
  /\ UNCHANGED <<slot, prefs, gone, mapVars, coreVars, devVars, dataVars, panic>>

\* copy_page() copies what is in memory, and for a page that is out calls
\* pageio() with FS_ABSWRITE.
CopyPage(t) ==
  LET s == SetOf(t)  n == NewSet(t)  f == thr[t].pg IN
  /\ Pc(t) = "fcore" /\ PageUnlocked(f)
  /\ IF ~slot[s].v /\ ~slot[s].swapped THEN Panics
     ELSE /\ cpset' = [cpset EXCEPT ![f] = n]
          /\ IF slot[s].v
             THEN mem' = [mem EXCEPT ![f] = Copied(t, mem[slot[s].pfn])] /\ UNCHANGED swap
             ELSE swap' = [swap EXCEPT ![s] = mem[f]] /\ UNCHANGED mem
          /\ latest' = [latest EXCEPT ![n] = Copied(t, latest[s])]
          /\ slot' = [slot EXCEPT ![n].v = TRUE, ![n].pfn = f]
          /\ held' = [held EXCEPT ![s] = None]
          /\ thr' = [thr EXCEPT ![t].pc = "attach", ![t].pg = None]
          /\ UNCHANGED <<prefs, gone, mapVars, free, devVars, panic>>

\* The new set gets its view; from here on pageout() looks at it.
AttachView(t) ==
  /\ Pc(t) = "attach"
  /\ prefs' = [prefs EXCEPT ![NewSet(t)] = @ + 1]
  /\ Goes(t, "link")
  /\ UNCHANGED <<latest, slot, held, gone, mapVars, coreVars, devVars, dataVars, panic>>

\* attach_valid_slots() takes no slot lock
LinkSlot(t) ==
  LET v == NewView(t)  n == NewSet(t)  p == slot[n] IN
  /\ Pc(t) = "link"
  /\ Goes(t, "linked")
  /\ IF p.v
     THEN /\ slot' = [slot EXCEPT ![n].atl = @ \cup {v}]
          /\ pte' = [pte EXCEPT ![v] = [v |-> TRUE, ro |-> ProtRO(v, p),
                                        m |-> FALSE, pfn |-> p.pfn]]
     ELSE UNCHANGED <<slot, pte>>
  /\ UNCHANGED <<latest, held, prefs, gone, pvalid, coreVars, devVars, dataVars, panic>>

\* The slot is counted, and the child starts.
ForkEnds(t) ==
  LET v == NewView(t)  n == NewSet(t) IN
  /\ Pc(t) = "linked"
  /\ IF pte[v].v
     THEN /\ slot' = [slot EXCEPT ![n].refs = @ + 1]
          /\ pvalid' = [pvalid EXCEPT ![v] = TRUE]
     ELSE UNCHANGED <<slot, pvalid>>
  /\ thr' = [thr EXCEPT ![t] = At("user"), ![Child[t]] = At("user")]
  /\ UNCHANGED <<latest, held, prefs, gone, pte, coreVars, devVars, dataVars, panic>>
-----------------------------------------------------------------------------
\* pageout(): the two hands of do_hand()

\* A page in use is locked; any may be next, under any shortage.
HandLocks ==
  /\ hand.pc = "scan"
  /\ \E f \in Frames \ free, trouble \in Troubles :
       hand' = [pc |-> "page", f |-> f, s |-> None, trouble |-> trouble]
  /\ UNCHANGED <<progVars, setVars, mapVars, coreVars, qio, missed, dataVars, panic>>

\* Its set is read.  That the page is still in use is not looked at again: a
\* link is taken for a set.
HandReads ==
  /\ hand.pc = "page"
  /\ IF cpset[hand.f] = "link" THEN Panics
     ELSE /\ hand' = IF cpset[hand.f] = None THEN Scanning
                     ELSE [hand EXCEPT !.pc = "look", !.s = cpset[hand.f]]
          /\ UNCHANGED <<progVars, setVars, mapVars, coreVars, qio, missed, dataVars, panic>>

\* clock_slot() can be had, of a set that is in use.
Found ==
  /\ hand.pc = "look"
  /\ hand.s \notin gone /\ prefs[hand.s] > 0 /\ held[hand.s] = None

\* The set is being created, or its slot is busy.
HandSkips ==
  /\ hand.pc = "look"
  /\ IF hand.s \in gone THEN Panics
     ELSE /\ ~Found
          /\ hand' = Scanning
          /\ UNCHANGED <<progVars, setVars, mapVars, coreVars, qio, missed, dataVars, panic>>

Viewers(p) == p.atl \ {Cache}

Dirtied(p) == \E v \in Viewers(p) : pte[v].m

\* getbits(): the bits move from the translations to the slot
GetBits(p) ==
  /\ pte' = [v \in Views |-> IF v \in Viewers(p) THEN [pte[v] EXCEPT !.m = FALSE] ELSE pte[v]]

\* pset_writeslot() marks the slot before the push
Pushed(p) == [p EXCEPT !.m = FALSE, !.swapped = TRUE]

\* The page stays; under a shortage a dirty one is pushed meanwhile.
HandKeeps ==
  LET s == hand.s  p == [slot[s] EXCEPT !.m = @ \/ Dirtied(slot[s])]
      push == hand.trouble > 0 /\ p.m
  IN /\ Found
     /\ IF push /\ ~p.v THEN Panics
        ELSE /\ GetBits(p)
             /\ slot' = [slot EXCEPT ![s] = IF push THEN Pushed(p) ELSE p]
             /\ held' = IF push THEN [held EXCEPT ![s] = "pageout"] ELSE held
             /\ hand' = IF push THEN [hand EXCEPT !.pc = "pushkeep"] ELSE Scanning
             /\ UNCHANGED <<progVars, prefs, gone, pvalid, coreVars, qio, missed, dataVars, panic>>

\* steal1() wants any page if memory is very short, steal2() one that is
\* clean and was not used.
HandWants ==
  LET s == hand.s  p == [slot[s] EXCEPT !.m = @ \/ Dirtied(slot[s])] IN
  /\ Found
  /\ hand.trouble > 1 \/ (hand.trouble > 0 /\ ~p.m)
  /\ GetBits(p)
  /\ slot' = [slot EXCEPT ![s] = p]
  /\ held' = [held EXCEPT ![s] = "pageout"]
  /\ hand' = [hand EXCEPT !.pc = "unvirt"]
  /\ UNCHANGED <<progVars, prefs, gone, pvalid, coreVars, qio, missed, dataVars, panic>>

\* vm_unvirt(): all translations go, and with them their references; a clean
\* page is freed, a dirty one pushed first.
HandSteals ==
  LET s == hand.s  p == slot[s]
      q == [p EXCEPT !.m = @ \/ Dirtied(p), !.atl = {}, !.refs = @ - Cardinality(p.atl)]
  IN /\ hand.pc = "unvirt"
     /\ IF \/ s \in gone \/ p.refs < Cardinality(p.atl)
           \/ q.refs = 0 /\ IF q.m THEN ~p.v ELSE p.pfn \in free
        THEN Panics
        ELSE /\ pte' = [v \in Views |-> IF v \in Viewers(p) THEN NoPte ELSE pte[v]]
             /\ pvalid' = [v \in Views |-> pvalid[v] /\ v \notin Viewers(p)]
             /\ \/ /\ q.refs > 0
                   /\ slot' = [slot EXCEPT ![s] = q]
                   /\ held' = [held EXCEPT ![s] = None]
                   /\ hand' = Scanning
                   /\ UNCHANGED <<coreVars, mem>>
                \/ /\ q.refs = 0 /\ ~q.m
                   /\ slot' = [slot EXCEPT ![s] = [q EXCEPT !.v = FALSE]]
                   /\ FreePages({p.pfn})
                   /\ held' = [held EXCEPT ![s] = None]
                   /\ hand' = Scanning
                \/ /\ q.refs = 0 /\ q.m
                   /\ slot' = [slot EXCEPT ![s] = Pushed(q)]
                   /\ hand' = [hand EXCEPT !.pc = "pushfree"]
                   /\ UNCHANGED <<held, coreVars, mem>>
             /\ UNCHANGED <<progVars, prefs, gone, qio, missed, swap, panic>>

\* alloc_qio() sleeps while all elements are in use; qio() hands the slot
\* over to the I/O.
HandQueues ==
  /\ hand.pc \in {"pushkeep", "pushfree"} /\ Len(qio) < NQio
  /\ qio' = Append(qio, [s |-> hand.s, keep |-> hand.pc = "pushkeep", moved |-> FALSE])
  /\ held' = [held EXCEPT ![hand.s] = "io"]
  /\ hand' = IF hand.pc = "pushkeep" THEN [hand EXCEPT !.pc = "clear"] ELSE Scanning
  /\ UNCHANGED <<progVars, slot, prefs, gone, mapVars, coreVars, missed, dataVars, panic>>

\* PP_M is cleared once more, in a slot that is no longer held: what an exit
\* has noted there since then is missed.
HandClears ==
  /\ hand.pc = "clear"
  /\ IF hand.s \in gone THEN Panics
     ELSE /\ slot' = [slot EXCEPT ![hand.s].m = FALSE]
          /\ missed' = IF slot[hand.s].m /\ swap[hand.s] # latest[hand.s]
                        THEN missed \cup {hand.s} ELSE missed
          /\ hand' = Scanning
          /\ UNCHANGED <<progVars, held, prefs, gone, mapVars, coreVars, qio, dataVars, panic>>
-----------------------------------------------------------------------------
\* A thread in run_qio(); requests go through the port of the swap device
\* one at a time.

\* The device takes the page.
QioMoves ==
  LET q == Head(qio) IN
  /\ qio # << >> /\ ~q.moved
  /\ IF q.s \in gone THEN Panics
     ELSE /\ swap' = [swap EXCEPT ![q.s] = mem[slot[q.s].pfn]]
          /\ qio' = [qio EXCEPT ![1].moved = TRUE]
          /\ UNCHANGED <<progVars, setVars, mapVars, coreVars, hand, missed, mem, panic>>

\* iodone_unlock() and iodone_free()
QioDone ==
  LET q == Head(qio) IN
  /\ qio # << >> /\ q.moved
  /\ IF q.s \in gone THEN Panics
     ELSE /\ slot' = [slot EXCEPT ![q.s].m = FALSE, ![q.s].v = q.keep]
          /\ FreePages(IF q.keep THEN {} ELSE {slot[q.s].pfn})
          /\ held' = [held EXCEPT ![q.s] = None]
          /\ qio' = Tail(qio)
          /\ UNCHANGED <<progVars, prefs, gone, mapVars, hand, missed, swap, panic>>
-----------------------------------------------------------------------------
Thread(t) ==
  \/ Store(t) \/ (\E w \in BOOLEAN : Fault(t, w))
  \/ LockSlot(t) \/ LockMaster(t) \/ AllocPage(t) \/ SetCore(t) \/ PageIn(t)
  \/ PageInFails(t) \/ Map(t) \/ BreakCow(t) \/ CowWrite(t)
  \/ Exit(t) \/ Detach(t) \/ CowLast(t) \/ DropSet(t)
  \/ Fork(t) \/ DupSlot(t) \/ CopyPage(t)
  \/ AttachView(t) \/ LinkSlot(t) \/ ForkEnds(t)

Pageout == HandLocks \/ HandReads \/ HandSkips \/ HandKeeps \/ HandWants \/ HandSteals
           \/ HandQueues \/ HandClears

PagesNext == ~panic /\ ((\E t \in Users : Thread(t)) \/ Pageout \/ QioMoves \/ QioDone)

PagesSpec == PagesInit /\ [][PagesNext]_pageVars
-----------------------------------------------------------------------------
\* Slots, translations and pages have their types.
PagesTypeOK ==
  /\ slot \in [Sets -> [v: BOOLEAN, cow: BOOLEAN, swapped: BOOLEAN, m: BOOLEAN,
                        refs: Nat, pfn: Frames \cup {None}, atl: SUBSET (Views \cup {Cache})]]
  /\ held \in [Sets -> Users \cup {"pageout", "io", None}]
  /\ \A v \in Views : pte[v].pfn \in Frames \cup {None}
  /\ free \subseteq Frames
  /\ mem \in [Frames -> Contents] /\ swap \in [Sets -> Contents]
  /\ latest \in [Sets -> Contents]

\* The slots of COW sets that share the page of a master
Sharers(m) == {s \in CowSets(m) : slot[s].cow /\ s \notin gone}

\* Slots nobody works on: the set is in use, its slot is not held, and no
\* fork() is about to count its first view.
Settled == {s \in Sets : /\ held[s] = None /\ s \notin gone /\ prefs[s] > 0
                         /\ \A t \in Users : Pc(t) \in {"link", "linked"} => NewSet(t) # s}

\* vm_fault.c:17-32: pp_refs counts the attach list, which are the valid
\* views, and the COW slots that share the page; a reference too few frees a
\* page under a view, one too many leaks it.
RefsAreMappings ==
  \A s \in Settled :
    /\ slot[s].refs * (IF slot[s].v THEN 1 ELSE 0)
         = Cardinality(slot[s].atl) + Cardinality(Sharers(s))
    /\ slot[s].v => slot[s].refs > 0
    /\ Viewers(slot[s]) = {v \in Views : Of[v] = s /\ pvalid[v]}

\* What a load through a translation returns is what was last stored in the
\* set through any view, or its first contents: across page-ins, and the
\* private copies of COW pages and of fork(), while pageout() does not run.
MappedIsLatest ==
  \A v \in Views : pte[v].v => /\ pte[v].pfn \notin free
                               /\ mem[pte[v].pfn] = latest[Of[v]]

\* pset.h: PP_SWAPPED says that an image is on swap.  Once the page is out of
\* memory, that image is what programs last stored.
ImageOnSwap ==
  \A s \in Sets \ gone : slot[s].swapped /\ ~slot[s].v => swap[s] = latest[s]



\* Every page is on the free list, the page of one slot, or in the hands of
\* one thread that fills a slot: none is freed or taken twice, or forgotten.
FramesOwned ==
  LET owners(f) == {s \in Sets \ gone : slot[s].v /\ ~slot[s].cow /\ slot[s].pfn = f}
                   \cup {t \in Users : thr[t].pg = f}
                   \cup {"free" : x \in free \cap {f}}
  IN \A f \in Frames : Cardinality(owners(f)) = 1

\* No ASSERT of the code fails, and freed memory is not touched.
AssertsHold == ~panic
=============================================================================
