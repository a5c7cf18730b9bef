---------------------------- MODULE Sema_proofs ----------------------------
(***************************************************************************)
(* The rings of os/mach/mutex.c, for any number of threads and semaphores: *)
(* they stay whole, and they implement the FIFO queues of FifoSema.        *)
(***************************************************************************)
EXTENDS Sema, SequenceTheorems, FiniteSetTheorems, WellFoundedInduction, TLAPS

\* Where one arrives from i in a ring of n, forwards and backwards.
Next1(i, n) == IF i = n THEN 1 ELSE i + 1
Back1(i, n) == IF i = 1 THEN n ELSE i - 1

\* The ring of s spells the queue q of n threads: every sleeper of s stands
\* in it once, linked to the neighbours it has in q, and s_count is negative
\* by their number.
RingOf(q, n, s) ==
  /\ q \in Seq(Threads) /\ Len(q) = n
  /\ \A i, j \in 1..n : q[i] = q[j] => i = j
  /\ \A t \in Threads : t_wchan[t] = s <=> \E i \in 1..n : q[i] = t
  /\ s_sleepq[s] = IF n = 0 THEN Null ELSE q[1]
  /\ \A i \in 1..n : t_hd[q[i]] = q[Next1(i, n)] /\ t_tl[q[i]] = q[Back1(i, n)]
  /\ IF s_count[s] < 0 THEN s_count[s] = -n ELSE n = 0

Ring(q, s) == RingOf(q, Len(q), s)

Rings == \A s \in Semas : \E q : Ring(q, s)

\* A thread is on a wait channel while it sleeps, which is the one that it
\* gave to p_sema(); only a PRICATCH sleep has been broken; and a thread in
\* vall_sema() knows for which semaphore.
SleepersWait ==
  \A t \in Threads :
    /\ t_wchan[t] = IF pc[t] = "sleep" THEN arg[t] ELSE Null
    /\ pc[t] = "sleep" => ~t_intr[t]
    /\ pc[t] = "woken" /\ t_intr[t] => ~t_nointr[t]
    /\ pc[t] \in {"vall", "vcall"} => varg[t] \in Semas

\* The inductive invariant.  RingOK looks at a ring from the outside; which
\* queue it spells says what each link of it is, as q_sema() and dq_sema()
\* need to know.
IInv == TypeOK /\ Rings /\ SleepersWait

-----------------------------------------------------------------------------
(* Walking along a ring.                                                   *)

\* A step around the clock of n hours.
LEMMA Turn ==
  ASSUME NEW n \in Nat \ {0}, NEW i \in Nat
  PROVE  /\ i % n \in 0..(n - 1)
         /\ (i + 1) % n = IF i % n = n - 1 THEN 0 ELSE (i % n) + 1
<1>1. \A k \in Nat : /\ k % n \in 0..(n - 1) /\ k \div n \in Nat
                     /\ k = n * (k \div n) + (k % n)
  OBVIOUS
<1>2. PICK d \in Nat, r \in 0..(n - 1) : i = n * d + r /\ r = i % n
  BY <1>1
<1>3. PICK e \in Nat, k \in 0..(n - 1) : i + 1 = n * e + k /\ k = (i + 1) % n
  <2>1. i + 1 \in Nat
    OBVIOUS
  <2> QED  BY <1>1, <2>1, Zenon
<1>4. \A x, y \in Nat : x > y => n * x >= n * y + n
  <2> SUFFICES ASSUME NEW x \in Nat, NEW y \in Nat, x > y
               PROVE  n * x >= n * y + n
    OBVIOUS
  <2>1. PICK z \in Nat : x = y + 1 + z
    <3>1. x - y - 1 \in Nat /\ x = y + 1 + (x - y - 1)
      OBVIOUS
    <3> QED  BY <3>1
  <2>2. \A m, a, b \in Nat : m * (a + 1 + b) = m * a + m + m * b /\ m * b \in Nat /\ m * a \in Nat
    OBVIOUS
  <2>3. PICK u \in Nat, v \in Nat : u = n * y /\ v = n * z /\ n * x = u + n + v
    BY <2>1, <2>2
  <2>4. u + n + v >= u + n
    OBVIOUS
  <2> QED  BY <2>3, <2>4
<1>5. CASE r = n - 1
  <2>1. n * e + k = n * (d + 1)
    BY <1>2, <1>3, <1>5
  <2>2. e = d + 1
    BY <1>4, <2>1
  <2> QED  BY <1>2, <1>3, <1>5, <2>1, <2>2
<1>6. CASE r # n - 1
  <2>1. n * e + k = n * d + r + 1
    BY <1>2, <1>3
  <2>2. e = d
    BY <1>4, <1>6, <2>1
  <2>3. k = r + 1
    BY <2>1, <2>2
  <2> QED  BY <1>2, <1>3, <1>6, <2>3
<1> QED  BY <1>1, <1>5, <1>6, <1>2

\* Two walks that agree on each step from the same start are the same.
LEMMA SameWalk ==
  ASSUME NEW N \in Nat, NEW f, NEW g, f[0] = g[0],
         \A i \in 1..N : f[i - 1] = g[i - 1] => f[i] = g[i]
  PROVE  \A i \in 0..N : f[i] = g[i]
<1> DEFINE T == {i \in 0..N : f[i] # g[i]}
<1> SUFFICES ASSUME T # {}
             PROVE  FALSE
  OBVIOUS
<1>1. PICK R : R = {p \in Nat \X Nat : p[1] < p[2]}
  OBVIOUS
<1>2. IsWellFoundedOn(R, Nat)
  BY <1>1, NatLessThanWellFounded DEF OpToRel
<1>3. T \subseteq Nat
  OBVIOUS
<1>4. \E x \in T : \A y \in T : ~ (<<y, x>> \in R)
  BY <1>2, <1>3, WFMin
<1>5. PICK x \in T : \A y \in T : ~ (y < x)
  BY <1>1, <1>3, <1>4
<1>6. x \in 1..N /\ x - 1 \in T
  OBVIOUS
<1> QED  BY <1>5, <1>6

\* The ring of s, followed from s_sleepq, goes round and round its queue.
LEMMA WalksRound ==
  ASSUME NEW s \in Semas, NEW q, Ring(q, s), q # << >>
  PROVE  \A i \in 0..Cardinality(Threads) : Walk(s)[i] = q[(i % Len(q)) + 1]
<1>1. PICK N \in Nat, n \in Nat \ {0} : N = Cardinality(Threads) /\ n = Len(q)
  BY SemaAssumption, FS_CardinalityType DEF Ring, RingOf
<1>2. PICK g : g = [i \in 0..N |-> q[(i % n) + 1]]
  OBVIOUS
<1>3. g[0] = s_sleepq[s]
  <2>1. 0 % n = 0 /\ 0 \in 0..N
    OBVIOUS
  <2> QED  BY <1>1, <1>2, <2>1 DEF Ring, RingOf
<1>4. ASSUME NEW i \in 1..N
      PROVE  t_hd[g[i - 1]] = g[i]
  <2>1. PICK j \in Nat : j = i - 1 /\ j \in 0..N /\ i = j + 1
    OBVIOUS
  <2>2. j % n \in 0..(n - 1) /\ i % n = IF j % n = n - 1 THEN 0 ELSE (j % n) + 1
    BY <2>1, Turn
  <2>3. PICK k \in 1..n : k = (j % n) + 1
    BY <2>2
  <2>4. (i % n) + 1 = Next1(k, n)
    BY <2>2, <2>3 DEF Next1
  <2>5. t_hd[q[k]] = q[Next1(k, n)]
    BY <1>1 DEF Ring, RingOf
  <2>6. g[j] = q[k] /\ g[i] = q[Next1(k, n)]
    BY <1>2, <2>1, <2>3, <2>4
  <2> QED  BY <2>1, <2>5, <2>6
<1>5. g = [i \in 0..N |-> IF i = 0 THEN s_sleepq[s] ELSE t_hd[g[i - 1]]]
  <2>1. \A i \in 0..N : g[i] = IF i = 0 THEN s_sleepq[s] ELSE t_hd[g[i - 1]]
    <3> SUFFICES ASSUME NEW i \in 0..N
                 PROVE  g[i] = IF i = 0 THEN s_sleepq[s] ELSE t_hd[g[i - 1]]
      OBVIOUS
    <3>1. i = 0 \/ i \in 1..N
      OBVIOUS
    <3>2. i \in 1..N => i # 0
      OBVIOUS
    <3> QED  BY <1>3, <1>4, <3>1, <3>2
  <2>2. g = [i \in 0..N |-> g[i]]
    BY <1>2
  <2> QED  BY <2>1, <2>2
<1>6. PICK f : /\ f = Walk(s)
               /\ f = [i \in 0..N |-> IF i = 0 THEN s_sleepq[s] ELSE t_hd[f[i - 1]]]
  BY <1>1, <1>5 DEF Walk
<1>7. f[0] = g[0] /\ \A i \in 1..N : f[i - 1] = g[i - 1] => f[i] = g[i]
  <2>1. 0 \in 0..N /\ \A i \in 1..N : i # 0 /\ i \in 0..N
    OBVIOUS
  <2>2. f[0] = s_sleepq[s] /\ \A i \in 1..N : f[i] = t_hd[f[i - 1]]
    BY <1>6, <2>1
  <2> QED  BY <1>3, <1>4, <2>2
<1>8. \A i \in 0..N : f[i] = g[i]
  BY <1>7, SameWalk
<1> QED  BY <1>1, <1>2, <1>6, <1>8

\* As many threads sleep on s as its queue is long.
LEMMA RingCount ==
  ASSUME NEW s \in Semas, NEW q, Ring(q, s)
  PROVE  /\ Len(q) \in Nat
         /\ Cardinality(Sleepers(s)) = Len(q)
         /\ Cardinality(Threads) \in Nat
         /\ Len(q) <= Cardinality(Threads)
         /\ \A t : t \in Sleepers(s) <=> \E i \in 1..Len(q) : q[i] = t
<1>1. q \in Seq(Threads) /\ Len(q) \in Nat
  BY DEF Ring, RingOf
<1>2. \A t : t \in Sleepers(s) <=> \E i \in 1..Len(q) : q[i] = t
  BY <1>1 DEF Ring, RingOf, Sleepers
<1>3. q \in Bijection(1..Len(q), Sleepers(s))
  <2>1. q \in [1..Len(q) -> Sleepers(s)]
    BY <1>1, <1>2
  <2>2. \A i, j \in 1..Len(q) : q[i] = q[j] => i = j
    BY DEF Ring, RingOf
  <2> QED  BY <1>2, <2>1, <2>2 DEF Bijection, Injection, Surjection, IsInjective
<1>4. Cardinality(Sleepers(s)) = Len(q)
  BY <1>1, <1>3, FS_CountingElements DEF ExistsBijection
<1>5. Cardinality(Threads) \in Nat /\ Cardinality(Sleepers(s)) <= Cardinality(Threads)
  BY SemaAssumption, FS_CardinalityType, FS_Subset DEF Sleepers
<1> QED  BY <1>1, <1>2, <1>4, <1>5

\* Read from s_sleepq on, the ring of s spells its queue.
LEMMA RingSpells ==
  ASSUME NEW s \in Semas, NEW q, Ring(q, s)
  PROVE  RingQueue(s) = q
<1>1. q \in Seq(Threads) /\ Len(q) \in Nat /\ DOMAIN q = 1..Len(q)
  BY DEF Ring, RingOf
<1>2. RingQueue(s) = [i \in 1..Len(q) |-> Walk(s)[i - 1]]
  BY RingCount DEF RingQueue
<1>3. ASSUME NEW i \in 1..Len(q)
      PROVE  Walk(s)[i - 1] = q[i]
  <2>1. q # << >> /\ i - 1 \in 0..Cardinality(Threads) /\ (i - 1) % Len(q) = i - 1
    BY <1>1, RingCount
  <2>2. Walk(s)[i - 1] = q[((i - 1) % Len(q)) + 1]
    BY <2>1, WalksRound
  <2> QED  BY <1>1, <2>1, <2>2
<1> QED  BY <1>1, <1>2, <1>3
\* What RingOK sees of a ring is what its queue says.
LEMMA RingsAreOK == TypeOK /\ Rings => RingOK
<1> SUFFICES ASSUME TypeOK, NEW s \in Semas, NEW q, Ring(q, s)
             PROVE  LET n == Cardinality(Sleepers(s)) IN
                    /\ s_count[s] < 0 => s_count[s] = -n
                    /\ s_count[s] >= 0 => n = 0
                    /\ IF n = 0 THEN s_sleepq[s] = Null
                       ELSE /\ {Walk(s)[i] : i \in 0..n-1} = Sleepers(s)
                            /\ Walk(s)[n] = s_sleepq[s]
                            /\ \A t \in Sleepers(s) : t_tl[t_hd[t]] = t /\ t_hd[t_tl[t]] = t
  BY DEF Rings, RingOK
<1>1. PICK n \in Nat, N \in Nat :
        /\ n = Len(q) /\ n = Cardinality(Sleepers(s))
        /\ N = Cardinality(Threads) /\ n <= N
  BY RingCount
<1>2. \A t : t \in Sleepers(s) <=> \E i \in 1..n : q[i] = t
  BY <1>1, RingCount
<1>3. RingOf(q, n, s)
  BY <1>1 DEF Ring
<1>4. (s_count[s] < 0 => s_count[s] = -n) /\ (s_count[s] >= 0 => n = 0)
  <2>1. s_count[s] \in Int
    BY DEF TypeOK
  <2> QED  BY <1>3, <2>1 DEF RingOf
<1>5. CASE n = 0
  BY <1>1, <1>3, <1>4, <1>5 DEF RingOf
<1>6. CASE n # 0
  <2>1. \A i \in 0..n : Walk(s)[i] = q[(i % n) + 1]
    <3>1. q # << >>
      BY <1>1, <1>6
    <3>2. \A i \in 0..N : Walk(s)[i] = q[(i % n) + 1]
      <4>1. \A i \in 0..Cardinality(Threads) : Walk(s)[i] = q[(i % Len(q)) + 1]
        BY <3>1, WalksRound
      <4> QED  BY <1>1, <4>1, Zenon
    <3>3. n <= N
      BY <1>1
    <3>4. \A i \in 0..n : i \in 0..N
      BY <3>3
    <3> QED  BY <3>2, <3>4, Zenon
  <2>2. \A i \in 0..(n - 1) : Walk(s)[i] = q[i + 1]
    <3>1. \A i \in 0..(n - 1) : i % n = i /\ i \in 0..n
      BY <1>6
    <3> QED  BY <2>1, <3>1
  <2>3. Walk(s)[n] = s_sleepq[s]
    <3>1. n % n = 0 /\ n \in 0..n
      BY <1>6
    <3> QED  BY <1>3, <1>6, <2>1, <3>1 DEF Ring, RingOf
  <2>4. {Walk(s)[i] : i \in 0..n-1} = Sleepers(s)
    <3>1. \A i \in 0..n-1 : Walk(s)[i] \in Sleepers(s)
      BY <1>2, <2>2
    <3>2. ASSUME NEW t \in Sleepers(s)
          PROVE  \E i \in 0..n-1 : Walk(s)[i] = t
      <4>1. PICK i \in 1..n : q[i] = t
        BY <1>2
      <4>2. i - 1 \in 0..n-1 /\ Walk(s)[i - 1] = t
        BY <2>2, <4>1
      <4> QED  BY <4>2
    <3> QED  BY <3>1, <3>2
  <2>5. ASSUME NEW t \in Sleepers(s)
        PROVE  t_tl[t_hd[t]] = t /\ t_hd[t_tl[t]] = t
    <3>1. PICK i \in 1..n : q[i] = t
      BY <1>2
    <3>2. /\ Next1(i, n) \in 1..n /\ Back1(Next1(i, n), n) = i
          /\ Back1(i, n) \in 1..n /\ Next1(Back1(i, n), n) = i
      BY DEF Next1, Back1
    <3>3. \A j \in 1..n : t_hd[q[j]] = q[Next1(j, n)] /\ t_tl[q[j]] = q[Back1(j, n)]
      BY <1>3 DEF RingOf
    <3> QED  BY <3>1, <3>2, <3>3
  <2> QED  BY <1>1, <1>4, <1>6, <2>3, <2>4, <2>5
<1> QED  BY <1>5, <1>6

-----------------------------------------------------------------------------
(* Linking and unlinking.                                                  *)

\* A ring whose semaphore and threads a step leaves alone is still there.
LEMMA RingKept ==
  ASSUME NEW s \in Semas, NEW q, Ring(q, s),
         s_sleepq'[s] = s_sleepq[s], s_count'[s] = s_count[s],
         \A u \in Threads : t_wchan[u] = s \/ t_wchan'[u] = s =>
           /\ t_wchan'[u] = t_wchan[u]
           /\ t_hd'[u] = t_hd[u] /\ t_tl'[u] = t_tl[u]
  PROVE  Ring(q, s)'
<1>1. \A i \in 1..Len(q) : q[i] \in Threads /\ t_wchan[q[i]] = s
  BY DEF Ring, RingOf
<1> QED  BY <1>1 DEF Ring, RingOf

\* q_sema() puts the newcomer behind all that sleep already.
LEMMA Enqueue ==
  ASSUME TypeOK, NEW s \in Semas, NEW q, Ring(q, s), NEW t \in Threads,
         t_wchan[t] = Null, ~(s_count[s] > 0),
         QSema(s, t),
         s_count' = [s_count EXCEPT ![s] = @ - 1],
         t_wchan' = [t_wchan EXCEPT ![t] = s]
  PROVE  /\ Ring(Append(q, t), s)'
         /\ \A r \in Semas \ {s} : s_sleepq'[r] = s_sleepq[r]
         /\ \A u \in Threads : u # t /\ t_wchan[u] # s =>
              t_hd'[u] = t_hd[u] /\ t_tl'[u] = t_tl[u]
<1>1. PICK n \in Nat : RingOf(q, n, s) /\ q \in Seq(Threads)
  BY DEF Ring, RingOf
<1>2. \A i \in 1..n : q[i] \in Threads /\ t_wchan[q[i]] = s /\ q[i] # t
  BY <1>1, SemaAssumption DEF RingOf
<1>3. PICK p : p = Append(q, t)
  OBVIOUS
<1>4. /\ p \in Seq(Threads) /\ Len(p) = n + 1
      /\ \A i \in 1..n : p[i] = q[i]
      /\ p[n + 1] = t
  BY <1>1, <1>3 DEF RingOf
<1>5. /\ \A i, j \in 1..n : q[i] = q[j] => i = j
      /\ \A u \in Threads : t_wchan[u] = s <=> \E i \in 1..n : q[i] = u
      /\ n > 0 => s_sleepq[s] = q[1]
      /\ n = 0 => s_sleepq[s] = Null
      /\ \A i \in 1..n : t_hd[q[i]] = q[Next1(i, n)] /\ t_tl[q[i]] = q[Back1(i, n)]
      /\ s_count[s] = -n
  <2>1. s_count[s] \in Int
    BY DEF TypeOK
  <2> QED  BY <1>1, <2>1 DEF RingOf
<1>6. \A i, j \in 1..(n + 1) : p[i] = p[j] => i = j
  <2>1. \A i, j \in 1..n : q[i] = q[j] => i = j
    BY <1>5
  <2>2. \A i \in 1..(n + 1) : i # n + 1 => i \in 1..n
    OBVIOUS
  <2>3. \A i \in 1..n : p[i] = q[i] /\ p[i] # t
    BY <1>2, <1>4
  <2>4. p[n + 1] = t
    BY <1>4
  <2> SUFFICES ASSUME NEW i \in 1..(n + 1), NEW j \in 1..(n + 1), p[i] = p[j]
               PROVE  i = j
    OBVIOUS
  <2> QED  BY <2>1, <2>2, <2>3, <2>4, Zenon
<1>7. \A u \in Threads : t_wchan'[u] = s <=> \E i \in 1..(n + 1) : p[i] = u
  <2> SUFFICES ASSUME NEW u \in Threads
               PROVE  t_wchan'[u] = s <=> \E i \in 1..(n + 1) : p[i] = u
    OBVIOUS
  <2>1. t_wchan'[u] = s <=> t_wchan[u] = s \/ u = t
    BY DEF TypeOK
  <2>2. (\E i \in 1..(n + 1) : p[i] = u) <=> (\E i \in 1..n : q[i] = u) \/ u = t
    BY <1>4
  <2> QED  BY <1>5, <2>1, <2>2
<1>8. s_count'[s] = -(n + 1)
  <2>1. s_count'[s] = s_count[s] - 1
    BY DEF TypeOK
  <2> QED  BY <1>5, <2>1
<1>9. CASE n = 0
  <2>1. /\ s_sleepq' = [s_sleepq EXCEPT ![s] = t]
        /\ t_hd' = [t_hd EXCEPT ![t] = t] /\ t_tl' = [t_tl EXCEPT ![t] = t]
    BY <1>5, <1>9 DEF QSema
  <2>2. s_sleepq'[s] = p[1] /\ t_hd'[t] = t /\ t_tl'[t] = t
    BY <1>4, <1>9, <2>1 DEF TypeOK
  <2>3. \A i \in 1..(n + 1) : t_hd'[p[i]] = p[Next1(i, n + 1)] /\ t_tl'[p[i]] = p[Back1(i, n + 1)]
    BY <1>4, <1>9, <2>2 DEF Next1, Back1
  <2>4. RingOf(p, n + 1, s)'
    BY <1>4, <1>6, <1>7, <1>8, <1>9, <2>2, <2>3 DEF RingOf
  <2> QED  BY <1>3, <1>4, <2>1, <2>4 DEF TypeOK, Ring
<1>10. CASE n > 0
  <2>1. PICK y \in Threads, o \in Threads : y = q[n] /\ o = q[1]
    BY <1>2, <1>10
  <2>2. o # Null /\ s_sleepq[s] = o /\ t_tl[o] = y /\ o # t /\ y # t
    BY <1>2, <1>5, <1>10, <2>1, SemaAssumption DEF Back1
  <2>3. /\ t_hd' = [t_hd EXCEPT ![t] = o, ![y] = t]
        /\ t_tl' = [t_tl EXCEPT ![t] = y, ![o] = t]
        /\ s_sleepq' = s_sleepq
    BY <2>2 DEF QSema
  <2>4. \A u \in Threads : /\ t_hd'[u] = IF u = y THEN t ELSE IF u = t THEN o ELSE t_hd[u]
                           /\ t_tl'[u] = IF u = o THEN t ELSE IF u = t THEN y ELSE t_tl[u]
    BY <2>2, <2>3 DEF TypeOK
  <2>5. ASSUME NEW i \in 1..(n + 1)
        PROVE  t_hd'[p[i]] = p[Next1(i, n + 1)] /\ t_tl'[p[i]] = p[Back1(i, n + 1)]
    <3>1. CASE i = n + 1
      BY <1>4, <1>10, <2>1, <2>2, <2>4, <3>1 DEF Next1, Back1
    <3>2. CASE i # n + 1
      <4>1. i \in 1..n /\ p[i] = q[i] /\ q[i] \in Threads /\ q[i] # t
        BY <1>2, <1>4, <3>2
      <4>2. (q[i] = y <=> i = n) /\ (q[i] = o <=> i = 1)
        BY <1>5, <1>10, <2>1, <4>1
      <4>3. t_hd'[p[i]] = p[Next1(i, n + 1)]
        BY <1>4, <1>5, <2>4, <3>2, <4>1, <4>2 DEF Next1
      <4>4. t_tl'[p[i]] = p[Back1(i, n + 1)]
        BY <1>4, <1>5, <2>4, <3>2, <4>1, <4>2 DEF Back1
      <4> QED  BY <4>3, <4>4
    <3> QED  BY <3>1, <3>2
  <2>6. RingOf(p, n + 1, s)'
    <3>1. s_sleepq'[s] = p[1]
      BY <1>4, <1>10, <2>1, <2>2, <2>3
    <3>2. n + 1 # 0 /\ -(n + 1) < 0
      OBVIOUS
    <3> QED  BY <1>4, <1>6, <1>7, <1>8, <2>5, <3>1, <3>2 DEF RingOf
  <2>7. t_wchan[y] = s /\ t_wchan[o] = s
    BY <1>2, <1>10, <2>1
  <2> QED  BY <1>3, <1>4, <2>3, <2>4, <2>6, <2>7 DEF Ring
<1> QED  BY <1>9, <1>10
\* The queue without its k-th thread.
Cut(q, k) == [i \in 1..(Len(q) - 1) |-> IF i < k THEN q[i] ELSE q[i + 1]]

\* Where the i-th thread of the shorter queue stood in the longer one.
Was(i, k) == IF i < k THEN i ELSE i + 1

CutOf(p, q, n, k) ==
  /\ p \in Seq(Threads) /\ Len(p) = n - 1
  /\ \A i \in 1..(n - 1) : Was(i, k) \in 1..n /\ p[i] = q[Was(i, k)]
  /\ \A j \in 1..n : j # k => \E i \in 1..(n - 1) : j = Was(i, k)
  /\ \A i \in 1..(n - 1) : Was(i, k) # k
  /\ \A i, j \in 1..(n - 1) : Was(i, k) = Was(j, k) => i = j

LEMMA CutQueue ==
  ASSUME NEW q \in Seq(Threads), NEW n \in Nat, n = Len(q), NEW k \in 1..n
  PROVE  CutOf(Cut(q, k), q, n, k)
<1>1. \A i \in 1..(n - 1) : Was(i, k) \in 1..n
  BY DEF Was
<1>2. PICK p : p = [i \in 1..(n - 1) |-> q[Was(i, k)]]
  OBVIOUS
<1>3. n - 1 \in Nat
  OBVIOUS
<1>4. p \in [1..(n - 1) -> Threads]
  BY <1>1, <1>2
<1>5. p \in Seq(Threads) /\ Len(p) = n - 1
  BY <1>3, <1>4
<1>6. p = Cut(q, k)
  <2>1. \A i \in 1..(n - 1) : q[Was(i, k)] = IF i < k THEN q[i] ELSE q[i + 1]
    BY DEF Was
  <2> QED  BY <1>2, <2>1 DEF Cut
<1>7. ASSUME NEW j \in 1..n, j # k
      PROVE  \E i \in 1..(n - 1) : j = Was(i, k)
  <2>1. CASE j < k
    BY <2>1 DEF Was
  <2>2. CASE j > k
    <3>1. j - 1 \in 1..(n - 1) /\ j = Was(j - 1, k)
      BY <2>2 DEF Was
    <3> QED  BY <3>1
  <2> QED  BY <1>7, <2>1, <2>2
<1>8. \A i, j \in 1..(n - 1) : Was(i, k) # k /\ (Was(i, k) = Was(j, k) => i = j)
  BY DEF Was
<1>9. \A i \in 1..(n - 1) : p[i] = q[Was(i, k)]
  BY <1>2
<1>10. CutOf(p, q, n, k)
  BY <1>1, <1>5, <1>7, <1>8, <1>9, Zenon DEF CutOf
<1> QED  BY <1>6, <1>10

\* The neighbours of a thread in the shorter queue are those that it had, but
\* for the two that the k-th stood between.
LEMMA CutNeighbours ==
  ASSUME NEW n \in Nat, NEW k \in 1..n, NEW i \in 1..(n - 1)
  PROVE  /\ Next1(i, n - 1) \in 1..(n - 1) /\ Back1(i, n - 1) \in 1..(n - 1)
         /\ Next1(k, n) \in 1..n /\ Back1(k, n) \in 1..n
         /\ Next1(k, n) # k /\ Back1(k, n) # k
         /\ Was(Next1(i, n - 1), k) = IF Was(i, k) = Back1(k, n) THEN Next1(k, n)
                                      ELSE Next1(Was(i, k), n)
         /\ Was(Back1(i, n - 1), k) = IF Was(i, k) = Next1(k, n) THEN Back1(k, n)
                                      ELSE Back1(Was(i, k), n)
BY DEF Next1, Back1, Was

\* dq_sema() closes the ring behind the thread that leaves, wherever in the
\* queue it stood.
LEMMA Dequeue ==
  ASSUME TypeOK, NEW s \in Semas, NEW q, Ring(q, s), NEW k \in 1..Len(q),
         NEW t, t = q[k],
         DqSema(s, t), t_wchan' = [t_wchan EXCEPT ![t] = Null]
  PROVE  /\ t \in Threads /\ t_wchan[t] = s
         /\ Ring(Cut(q, k), s)'
         /\ \A r \in Semas \ {s} : s_sleepq'[r] = s_sleepq[r] /\ s_count'[r] = s_count[r]
         /\ \A u \in Threads : t_wchan[u] # s =>
              t_hd'[u] = t_hd[u] /\ t_tl'[u] = t_tl[u]
<1>0. q \in Seq(Threads)
  BY DEF Ring, RingOf
<1>1. PICK n \in Nat : n = Len(q) /\ RingOf(q, n, s) /\ q \in Seq(Threads) /\ k \in 1..n
  BY <1>0 DEF Ring
<1>2. PICK p : p = Cut(q, k)
  OBVIOUS
<1>3. /\ p \in Seq(Threads) /\ Len(p) = n - 1
      /\ \A i \in 1..(n - 1) : Was(i, k) \in 1..n /\ p[i] = q[Was(i, k)]
      /\ \A j \in 1..n : j # k => \E i \in 1..(n - 1) : j = Was(i, k)
      /\ \A i \in 1..(n - 1) : Was(i, k) # k
      /\ \A i, j \in 1..(n - 1) : Was(i, k) = Was(j, k) => i = j
  <2>1. n = Len(q) /\ q \in Seq(Threads) /\ k \in 1..n
    BY <1>1
  <2>2. CutOf(p, q, n, k)
    BY <1>2, <2>1, CutQueue
  <2> QED  BY <2>2, Zenon DEF CutOf
<1>4. /\ \A i \in 1..n : q[i] \in Threads /\ t_wchan[q[i]] = s
      /\ \A i, j \in 1..n : q[i] = q[j] => i = j
      /\ \A u \in Threads : t_wchan[u] = s <=> \E i \in 1..n : q[i] = u
      /\ s_sleepq[s] = q[1]
      /\ \A i \in 1..n : t_hd[q[i]] = q[Next1(i, n)] /\ t_tl[q[i]] = q[Back1(i, n)]
      /\ s_count[s] = -n
  BY <1>1 DEF RingOf
<1>5. t \in Threads /\ t_wchan[t] = s /\ s # Null
  BY <1>1, <1>4, SemaAssumption
<1>6. \A i, j \in 1..(n - 1) : p[i] = p[j] => i = j
  <2> SUFFICES ASSUME NEW i \in 1..(n - 1), NEW j \in 1..(n - 1), p[i] = p[j]
               PROVE  i = j
    OBVIOUS
  <2>1. q[Was(i, k)] = q[Was(j, k)] /\ Was(i, k) \in 1..n /\ Was(j, k) \in 1..n
    BY <1>3, Zenon
  <2>2. (\A a, b \in 1..n : q[a] = q[b] => a = b) /\ (Was(i, k) = Was(j, k) => i = j)
    BY <1>3, <1>4, Zenon
  <2> QED  BY <2>1, <2>2, Zenon
<1>7. \A u \in Threads : t_wchan'[u] = s <=> \E i \in 1..(n - 1) : p[i] = u
  <2> SUFFICES ASSUME NEW u \in Threads
               PROVE  t_wchan'[u] = s <=> \E i \in 1..(n - 1) : p[i] = u
    OBVIOUS
  <2>1. t_wchan'[u] = s <=> t_wchan[u] = s /\ u # t
    BY <1>5 DEF TypeOK
  <2>2. ASSUME NEW j \in 1..n, q[j] = u, u # t
        PROVE  \E i \in 1..(n - 1) : p[i] = u
    <3>1. PICK i \in 1..(n - 1) : j = Was(i, k)
      BY <1>3, <2>2
    <3> QED  BY <1>3, <2>2, <3>1
  <2>3. ASSUME NEW i \in 1..(n - 1), p[i] = u
        PROVE  u # t /\ \E j \in 1..n : q[j] = u
    BY <1>1, <1>3, <1>4, <2>3
  <2> QED  BY <1>4, <2>1, <2>2, <2>3
<1>8. s_count'[s] = -(n - 1) /\ s_count' = [s_count EXCEPT ![s] = @ + 1]
  <2>1. s_count' = [s_count EXCEPT ![s] = @ + 1]
    BY DEF DqSema
  <2>2. s_count'[s] = s_count[s] + 1
    BY <2>1 DEF TypeOK
  <2> QED  BY <1>4, <2>1, <2>2
<1>9. t_hd[t] = q[Next1(k, n)] /\ t_tl[t] = q[Back1(k, n)]
  BY <1>1, <1>4
<1>10. CASE n = 1
  <2>1. t_hd[t] = t
    BY <1>1, <1>9, <1>10 DEF Next1
  <2>2. /\ s_sleepq' = [s_sleepq EXCEPT ![s] = Null]
        /\ UNCHANGED <<t_hd, t_tl>>
    BY <2>1 DEF DqSema
  <2>3. s_sleepq'[s] = Null
    BY <2>2 DEF TypeOK
  <2>4. n - 1 = 0
    BY <1>10
  <2>5. RingOf(p, 0, s)'
    <3>1. s_count'[s] = 0
      <4>1. s_count[s] = -1 /\ s_count'[s] = s_count[s] + 1
        BY <1>4, <1>8, <1>10 DEF TypeOK
      <4> QED  BY <4>1
    <3> QED  BY <1>3, <1>7, <2>3, <2>4, <3>1 DEF RingOf
  <2>6. Ring(p, s)'
    BY <1>3, <2>4, <2>5 DEF Ring
  <2> QED  BY <1>2, <1>5, <1>8, <2>2, <2>6 DEF TypeOK
<1>11. CASE n > 1
  <2>1. 1 \in 1..(n - 1)
    BY <1>11
  <2>2. PICK a \in Threads, b \in Threads : a = q[Next1(k, n)] /\ b = q[Back1(k, n)]
    BY <1>1, <1>4, <2>1, CutNeighbours
  <2>3. t_hd[t] = a /\ t_tl[t] = b /\ a # t /\ b # t
    BY <1>1, <1>4, <1>9, <2>1, <2>2, CutNeighbours
  <2>4. /\ t_tl' = [t_tl EXCEPT ![a] = b]
        /\ t_hd' = [t_hd EXCEPT ![b] = a]
        /\ s_sleepq' = [s_sleepq EXCEPT ![s] = IF @ = t THEN a ELSE @]
    BY <2>3 DEF DqSema
  <2>5. \A u \in Threads : /\ t_hd'[u] = IF u = b THEN a ELSE t_hd[u]
                           /\ t_tl'[u] = IF u = a THEN b ELSE t_tl[u]
    BY <2>4 DEF TypeOK
  <2>6. ASSUME NEW i \in 1..(n - 1)
        PROVE  t_hd'[p[i]] = p[Next1(i, n - 1)] /\ t_tl'[p[i]] = p[Back1(i, n - 1)]
    <3>1. PICK j \in 1..n : j = Was(i, k) /\ p[i] = q[j] /\ q[j] \in Threads
      BY <1>3, <1>4
    <3>2. /\ Next1(k, n) \in 1..n /\ Back1(k, n) \in 1..n
          /\ Next1(i, n - 1) \in 1..(n - 1) /\ Back1(i, n - 1) \in 1..(n - 1)
          /\ Was(Next1(i, n - 1), k) = IF j = Back1(k, n) THEN Next1(k, n) ELSE Next1(j, n)
          /\ Was(Back1(i, n - 1), k) = IF j = Next1(k, n) THEN Back1(k, n) ELSE Back1(j, n)
      BY <1>1, <3>1, CutNeighbours
    <3>3. (q[j] = b <=> j = Back1(k, n)) /\ (q[j] = a <=> j = Next1(k, n))
      BY <1>4, <2>2, <3>1, <3>2
    <3>4. /\ p[Next1(i, n - 1)] = q[Was(Next1(i, n - 1), k)]
          /\ p[Back1(i, n - 1)] = q[Was(Back1(i, n - 1), k)]
      BY <1>3, <3>2
    <3>5. t_hd'[p[i]] = p[Next1(i, n - 1)]
      <4>1. t_hd'[q[j]] = IF j = Back1(k, n) THEN a ELSE t_hd[q[j]]
        BY <2>5, <3>1, <3>3
      <4>2. t_hd[q[j]] = q[Next1(j, n)]
        BY <1>4
      <4> QED  BY <2>2, <3>1, <3>2, <3>4, <4>1, <4>2
    <3>6. t_tl'[p[i]] = p[Back1(i, n - 1)]
      <4>1. t_tl'[q[j]] = IF j = Next1(k, n) THEN b ELSE t_tl[q[j]]
        BY <2>5, <3>1, <3>3
      <4>2. t_tl[q[j]] = q[Back1(j, n)]
        BY <1>4
      <4> QED  BY <2>2, <3>1, <3>2, <3>4, <4>1, <4>2
    <3> QED  BY <3>5, <3>6
  <2>7. s_sleepq'[s] = p[1]
    <3>1. s_sleepq'[s] = IF q[1] = t THEN a ELSE q[1]
      BY <1>4, <2>4 DEF TypeOK
    <3>2. q[1] = t <=> k = 1
      BY <1>1, <1>4, <1>11
    <3>3. Was(1, k) = IF k = 1 THEN 2 ELSE 1
      BY <1>1 DEF Was
    <3>4. k = 1 => Next1(k, n) = 2
      BY <1>11 DEF Next1
    <3> QED  BY <1>3, <2>1, <2>2, <3>1, <3>2, <3>3, <3>4
  <2>8. n - 1 # 0 /\ -(n - 1) < 0
    BY <1>11
  <2>9. RingOf(p, n - 1, s)'
    BY <1>3, <1>6, <1>7, <1>8, <2>6, <2>7, <2>8 DEF RingOf
  <2>10. t_wchan[a] = s /\ t_wchan[b] = s
    BY <1>1, <1>4, <2>1, <2>2, CutNeighbours
  <2> QED  BY <1>2, <1>3, <1>5, <1>8, <2>4, <2>5, <2>9, <2>10 DEF TypeOK, Ring
<1> QED  BY <1>1, <1>10, <1>11
-----------------------------------------------------------------------------
(* The steps on the rings, and what becomes of the queues.                 *)

LEMMA RingsSpell == \A s \in Semas : \A q : Ring(q, s) => RingQueue(s) = q
BY RingSpells

LEMMA RingsSpellNext == (\A s \in Semas : \A q : Ring(q, s) => RingQueue(s) = q)'
BY RingsSpell, PTL

\* A ring spells the queue that one reads from it.
LEMMA QueueIs ==
  ASSUME Rings, NEW s \in Semas
  PROVE  Ring(RingQueue(s), s)
BY RingSpells DEF Rings

\* A step that touches no link and no wait channel.
LEMMA QueuesStay ==
  ASSUME Rings, UNCHANGED <<s_sleepq, t_hd, t_tl, t_wchan>>,
         \A s \in Semas : \/ s_count'[s] = s_count[s]
                          \/ ~(s_count[s] < 0) /\ ~(s_count'[s] < 0)
  PROVE  /\ Rings'
         /\ \A s \in Semas : RingQueue(s)' = RingQueue(s)
<1>1. ASSUME NEW s \in Semas
      PROVE  (\E q : Ring(q, s))' /\ RingQueue(s)' = RingQueue(s)
  <2>1. PICK q : q = RingQueue(s)
    OBVIOUS
  <2>2. Ring(q, s)
    BY <2>1, QueueIs
  <2>3. Ring(q, s)'
    BY <2>2 DEF Ring, RingOf
  <2>4. RingQueue(s)' = q
    BY <2>3, RingsSpellNext
  <2> QED  BY <2>1, <2>3, <2>4
<1> QED  BY <1>1 DEF Rings

\* One ring changes as it should, and the others are not touched.
LEMMA OneRing ==
  ASSUME Rings, NEW s \in Semas, NEW p, Ring(p, s)',
         \A r \in Semas \ {s} : s_sleepq'[r] = s_sleepq[r] /\ s_count'[r] = s_count[r],
         \A r \in Semas \ {s}, u \in Threads :
           t_wchan[u] = r \/ t_wchan'[u] = r =>
             /\ t_wchan'[u] = t_wchan[u]
             /\ t_hd'[u] = t_hd[u] /\ t_tl'[u] = t_tl[u]
  PROVE  /\ Rings'
         /\ RingQueue(s)' = p
         /\ \A r \in Semas \ {s} : RingQueue(r)' = RingQueue(r)
<1>1. (\E q : Ring(q, s))' /\ RingQueue(s)' = p
  BY RingsSpellNext
<1>2. ASSUME NEW r \in Semas \ {s}
      PROVE  (\E q : Ring(q, r))' /\ RingQueue(r)' = RingQueue(r)
  <2>1. PICK q : q = RingQueue(r)
    OBVIOUS
  <2>2. Ring(q, r)
    BY <2>1, QueueIs
  <2>3. Ring(q, r)'
    BY <1>2, <2>2, RingKept
  <2>4. RingQueue(r)' = q
    BY <2>3, RingsSpellNext
  <2> QED  BY <2>1, <2>3, <2>4
<1> QED  BY <1>1, <1>2 DEF Rings

\* p_sema() without a unit: behind all that sleep already.
LEMMA JoinsTail ==
  ASSUME TypeOK, Rings, NEW s \in Semas, NEW t \in Threads,
         t_wchan[t] = Null, ~(s_count[s] > 0),
         QSema(s, t),
         s_count' = [s_count EXCEPT ![s] = @ - 1],
         t_wchan' = [t_wchan EXCEPT ![t] = s]
  PROVE  /\ Rings'
         /\ RingQueue(s)' = Append(RingQueue(s), t)
         /\ \A r \in Semas \ {s} : RingQueue(r)' = RingQueue(r)
<1>1. PICK q : q = RingQueue(s) /\ Ring(q, s)
  BY QueueIs
<1>2. /\ Ring(Append(q, t), s)'
      /\ \A r \in Semas \ {s} : s_sleepq'[r] = s_sleepq[r]
      /\ \A u \in Threads : u # t /\ t_wchan[u] # s =>
           t_hd'[u] = t_hd[u] /\ t_tl'[u] = t_tl[u]
  BY <1>1, Enqueue
<1>3. \A r \in Semas \ {s} : s_count'[r] = s_count[r]
  BY DEF TypeOK
<1>4. \A u \in Threads : t_wchan'[u] = IF u = t THEN s ELSE t_wchan[u]
  BY DEF TypeOK
<1>5. \A r \in Semas : t_wchan[t] # r
  BY SemaAssumption
<1>6. \A r \in Semas \ {s}, u \in Threads :
        t_wchan[u] = r \/ t_wchan'[u] = r =>
          /\ t_wchan'[u] = t_wchan[u]
          /\ t_hd'[u] = t_hd[u] /\ t_tl'[u] = t_tl[u]
  BY <1>2, <1>4, <1>5
<1>7. PICK p : p = Append(q, t)
  OBVIOUS
<1>8. Ring(p, s)' /\ \A r \in Semas \ {s} : s_sleepq'[r] = s_sleepq[r] /\ s_count'[r] = s_count[r]
  BY <1>2, <1>3, <1>7
<1>9. /\ Rings' /\ RingQueue(s)' = p
      /\ \A r \in Semas \ {s} : RingQueue(r)' = RingQueue(r)
  BY <1>6, <1>8, OneRing
<1> QED  BY <1>1, <1>7, <1>9

\* dq_sema(): whoever stood k-th is gone.
LEMMA LeavesQueue ==
  ASSUME TypeOK, Rings, NEW s \in Semas, NEW k \in 1..Len(RingQueue(s)),
         NEW t, t = RingQueue(s)[k],
         DqSema(s, t), t_wchan' = [t_wchan EXCEPT ![t] = Null]
  PROVE  /\ Rings'
         /\ RingQueue(s)' = Cut(RingQueue(s), k)
         /\ \A r \in Semas \ {s} : RingQueue(r)' = RingQueue(r)
<1>1. PICK q : q = RingQueue(s) /\ Ring(q, s)
  BY QueueIs
<1>2. /\ t \in Threads /\ t_wchan[t] = s
      /\ Ring(Cut(q, k), s)'
      /\ \A r \in Semas \ {s} : s_sleepq'[r] = s_sleepq[r] /\ s_count'[r] = s_count[r]
      /\ \A u \in Threads : t_wchan[u] # s =>
           t_hd'[u] = t_hd[u] /\ t_tl'[u] = t_tl[u]
  <2>1. k \in 1..Len(q) /\ t = q[k] /\ Ring(q, s)
    BY <1>1
  <2> QED  BY <2>1, Dequeue, Zenon
<1>3. \A u \in Threads : t_wchan'[u] = IF u = t THEN Null ELSE t_wchan[u]
  BY <1>2 DEF TypeOK
<1>4. \A r \in Semas \ {s}, u \in Threads :
        t_wchan[u] = r \/ t_wchan'[u] = r =>
          /\ t_wchan'[u] = t_wchan[u]
          /\ t_hd'[u] = t_hd[u] /\ t_tl'[u] = t_tl[u]
  BY <1>2, <1>3, SemaAssumption
<1>5. PICK p : p = Cut(q, k)
  OBVIOUS
<1> QED  BY <1>1, <1>2, <1>4, <1>5, OneRing

-----------------------------------------------------------------------------
(* Every step keeps the invariant.                                         *)

\* The first sleeper is the one s_sleepq points to, and any thread on the wait
\* channel stands somewhere in the queue.
LEMMA Places ==
  ASSUME TypeOK, Rings, NEW s \in Semas
  PROVE  /\ RingQueue(s) \in Seq(Threads)
         /\ s_sleepq[s] # Null => /\ 1 \in 1..Len(RingQueue(s))
                                  /\ s_sleepq[s] = RingQueue(s)[1]
         /\ s_sleepq[s] = Null <=> RingQueue(s) = << >>
         /\ s_count[s] < 0 <=> RingQueue(s) # << >>
         /\ \A t \in Threads : t_wchan[t] = s =>
              \E k \in 1..Len(RingQueue(s)) : RingQueue(s)[k] = t
         /\ \A k \in 1..Len(RingQueue(s)) :
              RingQueue(s)[k] \in Threads /\ t_wchan[RingQueue(s)[k]] = s
<1> PICK q : q = RingQueue(s)
  OBVIOUS
<1> PICK n \in Nat : n = Len(q) /\ RingOf(q, n, s)
  <2>1. Ring(q, s)
    BY QueueIs
  <2>2. q \in Seq(Threads)
    BY <2>1 DEF Ring, RingOf
  <2>3. Len(q) \in Nat
    BY <2>2
  <2> QED  BY <2>1, <2>3 DEF Ring
<1>1. q = RingQueue(s) /\ RingOf(q, n, s) /\ n = Len(q)
  OBVIOUS
<1>2. q \in Seq(Threads) /\ (q = << >> <=> n = 0)
  <2>1. q \in Seq(Threads)
    BY <1>1 DEF RingOf
  <2> QED  BY <1>1, <2>1
<1>3. n # 0 => q[1] \in Threads /\ q[1] # Null /\ 1 \in 1..n
  BY <1>1, <1>2, SemaAssumption
<1>4. s_count[s] < 0 <=> n # 0
  <2>1. s_count[s] \in Int
    BY DEF TypeOK
  <2> QED  BY <1>1, <2>1 DEF RingOf
<1>5. s_sleepq[s] = IF n = 0 THEN Null ELSE q[1]
  BY <1>1 DEF RingOf
<1>6. \A k \in 1..n : q[k] \in Threads
  BY <1>1, <1>2
<1>7. \A t \in Threads : t_wchan[t] = s <=> \E k \in 1..n : q[k] = t
  BY <1>1 DEF RingOf
<1> QED  BY <1>1, <1>2, <1>3, <1>4, <1>5, <1>6, <1>7

\* p_sema() that sleeps.
LEMMA BlockStep ==
  ASSUME IInv, NEW t \in Threads, NEW s \in Semas, NEW hi \in BOOLEAN,
         pc[t] = "out", ~(s_count[s] > 0),
         s_count' = [s_count EXCEPT ![s] = @ - 1], Block(t, s, hi)
  PROVE  /\ IInv'
         /\ RingQueue(s)' = Append(RingQueue(s), t)
         /\ \A r \in Semas \ {s} : RingQueue(r)' = RingQueue(r)
<1>1. t_wchan[t] = Null
  BY DEF IInv, SleepersWait
<1>2. /\ Rings' /\ RingQueue(s)' = Append(RingQueue(s), t)
      /\ \A r \in Semas \ {s} : RingQueue(r)' = RingQueue(r)
  BY <1>1, JoinsTail DEF IInv, Block
<1>3. TypeOK'
  <2>1. s_sleepq[s] \in Threads => t_tl[s_sleepq[s]] \in Threads
    <3>1. PICK q : Ring(q, s)
      BY DEF IInv, Rings
    <3> q \in Seq(Threads)
      BY <3>1 DEF Ring, RingOf
    <3>2. PICK n \in Nat : RingOf(q, n, s)
      BY <3>1 DEF Ring
    <3>3. n # 0 => 1 \in 1..n /\ Back1(1, n) \in 1..n
      BY DEF Back1
    <3>4. n # 0 => t_tl[q[1]] = q[Back1(1, n)] /\ q[Back1(1, n)] \in Threads
      BY <3>2, <3>3 DEF RingOf
    <3> QED  BY <3>2, <3>4, SemaAssumption DEF RingOf
  <2>2. /\ s_sleepq' \in [Semas -> Threads \cup {Null}]
        /\ t_hd' \in [Threads -> Threads \cup {Null}]
        /\ t_tl' \in [Threads -> Threads \cup {Null}]
    BY <2>1 DEF IInv, TypeOK, Block, QSema
  <2>3. s_count' \in [Semas -> Int]
    BY DEF IInv, TypeOK
  <2> QED  BY <2>2, <2>3 DEF IInv, TypeOK, Block, history
<1>4. SleepersWait'
  BY SemaAssumption DEF IInv, TypeOK, SleepersWait, Block
<1> QED  BY <1>2, <1>3, <1>4 DEF IInv

LEMMA UnlinkTyped ==
  ASSUME TypeOK, NEW s \in Semas, NEW t \in Threads,
         t_hd[t] \in Threads, t_tl[t] \in Threads, DqSema(s, t)
  PROVE  /\ s_sleepq' \in [Semas -> Threads \cup {Null}]
         /\ t_hd' \in [Threads -> Threads \cup {Null}]
         /\ t_tl' \in [Threads -> Threads \cup {Null}]
         /\ s_count' \in [Semas -> Int]
<1>1. s_count' = [s_count EXCEPT ![s] = @ + 1]
  BY DEF DqSema
<1>2. CASE t_hd[t] = t
  <2>1. s_sleepq' = [s_sleepq EXCEPT ![s] = Null] /\ t_hd' = t_hd /\ t_tl' = t_tl
    BY <1>2 DEF DqSema
  <2> QED  BY <1>1, <2>1 DEF TypeOK
<1>3. CASE t_hd[t] # t
  <2>1. /\ t_tl' = [t_tl EXCEPT ![t_hd[t]] = t_tl[t]]
        /\ t_hd' = [t_hd EXCEPT ![t_tl[t]] = t_hd[t]]
        /\ s_sleepq' = [s_sleepq EXCEPT ![s] = IF @ = t THEN t_hd[t] ELSE @]
    BY <1>3 DEF DqSema
  <2> QED  BY <1>1, <2>1 DEF TypeOK
<1> QED  BY <1>2, <1>3

\* Every thread is where it was, but a call of vall_sema() may be back from
\* v_sema() at its test.
SamePlace(at) ==
  /\ at \in [Threads -> {"out", "sleep", "woken", "vall", "vcall"}]
  /\ \A t \in Threads : at[t] = pc[t] \/ (pc[t] = "vcall" /\ at[t] = "vall")

LEMMA AllStay == TypeOK => SamePlace(pc)
<1> QED  BY DEF TypeOK, SamePlace

\* A thread taken off its ring and made runnable: by v_sema() with a unit, by
\* cunsleep() without, which only ends a PRICATCH sleep.
LEMMA WakeStep ==
  ASSUME IInv, NEW s \in Semas, NEW k \in 1..Len(RingQueue(s)),
         NEW t, t = RingQueue(s)[k],
         DqSema(s, t), t_wchan' = [t_wchan EXCEPT ![t] = Null],
         NEW at, SamePlace(at), pc' = [at EXCEPT ![t] = "woken"],
         \/ t_intr' = t_intr
         \/ t_intr' = [t_intr EXCEPT ![t] = TRUE] /\ ~t_nointr[t],
         UNCHANGED <<t_nointr, arg, varg, taken>>,
         given' \in [Semas -> Nat], mixed' \subseteq Semas
  PROVE  /\ IInv'
         /\ RingQueue(s)' = Cut(RingQueue(s), k)
         /\ \A r \in Semas \ {s} : RingQueue(r)' = RingQueue(r)
<1>1. t \in Threads /\ t_wchan[t] = s
  BY Places DEF IInv
<1>2. /\ Rings' /\ RingQueue(s)' = Cut(RingQueue(s), k)
      /\ \A r \in Semas \ {s} : RingQueue(r)' = RingQueue(r)
  BY LeavesQueue DEF IInv
<1>3. TypeOK'
  <2>1. t_hd[t] \in Threads /\ t_tl[t] \in Threads
    <3>1. PICK q : Ring(q, s)
      BY DEF IInv, Rings
    <3> q \in Seq(Threads)
      BY <3>1 DEF Ring, RingOf
    <3>2. PICK n \in Nat : RingOf(q, n, s)
      BY <3>1 DEF Ring
    <3>3. PICK i \in 1..n : q[i] = t
      BY <1>1, <3>2 DEF RingOf
    <3>4. Next1(i, n) \in 1..n /\ Back1(i, n) \in 1..n
      BY DEF Next1, Back1
    <3> QED  BY <3>2, <3>3, <3>4 DEF RingOf
  <2>2. /\ s_sleepq' \in [Semas -> Threads \cup {Null}]
        /\ t_hd' \in [Threads -> Threads \cup {Null}]
        /\ t_tl' \in [Threads -> Threads \cup {Null}]
        /\ s_count' \in [Semas -> Int]
    BY <1>1, <2>1, UnlinkTyped DEF IInv
  <2>3. pc' \in [Threads -> {"out", "sleep", "woken", "vall", "vcall"}]
    BY <1>1 DEF SamePlace
  <2> QED  BY <1>1, <2>2, <2>3 DEF IInv, TypeOK
<1>4. SleepersWait'
  <2>0. pc[t] = "sleep" /\ ~t_intr[t]
    BY <1>1, SemaAssumption DEF IInv, SleepersWait
  <2>1. /\ pc'[t] = "woken" /\ t_wchan'[t] = Null
        /\ t_intr'[t] => ~t_nointr[t]
    BY <1>1, <2>0 DEF IInv, TypeOK, SamePlace
  <2>2. \A u \in Threads \ {t} :
          /\ pc'[u] = pc[u] \/ (pc[u] = "vcall" /\ pc'[u] = "vall")
          /\ t_wchan'[u] = t_wchan[u] /\ t_intr'[u] = t_intr[u]
    BY <1>1 DEF IInv, TypeOK, SamePlace
  <2> QED  BY <2>1, <2>2 DEF IInv, SleepersWait
<1> QED  BY <1>2, <1>3, <1>4 DEF IInv

\* p_sema() and cp_sema() that find a unit.
LEMMA TakeStep ==
  ASSUME IInv, NEW t \in Threads, NEW s \in Semas, s_count[s] > 0,
         s_count' = [s_count EXCEPT ![s] = @ - 1],
         taken' = [taken EXCEPT ![s] = @ + 1],
         UNCHANGED <<s_sleepq, threadVars, pc, arg, varg, given, mixed>>
  PROVE  /\ IInv'
         /\ \A r \in Semas : RingQueue(r)' = RingQueue(r)
<1>1. \A r \in Semas : \/ s_count'[r] = s_count[r]
                       \/ ~(s_count[r] < 0) /\ ~(s_count'[r] < 0)
  BY DEF IInv, TypeOK
<1>2. UNCHANGED <<s_sleepq, t_hd, t_tl, t_wchan>>
  BY DEF threadVars
<1>3. Rings' /\ \A r \in Semas : RingQueue(r)' = RingQueue(r)
  BY <1>1, <1>2, QueuesStay DEF IInv
<1>4. TypeOK'
  BY DEF IInv, TypeOK, threadVars
<1>5. SleepersWait'
  BY DEF IInv, SleepersWait, threadVars
<1> QED  BY <1>3, <1>4, <1>5 DEF IInv

\* p_sema() that returns after its sleep.
LEMMA ReturnStep ==
  ASSUME IInv, NEW t \in Threads, PReturn(t)
  PROVE  /\ IInv'
         /\ \A r \in Semas : RingQueue(r)' = RingQueue(r)
<1>1. UNCHANGED <<s_sleepq, t_hd, t_tl, t_wchan>> /\ s_count' = s_count
  BY DEF PReturn, semaVars
<1>2. Rings' /\ \A r \in Semas : RingQueue(r)' = RingQueue(r)
  BY <1>1, QueuesStay DEF IInv
<1>3. TypeOK'
  BY DEF IInv, TypeOK, PReturn, semaVars
<1>4. SleepersWait'
  BY DEF IInv, TypeOK, SleepersWait, PReturn
<1> QED  BY <1>2, <1>3, <1>4 DEF IInv

\* vall_sema() that starts, and its test.
LEMMA VallEnds ==
  ASSUME IInv, NEW t \in Threads,
         \/ pc[t] = "out" /\ pc' = [pc EXCEPT ![t] = "vall"]
            /\ \E s \in Semas : varg' = [varg EXCEPT ![t] = s]
         \/ pc[t] = "vall" /\ pc' = [pc EXCEPT ![t] = "out"]
            /\ varg' = [varg EXCEPT ![t] = Null]
         \/ pc[t] = "vall" /\ pc' = [pc EXCEPT ![t] = "vcall"] /\ UNCHANGED varg,
         UNCHANGED <<semaVars, threadVars, arg, history>>
  PROVE  /\ IInv'
         /\ \A r \in Semas : RingQueue(r)' = RingQueue(r)
<1>1. UNCHANGED <<s_sleepq, t_hd, t_tl, t_wchan>> /\ s_count' = s_count
  BY DEF semaVars, threadVars
<1>2. Rings' /\ \A r \in Semas : RingQueue(r)' = RingQueue(r)
  BY <1>1, QueuesStay DEF IInv
<1>3. TypeOK'
  BY DEF IInv, TypeOK, semaVars, threadVars, history
<1>4. SleepersWait'
  BY DEF IInv, TypeOK, SleepersWait, threadVars
<1> QED  BY <1>2, <1>3, <1>4 DEF IInv

\* v_sema() with nobody asleep.
LEMMA UnitLeft ==
  ASSUME IInv, NEW s \in Semas, s_sleepq[s] = Null,
         s_count' = [s_count EXCEPT ![s] = @ + 1],
         UNCHANGED <<s_sleepq, threadVars, arg, varg, taken>>, SamePlace(pc'),
         given' \in [Semas -> Nat], mixed' \subseteq Semas
  PROVE  /\ IInv'
         /\ \A r \in Semas : RingQueue(r)' = RingQueue(r)
<1>1. ~(s_count[s] < 0)
  BY Places DEF IInv
<1>2. \A r \in Semas : \/ s_count'[r] = s_count[r]
                       \/ ~(s_count[r] < 0) /\ ~(s_count'[r] < 0)
  BY <1>1 DEF IInv, TypeOK
<1>3. UNCHANGED <<s_sleepq, t_hd, t_tl, t_wchan>>
  BY DEF threadVars
<1>4. Rings' /\ \A r \in Semas : RingQueue(r)' = RingQueue(r)
  BY <1>2, <1>3, QueuesStay DEF IInv
<1>5. TypeOK'
  <2>1. s_count' \in [Semas -> Int]
    BY DEF IInv, TypeOK
  <2> QED  BY <2>1 DEF IInv, TypeOK, threadVars, SamePlace
<1>6. SleepersWait'
  BY DEF IInv, SleepersWait, threadVars, SamePlace
<1> QED  BY <1>4, <1>5, <1>6 DEF IInv

\* cunsleep() of an interruptible sleeper, from its place in the queue.
LEMMA InterruptStep ==
  ASSUME IInv, NEW t \in Threads, SignalThread(t), NEW s \in Semas, s = arg[t]
  PROVE  /\ IInv'
         /\ \E k \in 1..Len(RingQueue(s)) :
              /\ RingQueue(s)[k] = t
              /\ RingQueue(s)' = Cut(RingQueue(s), k)
         /\ \A r \in Semas \ {s} : RingQueue(r)' = RingQueue(r)
<1>1. t_wchan[t] = s
  BY DEF IInv, TypeOK, SleepersWait, SignalThread
<1>2. PICK k \in 1..Len(RingQueue(s)) : RingQueue(s)[k] = t
  BY <1>1, Places DEF IInv
<1>3. given' \in [Semas -> Nat] /\ mixed' \subseteq Semas /\ SamePlace(pc)
  <2>1. given' = given /\ mixed' = mixed \cup {s}
    BY <1>1 DEF SignalThread
  <2> QED  BY <2>1, AllStay DEF IInv, TypeOK
<1>4. /\ DqSema(s, t) /\ t_wchan' = [t_wchan EXCEPT ![t] = Null]
      /\ pc' = [pc EXCEPT ![t] = "woken"]
      /\ t_intr' = [t_intr EXCEPT ![t] = TRUE] /\ ~t_nointr[t]
      /\ UNCHANGED <<t_nointr, arg, varg, taken>>
  BY <1>1 DEF SignalThread, Cunsleep, history
<1>5. /\ IInv' /\ RingQueue(s)' = Cut(RingQueue(s), k)
      /\ \A r \in Semas \ {s} : RingQueue(r)' = RingQueue(r)
  BY <1>2, <1>3, <1>4, WakeStep
<1> QED  BY <1>1, <1>2, <1>5

\* v_sema() with a sleeper: the first one gets the unit.
LEMMA ReleaseStep ==
  ASSUME IInv, NEW s \in Semas, NEW at, SamePlace(at), Release(s, at),
         mixed' \subseteq Semas
  PROVE  /\ IInv'
         /\ RingQueue(s)' = IF RingQueue(s) = << >> THEN RingQueue(s)
                            ELSE Cut(RingQueue(s), 1)
         /\ \A r \in Semas \ {s} : RingQueue(r)' = RingQueue(r)
<1>1. given' \in [Semas -> Nat]
  BY DEF IInv, TypeOK, Release
<1>2. s_sleepq[s] = Null <=> RingQueue(s) = << >>
  BY Places DEF IInv
<1>3. CASE s_sleepq[s] = Null
  <2>1. /\ s_count' = [s_count EXCEPT ![s] = @ + 1]
        /\ UNCHANGED <<s_sleepq, threadVars, arg, varg, taken>> /\ SamePlace(pc')
    BY <1>3 DEF Release, threadVars
  <2>2. IInv' /\ \A r \in Semas : RingQueue(r)' = RingQueue(r)
    BY <1>1, <1>3, <2>1, UnitLeft
  <2> QED  BY <1>2, <1>3, <2>2
<1>4. CASE s_sleepq[s] # Null
  <2>1. PICK t : t = s_sleepq[s]
    OBVIOUS
  <2>2. 1 \in 1..Len(RingQueue(s)) /\ t = RingQueue(s)[1]
    BY <1>4, <2>1, Places DEF IInv
  <2>3. /\ DqSema(s, t) /\ t_wchan' = [t_wchan EXCEPT ![t] = Null]
        /\ pc' = [at EXCEPT ![t] = "woken"] /\ t_intr' = t_intr
        /\ UNCHANGED <<t_nointr, arg, varg, taken>>
    BY <1>4, <2>1 DEF Release
  <2>4. /\ IInv' /\ RingQueue(s)' = Cut(RingQueue(s), 1)
        /\ \A r \in Semas \ {s} : RingQueue(r)' = RingQueue(r)
    BY <1>1, <2>2, <2>3, WakeStep
  <2> QED  BY <1>2, <1>4, <2>4
<1> QED  BY <1>3, <1>4

\* v_sema() as vall_sema() calls it.
LEMMA VallGives ==
  ASSUME IInv, NEW t \in Threads, VallGive(t)
  PROVE  /\ IInv'
         /\ \E s \in Semas : s = varg[t] /\ \E at : SamePlace(at) /\ Release(s, at)
<1>0. varg[t] \in Semas /\ pc[t] = "vcall"
  BY DEF IInv, SleepersWait, VallGive
<1>1. PICK s \in Semas : s = varg[t]
  BY <1>0
<1> DEFINE at == [pc EXCEPT ![t] = "vall"]
<1>2. SamePlace(at) /\ Release(s, at) /\ mixed' \subseteq Semas
  BY <1>0, <1>1 DEF VallGive, IInv, TypeOK, SamePlace
<1> QED  BY <1>1, <1>2, ReleaseStep

\* At the start nobody sleeps.
LEMMA IInvInit == Init => IInv
<1> SUFFICES ASSUME Init
             PROVE  IInv
  OBVIOUS
<1>1. TypeOK
  <2>1. s_count \in [Semas -> Int] /\ given \in [Semas -> Nat]
    BY DEF Init
  <2> QED  BY <2>1 DEF Init, TypeOK
<1>2. ASSUME NEW s \in Semas
      PROVE  \E q : Ring(q, s)
  <2>1. PICK q : q = << >>
    OBVIOUS
  <2>2. q \in Seq(Threads) /\ Len(q) = 0
    BY <2>1
  <2>3. s_count[s] \in 0..1 /\ s_sleepq[s] = Null
    BY DEF Init
  <2>4. \A t \in Threads : t_wchan[t] # s
    BY SemaAssumption DEF Init
  <2>5. RingOf(q, 0, s)
    BY <2>2, <2>3, <2>4 DEF RingOf
  <2> QED  BY <2>2, <2>5 DEF Ring
<1>3. SleepersWait
  BY DEF Init, SleepersWait
<1> QED  BY <1>1, <1>2, <1>3 DEF IInv, Rings

\* One proof per action.
LEMMA IInvStep == IInv /\ [Next]_vars => IInv'
<1> SUFFICES ASSUME IInv, [Next]_vars
             PROVE  IInv'
  OBVIOUS
<1>1. ASSUME NEW t \in Threads, NEW s \in Semas, NEW hi \in BOOLEAN, PSema(t, s, hi)
      PROVE  IInv'
  <2>1. s_count[s] \in Int
    BY DEF IInv, TypeOK
  <2>2. CASE s_count[s] - 1 >= 0
    <3>1. s_count[s] > 0 /\ ~(s_count[s] - 1 < 0)
      BY <2>1, <2>2
    <3>2. /\ s_count' = [s_count EXCEPT ![s] = @ - 1]
          /\ taken' = [taken EXCEPT ![s] = @ + 1]
          /\ UNCHANGED <<s_sleepq, threadVars, pc, arg, varg, given, mixed>>
      BY <1>1, <3>1, Zenon DEF PSema
    <3> QED  BY <3>1, <3>2, TakeStep
  <2>3. CASE s_count[s] - 1 < 0
    <3>1. ~(s_count[s] > 0) /\ ~(s_count[s] - 1 >= 0)
      BY <2>1, <2>3
    <3> QED  BY <1>1, <2>1, <2>3, <3>1, BlockStep DEF PSema
  <2> QED  BY <2>1, <2>2, <2>3
<1>2. ASSUME NEW t \in Threads, NEW s \in Semas, CpSema(t, s)
      PROVE  IInv'
  BY <1>2, TakeStep DEF CpSema
<1>3. ASSUME NEW t \in Threads, NEW s \in Semas, VallSema(t, s)
      PROVE  IInv'
  BY <1>3, VallEnds DEF VallSema
<1>4. ASSUME NEW s \in Semas, VSema(s)
      PROVE  IInv'
  <2>1. SamePlace(pc) /\ mixed' \subseteq Semas /\ Release(s, pc)
    BY <1>4, AllStay DEF VSema, IInv, TypeOK
  <2> QED  BY <2>1, ReleaseStep
<1>5. ASSUME NEW t \in Threads, VallTest(t)
      PROVE  IInv'
  BY <1>5, VallEnds DEF VallTest
<1>8. ASSUME NEW t \in Threads, VallGive(t)
      PROVE  IInv'
  BY <1>8, VallGives
<1>6. ASSUME NEW t \in Threads, SignalThread(t)
      PROVE  IInv'
  <2>1. arg[t] \in Semas
    BY DEF IInv, TypeOK
  <2> QED  BY <1>6, <2>1, InterruptStep
<1>7. CASE UNCHANGED vars
  <2>1. /\ UNCHANGED <<s_sleepq, t_hd, t_tl, t_wchan>> /\ s_count' = s_count
        /\ UNCHANGED <<t_nointr, t_intr, pc, arg, varg, given, taken, mixed>>
    BY <1>7 DEF vars, semaVars, threadVars, history
  <2>2. Rings'
    BY <2>1, QueuesStay DEF IInv
  <2> QED  BY <2>1, <2>2 DEF IInv, TypeOK, SleepersWait
<1> QED  BY <1>1, <1>2, <1>3, <1>4, <1>5, <1>6, <1>7, <1>8, ReturnStep DEF Next

LEMMA Invariance == Spec => []IInv
<1> QED  BY IInvInit, IInvStep, PTL DEF Spec

\* mutex.c keeps its fields to their types: a wait channel is a semaphore or
\* nothing, and the links of a ring join threads.
THEOREM TypeCorrect == Spec => []TypeOK
<1>1. IInv => TypeOK
  BY DEF IInv
<1> QED  BY <1>1, Invariance, PTL

\* However q_sema(), dq_sema() and cunsleep() link and unlink the sleepers of
\* a semaphore, from the head of its ring or from the middle, the ring remains
\* one cycle through exactly those that sleep on it, linked alike in both
\* directions, and s_count is negative by their number.
THEOREM RingsStayWhole == Spec => []RingOK
<1>1. IInv => RingOK
  BY RingsAreOK DEF IInv
<1> QED  BY <1>1, Invariance, PTL

\* The two assertions at the end of p_sema() hold: whoever was woken has left
\* its wait channel, and no PRIHI sleep was broken by an event.
THEOREM WakesPassTheirAsserts == Spec => []WakeAsserts
<1>1. IInv => WakeAsserts
  BY DEF IInv, SleepersWait, WakeAsserts
<1> QED  BY <1>1, Invariance, PTL

-----------------------------------------------------------------------------
(* What vall_sema() leaves behind.                                         *)

\* The calls of vall_sema() that are past the test and have yet to release.
Calling(s) == {t \in Threads : pc[t] = "vcall" /\ varg[t] = s}

\* Each of them may leave its unit behind, if the sleepers go first: they
\* count as if they had.  Whoever passes the test has seen a sleeper, who is
\* a thread as well and not among them.
Counted(s) == s_count[s] + Cardinality(Calling(s))

Bounded(s) == Counted(s) > 0 => Counted(s) <= Cardinality(Threads) - 2

SurplusInv == \A s \in Semas \ mixed : Bounded(s)

LEMMA CallersAre ==
  ASSUME NEW s \in Semas
  PROVE  /\ IsFiniteSet(Calling(s)) /\ Cardinality(Calling(s)) \in Nat
         /\ Cardinality(Threads) \in Nat
BY SemaAssumption, FS_Subset, FS_CardinalityType DEF Calling

LEMMA CallersAreNext ==
  ASSUME NEW s \in Semas
  PROVE  /\ IsFiniteSet(Calling(s)') /\ Cardinality(Calling(s)') \in Nat
BY SemaAssumption, FS_Subset, FS_CardinalityType DEF Calling

\* A step that puts no unit into s and brings nobody past the test.
LEMMA BoundStays ==
  ASSUME IInv, NEW s \in Semas, Bounded(s),
         s_count'[s] \in Int, s_count'[s] <= s_count[s],
         \A t \in Threads : pc'[t] = "vcall" => pc[t] = "vcall" /\ varg'[t] = varg[t]
  PROVE  Bounded(s)'
<1>0. Calling(s)' \subseteq Calling(s)
  BY DEF Calling
<1>1. Cardinality(Calling(s)') <= Cardinality(Calling(s))
  BY <1>0, CallersAre, FS_Subset
<1>2. s_count[s] \in Int
  BY DEF IInv, TypeOK
<1> QED  BY <1>1, <1>2, CallersAre, CallersAreNext DEF Bounded, Counted

\* The test of vall_sema() that finds a sleeper: the calls under way and the
\* sleepers are different threads.
LEMMA TestKeepsBound ==
  ASSUME IInv, NEW s \in Semas, NEW t \in Threads, VallTest(t), varg[t] = s,
         s_count[s] < 0
  PROVE  Bounded(s)'
<1> DEFINE C == Calling(s)'
<1>0. PICK q : Ring(q, s)
  BY DEF IInv, Rings
<1>1. PICK n \in Nat : n = Len(q) /\ RingOf(q, n, s)
  BY <1>0, RingCount DEF Ring
<1>2. n >= 1 /\ s_count[s] = -n /\ s_count'[s] = s_count[s]
  <2>1. s_count[s] = -n
    BY <1>1 DEF RingOf
  <2> QED  BY <2>1 DEF VallTest, semaVars
<1>3. Cardinality(Sleepers(s)) = n /\ IsFiniteSet(Sleepers(s))
  BY <1>0, <1>1, RingCount, SemaAssumption, FS_Subset DEF Sleepers
<1>4. C \cap Sleepers(s) = {}
  <2>1. \A u \in Sleepers(s) : pc[u] = "sleep"
    BY SemaAssumption DEF IInv, SleepersWait, Sleepers
  <2>2. \A u \in Threads : pc'[u] = "vcall" => pc[u] \in {"vall", "vcall"}
    BY DEF VallTest, IInv, TypeOK
  <2> QED  BY <2>1, <2>2 DEF Calling, Sleepers
<1>5. Cardinality(C \cup Sleepers(s)) = Cardinality(C) + n
  <2>1. PICK X, Y : X = C /\ Y = Sleepers(s) /\ Cardinality(X) \in Nat
    BY CallersAreNext
  <2>2. IsFiniteSet(X) /\ IsFiniteSet(Y) /\ Cardinality(X \cap Y) = 0
    BY <1>3, <1>4, <2>1, CallersAreNext, FS_EmptySet
  <2>3. Cardinality(X \cup Y) = Cardinality(X) + Cardinality(Y) - Cardinality(X \cap Y)
    BY <2>2, FS_Union
  <2> QED  BY <1>3, <2>1, <2>2, <2>3
<1>6. Cardinality(C \cup Sleepers(s)) <= Cardinality(Threads)
  BY SemaAssumption, FS_Subset DEF Calling, Sleepers
<1> QED  BY <1>2, <1>5, <1>6, CallersAre, CallersAreNext DEF Bounded, Counted

\* v_sema() of vall_sema(): the call is no longer under way, and its unit is
\* in the semaphore or with a sleeper.
LEMMA GiveKeepsBound ==
  ASSUME IInv, NEW s \in Semas, NEW t \in Threads, VallGive(t), varg[t] = s,
         Bounded(s)
  PROVE  Bounded(s)'
<1>1. s_count' = [s_count EXCEPT ![s] = @ + 1]
  BY DEF VallGive, Release, DqSema
<1>2. t \in Calling(s)
  BY DEF VallGive, Calling
<1>3. Calling(s)' = Calling(s) \ {t}
  <2>1. CASE s_sleepq[s] = Null
    <3>1. pc' = [pc EXCEPT ![t] = "vall"] /\ varg' = varg
      BY <2>1 DEF VallGive, Release
    <3> QED  BY <3>1 DEF IInv, TypeOK, Calling
  <2>2. CASE s_sleepq[s] # Null
    <3>1. PICK u \in Threads : u = s_sleepq[s] /\ pc[u] = "sleep"
      <4>1. s_sleepq[s] \in Threads /\ t_wchan[s_sleepq[s]] = s
        <5>1. /\ 1 \in 1..Len(RingQueue(s)) /\ s_sleepq[s] = RingQueue(s)[1]
              /\ \A k \in 1..Len(RingQueue(s)) :
                   RingQueue(s)[k] \in Threads /\ t_wchan[RingQueue(s)[k]] = s
          BY <2>2, Places DEF IInv
        <5> QED  BY <5>1
      <4> QED  BY <4>1, SemaAssumption DEF IInv, SleepersWait
    <3>2. pc' = [[pc EXCEPT ![t] = "vall"] EXCEPT ![u] = "woken"] /\ varg' = varg
      BY <2>2, <3>1 DEF VallGive, Release
    <3> QED  BY <3>1, <3>2 DEF IInv, TypeOK, Calling
  <2> QED  BY <2>1, <2>2
<1>4. Cardinality(Calling(s)') = Cardinality(Calling(s)) - 1
  BY <1>2, <1>3, CallersAre, FS_RemoveElement
<1>5. s_count[s] \in Int /\ s_count'[s] = s_count[s] + 1
  BY <1>1 DEF IInv, TypeOK
<1> QED  BY <1>4, <1>5, CallersAre DEF Bounded, Counted

\* Of the release of a unit only its own semaphore and the thread that it
\* wakes learn.
LEMMA ReleaseElsewhere ==
  ASSUME IInv, NEW r \in Semas, NEW at, SamePlace(at), Release(r, at),
         NEW s \in Semas, s # r, Bounded(s)
  PROVE  Bounded(s)'
<1>1. s_count' = [s_count EXCEPT ![r] = @ + 1] /\ varg' = varg
  BY DEF Release, DqSema
<1>2. s_count[s] \in Int /\ s_count'[s] = s_count[s]
  BY <1>1 DEF IInv, TypeOK
<1>3. \A t \in Threads : pc'[t] = "vcall" => pc[t] = "vcall"
  BY DEF Release, SamePlace
<1> QED  BY <1>1, <1>2, <1>3, BoundStays

LEMMA SurplusInit == Init => SurplusInv
<1> SUFFICES ASSUME Init, NEW s \in Semas \ mixed
             PROVE  Bounded(s)
  BY DEF SurplusInv
<1>1. s_count[s] = 0 /\ Calling(s) = {}
  BY DEF Init, Calling
<1> QED  BY <1>1, FS_EmptySet DEF Bounded, Counted

LEMMA SurplusStep == IInv /\ SurplusInv /\ [Next]_vars => SurplusInv'
<1> SUFFICES ASSUME IInv, SurplusInv, [Next]_vars, NEW s \in Semas, s \notin mixed'
             PROVE  Bounded(s)'
  BY DEF SurplusInv
<1>0. s_count[s] \in Int /\ s_count \in [Semas -> Int] /\ pc \in [Threads -> {"out", "sleep", "woken", "vall", "vcall"}]
  BY DEF IInv, TypeOK
<1>1. ASSUME NEW t \in Threads, NEW r \in Semas, NEW hi \in BOOLEAN, PSema(t, r, hi)
      PROVE  Bounded(s)'
  <2>1. mixed' = mixed /\ s_count' = [s_count EXCEPT ![r] = @ - 1] /\ varg' = varg
    BY <1>1 DEF PSema, Block, history
  <2>2. \A u \in Threads : pc'[u] = "vcall" => pc[u] = "vcall"
    BY <1>0, <1>1 DEF PSema, Block
  <2>3. s_count'[s] \in Int /\ s_count'[s] <= s_count[s]
    BY <1>0, <2>1
  <2> QED  BY <2>1, <2>2, <2>3, BoundStays DEF SurplusInv
<1>2. ASSUME NEW t \in Threads, NEW r \in Semas, CpSema(t, r)
      PROVE  Bounded(s)'
  <2>1. /\ mixed' = mixed /\ s_count' = [s_count EXCEPT ![r] = @ - 1]
        /\ varg' = varg /\ pc' = pc
    BY <1>2 DEF CpSema
  <2>2. s_count'[s] \in Int /\ s_count'[s] <= s_count[s]
    BY <1>0, <2>1
  <2> QED  BY <2>1, <2>2, BoundStays DEF SurplusInv
<1>3. ASSUME NEW t \in Threads, NEW r \in Semas, VallSema(t, r)
      PROVE  Bounded(s)'
  <2>1. mixed' = mixed /\ s_count' = s_count
    BY <1>3 DEF VallSema, semaVars, history
  <2>2. \A u \in Threads : pc'[u] = "vcall" => pc[u] = "vcall" /\ varg'[u] = varg[u]
    BY <1>0, <1>3 DEF VallSema, IInv, TypeOK
  <2> QED  BY <1>0, <2>1, <2>2, BoundStays DEF SurplusInv
<1>4. ASSUME NEW r \in Semas, VSema(r)
      PROVE  Bounded(s)'
  <2>1. s # r /\ s \notin mixed /\ Release(r, pc) /\ SamePlace(pc)
    BY <1>4, AllStay DEF VSema, IInv
  <2> QED  BY <2>1, ReleaseElsewhere DEF SurplusInv
<1>5. ASSUME NEW t \in Threads, PReturn(t)
      PROVE  Bounded(s)'
  <2>1. mixed' = mixed /\ s_count' = s_count /\ varg' = varg
    BY <1>5 DEF PReturn, semaVars
  <2>2. \A u \in Threads : pc'[u] = "vcall" => pc[u] = "vcall"
    BY <1>0, <1>5 DEF PReturn
  <2> QED  BY <1>0, <2>1, <2>2, BoundStays DEF SurplusInv
<1>6. ASSUME NEW t \in Threads, VallTest(t)
      PROVE  Bounded(s)'
  <2>1. mixed' = mixed /\ s_count' = s_count
    BY <1>6 DEF VallTest, semaVars, history
  <2>2. CASE varg[t] = s /\ s_count[s] < 0
    BY <1>6, <2>2, TestKeepsBound
  <2>3. CASE s_count[varg[t]] < 0 /\ varg[t] # s
    <3>1. Calling(s)' = Calling(s)
      BY <1>0, <1>6, <2>3 DEF VallTest, Calling
    <3> QED  BY <2>1, <3>1 DEF SurplusInv, Bounded, Counted
  <2>4. CASE ~(s_count[varg[t]] < 0)
    <3>1. \A u \in Threads : pc'[u] = "vcall" => pc[u] = "vcall" /\ varg'[u] = varg[u]
      BY <1>0, <1>6, <2>4 DEF VallTest, IInv, TypeOK
    <3> QED  BY <1>0, <2>1, <3>1, BoundStays DEF SurplusInv
  <2> QED  BY <2>2, <2>3, <2>4
<1>7. ASSUME NEW t \in Threads, VallGive(t)
      PROVE  Bounded(s)'
  <2>1. s \notin mixed
    BY <1>7 DEF VallGive
  <2>2. CASE varg[t] = s
    BY <1>7, <2>1, <2>2, GiveKeepsBound DEF SurplusInv
  <2>3. CASE varg[t] # s
    <3>1. PICK r \in Semas : r = varg[t] /\ \E at : SamePlace(at) /\ Release(r, at)
      BY <1>7, VallGives
    <3> QED  BY <2>1, <2>3, <3>1, ReleaseElsewhere DEF SurplusInv
  <2> QED  BY <2>2, <2>3
<1>8. ASSUME NEW t \in Threads, SignalThread(t)
      PROVE  Bounded(s)'
  <2>1. t_wchan[t] # s /\ s \notin mixed /\ varg' = varg
    BY <1>8 DEF SignalThread
  <2>2. s_count' = [s_count EXCEPT ![t_wchan[t]] = @ + 1]
    BY <1>8 DEF SignalThread, Cunsleep, DqSema
  <2>3. s_count'[s] = s_count[s]
    BY <1>0, <2>1, <2>2
  <2>4. \A u \in Threads : pc'[u] = "vcall" => pc[u] = "vcall"
    BY <1>0, <1>8 DEF SignalThread
  <2> QED  BY <1>0, <2>1, <2>3, <2>4, BoundStays DEF SurplusInv
<1>9. CASE UNCHANGED vars
  BY <1>9 DEF vars, semaVars, history, SurplusInv, Bounded, Counted, Calling
<1> QED  BY <1>1, <1>2, <1>3, <1>4, <1>5, <1>6, <1>7, <1>8, <1>9 DEF Next

\* However many threads sleep on a semaphore and call vall_sema() on it at
\* once, with the unlocked test of the loop as out of date as it may be, they
\* leave at most two units less than there are threads: if nobody else
\* releases the semaphore, and no event breaks a sleep there.
THEOREM SurplusStaysSmall == Spec => []VallSurplus
<1>1. IInv /\ SurplusInv => VallSurplus
  <2> SUFFICES ASSUME IInv, SurplusInv, NEW s \in Semas \ mixed, s_count[s] > 0
               PROVE  s_count[s] <= Cardinality(Threads) - 2
    BY DEF VallSurplus
  <2>1. s_count[s] \in Int
    BY DEF IInv, TypeOK
  <2> QED  BY <2>1, CallersAre DEF SurplusInv, Bounded, Counted
<1>2. Spec => []SurplusInv
  BY SurplusInit, SurplusStep, Invariance, PTL DEF Spec
<1> QED  BY <1>1, <1>2, Invariance, PTL

-----------------------------------------------------------------------------
(* The rings implement the queues of FifoSema.                             *)

\* The semaphore that the ring of s stands for.
SemaAt(s) == [cnt |-> s_count[s], q |-> RingQueue(s)]

\* A thread as FifoSema sees it.
StOf(t) == CASE pc[t] = "sleep" -> "asleep"
             [] pc[t] = "woken" -> "woken"
             [] OTHER -> "out"
CatchOf(t) == pc[t] \in {"sleep", "woken"} /\ ~t_nointr[t]

BarSem   == [s \in Semas |-> SemaAt(s)]
BarSt    == [t \in Threads |-> StOf(t)]
BarCatch == [t \in Threads |-> CatchOf(t)]

\* A step that changes one semaphore.
LEMMA OneSema ==
  ASSUME NEW s \in Semas, NEW n, NEW q, s_count'[s] = n, RingQueue(s)' = q,
         \A r \in Semas \ {s} : s_count'[r] = s_count[r] /\ RingQueue(r)' = RingQueue(r)
  PROVE  BarSem' = [BarSem EXCEPT ![s] = [cnt |-> n, q |-> q]]
BY DEF BarSem, SemaAt

\* p_sema() or cp_sema() that finds a unit takes it.
LEMMA TakeIsTake ==
  ASSUME IInv, NEW t \in Threads, NEW s \in Semas, s_count[s] > 0, pc[t] = "out",
         s_count' = [s_count EXCEPT ![s] = @ - 1],
         taken' = [taken EXCEPT ![s] = @ + 1],
         UNCHANGED <<s_sleepq, threadVars, pc, arg, varg, given, mixed>>
  PROVE  Fifo!Take(t, s)
<1>1. \A r \in Semas : RingQueue(r)' = RingQueue(r)
  BY TakeStep
<1>2. /\ s_count'[s] = s_count[s] - 1
      /\ \A r \in Semas \ {s} : s_count'[r] = s_count[r]
  BY DEF IInv, TypeOK
<1>3. PICK n, q : n = s_count[s] - 1 /\ q = RingQueue(s)
  OBVIOUS
<1>4. BarSem' = [BarSem EXCEPT ![s] = [cnt |-> n, q |-> q]]
  BY <1>1, <1>2, <1>3, OneSema
<1>5. /\ Fifo!Free(BarSem[s])
      /\ Fifo!PSema(BarSem[s], t) = [cnt |-> n, q |-> q]
  BY <1>3 DEF Fifo!Free, Fifo!PSema, BarSem, SemaAt
<1>6. BarSt[t] = "out" /\ UNCHANGED <<BarSt, BarCatch, arg, t_intr, given>>
  BY DEF BarSt, BarCatch, StOf, CatchOf, threadVars
<1> QED  BY <1>4, <1>5, <1>6 DEF Fifo!Take, BarSem, BarSt, BarCatch, SemaAt, StOf, CatchOf

\* p_sema() that finds none joins the queue.
LEMMA BlockIsWait ==
  ASSUME IInv, NEW t \in Threads, NEW s \in Semas, NEW hi \in BOOLEAN,
         NEW c \in BOOLEAN, c = IF hi THEN FALSE ELSE TRUE,
         pc[t] = "out", ~(s_count[s] > 0),
         s_count' = [s_count EXCEPT ![s] = @ - 1], Block(t, s, hi)
  PROVE  Fifo!Wait(t, s, c)
<1>1. /\ RingQueue(s)' = Append(RingQueue(s), t)
      /\ \A r \in Semas \ {s} : RingQueue(r)' = RingQueue(r)
  BY BlockStep
<1>2. /\ s_count'[s] = s_count[s] - 1
      /\ \A r \in Semas \ {s} : s_count'[r] = s_count[r]
  BY DEF IInv, TypeOK
<1>3. PICK n, q : n = s_count[s] - 1 /\ q = Append(RingQueue(s), t)
  OBVIOUS
<1>4. BarSem' = [BarSem EXCEPT ![s] = [cnt |-> n, q |-> q]]
  BY <1>1, <1>2, <1>3, OneSema
<1>5. /\ ~Fifo!Free(BarSem[s])
      /\ Fifo!PSema(BarSem[s], t) = [cnt |-> n, q |-> q]
  BY <1>3 DEF Fifo!Free, Fifo!PSema, BarSem, SemaAt
<1>6. /\ BarSt[t] = "out"
      /\ BarSt' = [BarSt EXCEPT ![t] = "asleep"]
      /\ BarCatch' = [BarCatch EXCEPT ![t] = c]
  BY DEF IInv, TypeOK, BarSt, BarCatch, StOf, CatchOf, Block
<1>7. /\ arg' = [arg EXCEPT ![t] = s] /\ t_intr' = [t_intr EXCEPT ![t] = FALSE]
      /\ UNCHANGED <<given, taken>>
  BY DEF Block, history
<1> QED  BY <1>4, <1>5, <1>6, <1>7 DEF Fifo!Wait, BarSem, BarSt, BarCatch, SemaAt, StOf, CatchOf

\* The sleeper that runs again leaves p_sema().
LEMMA ReturnIsReturn ==
  ASSUME IInv, NEW t \in Threads, PReturn(t)
  PROVE  Fifo!Return(t)
<1>1. \A r \in Semas : RingQueue(r)' = RingQueue(r)
  BY ReturnStep
<1>2. BarSem' = BarSem
  BY <1>1 DEF BarSem, SemaAt, PReturn, semaVars
<1>3. /\ BarSt[t] = "woken"
      /\ BarSt' = [BarSt EXCEPT ![t] = "out"]
      /\ BarCatch' = [BarCatch EXCEPT ![t] = FALSE]
  BY DEF IInv, TypeOK, BarSt, BarCatch, StOf, CatchOf, PReturn
<1>4. /\ taken' = IF t_intr[t] THEN taken ELSE [taken EXCEPT ![arg[t]] = @ + 1]
      /\ UNCHANGED <<arg, t_intr, given>>
  BY DEF PReturn
<1> QED  BY <1>2, <1>3, <1>4 DEF Fifo!Return, BarSem, BarSt, BarCatch, SemaAt, StOf, CatchOf

\* Of the start of vall_sema() and of its test the queues see nothing.
LEMMA VallIsNothing ==
  ASSUME IInv, NEW t \in Threads,
         \/ pc[t] = "out" /\ pc' = [pc EXCEPT ![t] = "vall"]
            /\ \E s \in Semas : varg' = [varg EXCEPT ![t] = s]
         \/ pc[t] = "vall" /\ pc' = [pc EXCEPT ![t] = "out"]
            /\ varg' = [varg EXCEPT ![t] = Null]
         \/ pc[t] = "vall" /\ pc' = [pc EXCEPT ![t] = "vcall"] /\ UNCHANGED varg,
         UNCHANGED <<semaVars, threadVars, arg, history>>
  PROVE  UNCHANGED Fifo!vars
<1>1. \A r \in Semas : RingQueue(r)' = RingQueue(r)
  BY VallEnds
<1>2. BarSem' = BarSem
  BY <1>1 DEF BarSem, SemaAt, semaVars
<1>3. BarSt' = BarSt /\ BarCatch' = BarCatch
  BY DEF IInv, TypeOK, BarSt, BarCatch, StOf, CatchOf, threadVars
<1>4. UNCHANGED <<arg, t_intr, given, taken>>
  BY DEF threadVars, history
<1> QED  BY <1>2, <1>3, <1>4 DEF Fifo!vars, BarSem, BarSt, BarCatch, SemaAt, StOf, CatchOf

\* Leaving from the head of the queue, and from the k-th place.
LEMMA CutHead ==
  ASSUME NEW q \in Seq(Threads), q # << >>
  PROVE  Cut(q, 1) = Tail(q)
<1>1. PICK n \in Nat : n = Len(q) /\ 1 \in 1..n
  OBVIOUS
<1>2. PICK p, r : p = Cut(q, 1) /\ r = Tail(q)
  OBVIOUS
<1>3. r \in Seq(Threads) /\ Len(r) = n - 1 /\ \A i \in 1..(n - 1) : r[i] = q[i + 1]
  BY <1>1, <1>2, HeadTailProperties
<1>4. CutOf(p, q, n, 1)
  BY <1>1, <1>2, CutQueue
<1>5. p \in Seq(Threads) /\ Len(p) = n - 1 /\ \A i \in 1..(n - 1) : p[i] = q[i + 1]
  BY <1>4 DEF CutOf, Was
<1>6. Len(p) = Len(r) /\ \A i \in 1..Len(p) : p[i] = r[i]
  BY <1>3, <1>5
<1> QED  BY <1>2, <1>3, <1>5, <1>6, SeqEqual

LEMMA CutIsRemoveAt ==
  ASSUME NEW q \in Seq(Threads), NEW k \in 1..Len(q)
  PROVE  Fifo!RemoveAt(q, k) = Cut(q, k)
<1>1. PICK n \in Nat : n = Len(q) /\ k \in 1..n
  OBVIOUS
<1>2. PICK p, x, y : p = Cut(q, k) /\ x = SubSeq(q, 1, k - 1) /\ y = SubSeq(q, k + 1, n)
  OBVIOUS
<1>3. /\ x \in Seq(Threads) /\ Len(x) = k - 1
      /\ \A i \in 1..(k - 1) : x[i] = q[i]
  <2>1. 1 \in Int /\ k - 1 \in Int /\ \A i \in 1..(k - 1) : q[i] \in Threads
    BY <1>1
  <2>2. /\ x \in Seq(Threads) /\ Len(x) = IF 1 <= k - 1 THEN (k - 1) - 1 + 1 ELSE 0
        /\ \A i \in 1..((k - 1) - 1 + 1) : x[i] = q[1 + i - 1]
    BY <1>2, <2>1, SubSeqProperties
  <2> QED  BY <1>1, <2>2
<1>4. /\ y \in Seq(Threads) /\ Len(y) = n - k
      /\ \A i \in 1..(n - k) : y[i] = q[k + i]
  <2>1. k + 1 \in Int /\ n \in Int /\ \A i \in (k + 1)..n : q[i] \in Threads
    BY <1>1
  <2>2. /\ y \in Seq(Threads) /\ Len(y) = IF k + 1 <= n THEN n - (k + 1) + 1 ELSE 0
        /\ \A i \in 1..(n - (k + 1) + 1) : y[i] = q[(k + 1) + i - 1]
    BY <1>2, <2>1, SubSeqProperties
  <2> QED  BY <1>1, <2>2
<1>5. PICK r : r = x \o y
  OBVIOUS
<1>6. /\ r \in Seq(Threads) /\ Len(r) = (k - 1) + (n - k)
      /\ \A i \in 1..((k - 1) + (n - k)) : r[i] = IF i <= k - 1 THEN x[i] ELSE y[i - (k - 1)]
  <2>1. x \in Seq(Threads) /\ y \in Seq(Threads) /\ Len(x) = k - 1 /\ Len(y) = n - k
    BY <1>3, <1>4
  <2>2. /\ r \in Seq(Threads) /\ Len(r) = Len(x) + Len(y)
        /\ \A i \in 1..(Len(x) + Len(y)) : r[i] = IF i <= Len(x) THEN x[i] ELSE y[i - Len(x)]
    BY <1>5, <2>1, ConcatProperties, Zenon
  <2> QED  BY <2>1, <2>2, Zenon
<1>7. ASSUME NEW i \in 1..(n - 1)
      PROVE  r[i] = q[Was(i, k)]
  <2>1. CASE i < k
    BY <1>3, <1>6, <2>1 DEF Was
  <2>2. CASE ~(i < k)
    <3>1. PICK j \in 1..(n - k) : j = i - (k - 1)
      BY <1>1, <2>2
    <3>2. r[i] = y[j] /\ k + j = i + 1
      BY <1>6, <2>2, <3>1
    <3> QED  BY <1>4, <2>2, <3>2 DEF Was
  <2> QED  BY <2>1, <2>2
<1>8. p \in Seq(Threads) /\ Len(p) = n - 1 /\ \A i \in 1..(n - 1) : p[i] = q[Was(i, k)]
  <2>1. CutOf(p, q, n, k)
    BY <1>1, <1>2, CutQueue
  <2> QED  BY <2>1 DEF CutOf
<1>9. Len(r) = Len(p) /\ \A i \in 1..Len(r) : r[i] = p[i]
  <2>1. (k - 1) + (n - k) = n - 1
    BY <1>1
  <2>2. Len(r) = n - 1
    BY <1>6, <2>1, Zenon
  <2> QED  BY <1>7, <1>8, <2>2, Zenon
<1>10. r = p
  BY <1>6, <1>8, <1>9, SeqEqual
<1> QED  BY <1>1, <1>2, <1>5, <1>10 DEF Fifo!RemoveAt

\* v_sema() releases one unit, whoever calls it.
LEMMA ReleaseIsGive ==
  ASSUME IInv, NEW s \in Semas, NEW at, SamePlace(at), Release(s, at),
         mixed' \subseteq Semas
  PROVE  Fifo!Give(s)
<1>1. /\ RingQueue(s)' = IF RingQueue(s) = << >> THEN RingQueue(s)
                         ELSE Cut(RingQueue(s), 1)
      /\ \A r \in Semas \ {s} : RingQueue(r)' = RingQueue(r)
  BY ReleaseStep
<1>2. s_count' = [s_count EXCEPT ![s] = @ + 1]
  BY DEF Release, DqSema
<1>3. /\ s_count'[s] = s_count[s] + 1
      /\ \A r \in Semas \ {s} : s_count'[r] = s_count[r]
  BY <1>2 DEF IInv, TypeOK
<1>4. /\ RingQueue(s) \in Seq(Threads)
      /\ s_sleepq[s] = Null <=> RingQueue(s) = << >>
      /\ s_sleepq[s] # Null => s_sleepq[s] = RingQueue(s)[1] /\ s_sleepq[s] \in Threads
  BY Places DEF IInv, TypeOK
<1>5. PICK n, q : n = s_count[s] + 1 /\ q = RingQueue(s)'
  OBVIOUS
<1>6. BarSem' = [BarSem EXCEPT ![s] = [cnt |-> n, q |-> q]]
  BY <1>1, <1>3, <1>5, OneSema
<1>7. q = IF RingQueue(s) = << >> THEN RingQueue(s) ELSE Tail(RingQueue(s))
  BY <1>1, <1>4, <1>5, CutHead
<1>8. Fifo!VSema(BarSem[s]) = [cnt |-> n, q |-> q]
  BY <1>5, <1>7 DEF Fifo!VSema, BarSem, SemaAt
<1>9. BarCatch' = BarCatch
      /\ BarSt' = IF BarSem[s].q = << >> THEN BarSt
                  ELSE [BarSt EXCEPT ![Head(BarSem[s].q)] = "woken"]
  <2>1. BarSem[s].q = RingQueue(s)
    BY DEF BarSem, SemaAt
  <2>2. CASE s_sleepq[s] = Null
    <3>1. pc' = at /\ t_nointr' = t_nointr
      BY <2>2 DEF Release
    <3> QED  BY <1>4, <2>1, <2>2, <3>1 DEF BarSt, BarCatch, StOf, CatchOf, SamePlace
  <2>3. CASE s_sleepq[s] # Null
    <3>1. PICK t \in Threads : t = s_sleepq[s] /\ t = Head(RingQueue(s))
      BY <1>4, <2>3
    <3>2. pc' = [at EXCEPT ![t] = "woken"] /\ t_nointr' = t_nointr
      BY <2>3, <3>1 DEF Release
    <3>3. pc[t] = "sleep"
      <4>1. 1 \in 1..Len(RingQueue(s)) /\ t = RingQueue(s)[1]
        BY <2>3, <3>1, Places DEF IInv
      <4>2. t_wchan[t] = s
        BY <4>1, Places DEF IInv
      <4> QED  BY <4>2, SemaAssumption DEF IInv, SleepersWait
    <3>4. BarSt' = [BarSt EXCEPT ![t] = "woken"] /\ BarCatch' = BarCatch
      <4>1. pc'[t] = "woken" /\ \A u \in Threads \ {t} :
              pc'[u] = pc[u] \/ (pc[u] = "vcall" /\ pc'[u] = "vall")
        BY <3>2 DEF SamePlace
      <4>2. /\ \A u \in Threads : StOf(u)' = IF u = t THEN "woken" ELSE StOf(u)
            /\ \A u \in Threads : CatchOf(u)' = CatchOf(u)
        BY <3>2, <3>3, <4>1 DEF StOf, CatchOf
      <4> QED  BY <4>2 DEF BarSt, BarCatch
    <3> QED  BY <1>4, <2>1, <2>3, <3>1, <3>4
  <2> QED  BY <2>2, <2>3
<1>10. /\ given[s] < MaxGiven /\ given' = [given EXCEPT ![s] = @ + 1]
       /\ UNCHANGED <<arg, t_intr, taken>>
  BY DEF Release
<1> QED  BY <1>6, <1>8, <1>9, <1>10 DEF Fifo!Give, BarSem, BarSt, BarCatch, SemaAt, StOf, CatchOf

\* cunsleep() by an event: the thread is taken from where it stands.
LEMMA InterruptIsInterrupt ==
  ASSUME IInv, NEW t \in Threads, SignalThread(t)
  PROVE  Fifo!Interrupt(t)
<1>1. PICK s \in Semas : s = arg[t]
  BY DEF IInv, TypeOK
<1>2. PICK k \in 1..Len(RingQueue(s)) :
        /\ RingQueue(s)[k] = t
        /\ RingQueue(s)' = Cut(RingQueue(s), k)
  BY <1>1, InterruptStep
<1>3. \A r \in Semas \ {s} : RingQueue(r)' = RingQueue(r)
  BY <1>1, InterruptStep
<1>4. pc[t] = "sleep" /\ t_wchan[t] = s
  BY <1>1 DEF IInv, SleepersWait, SignalThread
<1>5. s_count' = [s_count EXCEPT ![s] = @ + 1]
  BY <1>4 DEF SignalThread, Cunsleep, DqSema
<1>6. /\ s_count'[s] = s_count[s] + 1
      /\ \A r \in Semas \ {s} : s_count'[r] = s_count[r]
  BY <1>5 DEF IInv, TypeOK
<1>7. PICK n, q, p : n = s_count[s] + 1 /\ q = RingQueue(s)' /\ p = RingQueue(s)
  OBVIOUS
<1>8. BarSem' = [BarSem EXCEPT ![s] = [cnt |-> n, q |-> q]]
  BY <1>3, <1>6, <1>7, OneSema
<1>9. BarSem[s] = [cnt |-> s_count[s], q |-> p]
  BY <1>7 DEF BarSem, SemaAt
<1>10. Fifo!Position(BarSem[s], t) = k
  <2>1. \A i \in 1..Len(p) : p[i] = t <=> i = k
    <3>1. Ring(p, s)
      BY <1>7, QueueIs DEF IInv
    <3>2. \A i, j \in 1..Len(p) : p[i] = p[j] => i = j
      BY <3>1 DEF Ring, RingOf
    <3> QED  BY <1>2, <1>7, <3>2
  <2>2. Fifo!Position(BarSem[s], t) = CHOOSE i \in 1..Len(p) : p[i] = t
    BY <1>9 DEF Fifo!Position
  <2> QED  BY <1>2, <1>7, <2>1, <2>2
<1>11. Fifo!Cunsleep(BarSem[s], t) = [cnt |-> n, q |-> q]
  <2>1. p \in Seq(Threads) /\ k \in 1..Len(p) /\ q = Cut(p, k)
    BY <1>2, <1>7, Places DEF IInv
  <2>2. Fifo!RemoveAt(p, k) = q
    BY <2>1, CutIsRemoveAt
  <2>3. BarSem[s].q = p /\ BarSem[s].cnt = s_count[s]
    BY <1>9
  <2> QED  BY <1>7, <1>10, <2>2, <2>3 DEF Fifo!Cunsleep
<1>12. /\ BarSt[t] = "asleep" /\ BarCatch[t]
       /\ BarSt' = [BarSt EXCEPT ![t] = "woken"]
       /\ BarCatch' = BarCatch
  BY <1>4 DEF IInv, TypeOK, BarSt, BarCatch, StOf, CatchOf, SignalThread
<1>13. /\ t_intr' = [t_intr EXCEPT ![t] = TRUE]
       /\ UNCHANGED <<arg, given, taken>>
  BY DEF SignalThread, Cunsleep, history
<1> QED  BY <1>1, <1>8, <1>11, <1>12, <1>13
     DEF Fifo!Interrupt, BarSem, BarSt, BarCatch, SemaAt, StOf, CatchOf

LEMMA FifoInit == Init => Fifo!Init
<1> SUFFICES ASSUME Init
             PROVE  Fifo!Init
  OBVIOUS
<1>1. Rings /\ \A s \in Semas : s_sleepq[s] = Null
  BY IInvInit DEF IInv, Init
<1>2. \A s \in Semas : RingQueue(s) = << >>
  BY <1>1, IInvInit, Places DEF IInv
<1>3. /\ given = s_count /\ s_count \in [Semas -> 0..1]
      /\ BarSem = [s \in Semas |-> Fifo!NewSema(given[s])]
  BY <1>2 DEF Init, BarSem, SemaAt, Fifo!NewSema
<1>4. /\ BarSt = [t \in Threads |-> "out"]
      /\ BarCatch = [t \in Threads |-> FALSE]
  BY DEF Init, BarSt, BarCatch, StOf, CatchOf
<1>5. /\ arg \in [Threads -> Semas] /\ t_intr = [t \in Threads |-> FALSE]
      /\ taken = [s \in Semas |-> 0]
  BY DEF Init
<1> QED  BY <1>3, <1>4, <1>5
     DEF Fifo!Init, BarSem, BarSt, BarCatch, SemaAt, StOf, CatchOf

\* Which action of FifoSema each action of the rings is.
LEMMA FifoStep == IInv /\ [Next]_vars => [Fifo!Next]_(Fifo!vars)
<1> SUFFICES ASSUME IInv, [Next]_vars
             PROVE  Fifo!Next \/ UNCHANGED Fifo!vars
  OBVIOUS
<1>1. ASSUME NEW t \in Threads, NEW s \in Semas, NEW hi \in BOOLEAN, PSema(t, s, hi)
      PROVE  Fifo!Next
  <2>1. s_count[s] \in Int
    BY DEF IInv, TypeOK
  <2>2. CASE s_count[s] - 1 >= 0
    <3>1. s_count[s] > 0 /\ ~(s_count[s] - 1 < 0)
      BY <2>1, <2>2
    <3>2. /\ pc[t] = "out" /\ s_count' = [s_count EXCEPT ![s] = @ - 1]
          /\ taken' = [taken EXCEPT ![s] = @ + 1]
          /\ UNCHANGED <<s_sleepq, threadVars, pc, arg, varg, given, mixed>>
      BY <1>1, <3>1, Zenon DEF PSema
    <3>3. Fifo!Take(t, s)
      BY <3>1, <3>2, TakeIsTake
    <3> QED  BY <3>3 DEF Fifo!Next
  <2>3. CASE s_count[s] - 1 < 0
    <3>1. ~(s_count[s] > 0) /\ ~(s_count[s] - 1 >= 0)
      BY <2>1, <2>3
    <3>2. /\ pc[t] = "out" /\ s_count' = [s_count EXCEPT ![s] = @ - 1]
          /\ Block(t, s, hi)
      BY <1>1, <3>1, Zenon DEF PSema
    <3>3. PICK c \in BOOLEAN : c = IF hi THEN FALSE ELSE TRUE
      OBVIOUS
    <3>4. Fifo!Wait(t, s, c)
      BY <3>1, <3>2, <3>3, BlockIsWait
    <3> QED  BY <3>4 DEF Fifo!Next
  <2> QED  BY <2>1, <2>2, <2>3
<1>2. ASSUME NEW t \in Threads, NEW s \in Semas, CpSema(t, s)
      PROVE  Fifo!Next
  BY <1>2, TakeIsTake DEF CpSema, Fifo!Next
<1>3. ASSUME NEW t \in Threads, NEW s \in Semas, VallSema(t, s)
      PROVE  UNCHANGED Fifo!vars
  BY <1>3, VallIsNothing DEF VallSema
<1>4. ASSUME NEW s \in Semas, VSema(s)
      PROVE  Fifo!Next
  <2>1. SamePlace(pc) /\ mixed' \subseteq Semas /\ Release(s, pc)
    BY <1>4, AllStay DEF VSema, IInv, TypeOK
  <2> QED  BY <2>1, ReleaseIsGive DEF Fifo!Next
<1>5. ASSUME NEW t \in Threads, VallTest(t)
      PROVE  UNCHANGED Fifo!vars
  BY <1>5, VallIsNothing DEF VallTest
<1>9. ASSUME NEW t \in Threads, VallGive(t)
      PROVE  Fifo!Next
  <2>1. PICK s \in Semas : \E at : SamePlace(at) /\ Release(s, at)
    BY <1>9, VallGives
  <2>2. mixed' \subseteq Semas
    BY <1>9 DEF VallGive, IInv, TypeOK
  <2> QED  BY <2>1, <2>2, ReleaseIsGive DEF Fifo!Next
<1>6. ASSUME NEW t \in Threads, SignalThread(t)
      PROVE  Fifo!Next
  BY <1>6, InterruptIsInterrupt DEF Fifo!Next
<1>7. ASSUME NEW t \in Threads, PReturn(t)
      PROVE  Fifo!Next
  BY <1>7, ReturnIsReturn DEF Fifo!Next
<1>8. CASE UNCHANGED vars
  <2>1. /\ UNCHANGED <<s_sleepq, t_hd, t_tl, t_wchan>> /\ s_count' = s_count
        /\ UNCHANGED <<t_nointr, t_intr, pc, arg, given, taken>>
    BY <1>8 DEF vars, semaVars, threadVars, history
  <2>2. \A r \in Semas : RingQueue(r)' = RingQueue(r)
    BY <2>1, QueuesStay DEF IInv
  <2>3. BarSem' = BarSem /\ BarSt' = BarSt /\ BarCatch' = BarCatch
    BY <2>1, <2>2 DEF BarSem, SemaAt, BarSt, BarCatch, StOf, CatchOf
  <2> QED  BY <2>1, <2>3 DEF Fifo!vars, BarSem, BarSt, BarCatch, SemaAt, StOf, CatchOf
<1> QED  BY <1>1, <1>2, <1>3, <1>4, <1>5, <1>6, <1>7, <1>8, <1>9 DEF Next

\* The ring code of mutex.c does what FifoSema promises: units are handed out
\* in the order of arrival, an event only breaks an interruptible sleep, and
\* vall_sema() is no more than a series of releases.
THEOREM RingsImplementFifo == Spec => ImplementsFifo
<1>1. Spec => Fifo!Init /\ [][Fifo!Next]_(Fifo!vars)
  BY FifoInit, FifoStep, Invariance, PTL DEF Spec
<1> QED  BY <1>1 DEF ImplementsFifo, Fifo!Spec

=============================================================================
