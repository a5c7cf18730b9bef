--------------------------- MODULE SemaOps_proofs ---------------------------
(***************************************************************************)
(* What the semaphore operators return: they stay semaphores, and they     *)
(* keep the queue free of duplicates and the count in step with it.        *)
(***************************************************************************)
EXTENDS SemaOps, SequenceTheorems, TLAPS

-----------------------------------------------------------------------------
(* The three ways a queue of threads changes.                              *)

\* q_sema(): a newcomer at the tail.
LEMMA AppendQueue ==
  ASSUME NEW T, NEW q \in Seq(T), NEW t \in T
  PROVE  /\ Append(q, t) \in Seq(T)
         /\ Len(Append(q, t)) = Len(q) + 1
         /\ \A u \in T : Contains(Append(q, t), u) <=> Contains(q, u) \/ u = t
         /\ IsInjective(q) /\ ~Contains(q, t) => IsInjective(Append(q, t))
<1>1. PICK p : p = Append(q, t)
  OBVIOUS
<1>2. /\ p \in Seq(T)
      /\ Len(p) = Len(q) + 1
      /\ \A i \in 1..Len(q) : p[i] = q[i]
      /\ p[Len(q) + 1] = t
  BY <1>1
<1>3. \A u \in T : Contains(p, u) <=> Contains(q, u) \/ u = t
  BY <1>2 DEF Contains
<1>4. ASSUME IsInjective(q), ~Contains(q, t)
      PROVE  IsInjective(p)
  <2>1. \A i \in 1..Len(q) : q[i] # t
    BY <1>4 DEF Contains
  <2> QED  BY <1>2, <1>4, <2>1 DEF IsInjective
<1> QED  BY <1>1, <1>2, <1>3, <1>4

\* v_sema(): the head leaves.
LEMMA TailQueue ==
  ASSUME NEW T, NEW q \in Seq(T), q # << >>
  PROVE  /\ Tail(q) \in Seq(T)
         /\ Len(Tail(q)) = Len(q) - 1
         /\ Head(q) \in T
         /\ Contains(q, Head(q))
         /\ IsInjective(q) => /\ IsInjective(Tail(q))
                              /\ \A u \in T : Contains(Tail(q), u) <=>
                                                Contains(q, u) /\ u # Head(q)
<1>1. PICK p : p = Tail(q)
  OBVIOUS
<1>2. /\ p \in Seq(T)
      /\ Len(p) = Len(q) - 1
      /\ Len(q) \in Nat \ {0}
      /\ Head(q) = q[1] /\ q[1] \in T
      /\ \A i \in 1..Len(p) : p[i] = q[i + 1]
  BY <1>1
<1>3. Contains(q, Head(q))
  BY <1>2 DEF Contains
<1>4. ASSUME IsInjective(q)
      PROVE  IsInjective(p)
  BY <1>2, <1>4 DEF IsInjective
<1>5. ASSUME IsInjective(q), NEW u \in T, Contains(p, u)
      PROVE  Contains(q, u) /\ u # Head(q)
  BY <1>2, <1>5 DEF IsInjective, Contains
<1>6. ASSUME NEW u \in T, Contains(q, u), u # Head(q)
      PROVE  Contains(p, u)
  <2>1. PICK i \in 1..Len(q) : q[i] = u
    BY <1>6 DEF Contains
  <2>2. i - 1 \in 1..Len(p) /\ p[i - 1] = u
    BY <1>2, <1>6, <2>1
  <2> QED  BY <2>2 DEF Contains
<1> QED  BY <1>1, <1>2, <1>3, <1>4, <1>5, <1>6

\* What leaving from the k-th place does to the places behind it.
LEMMA RemoveAtIs ==
  ASSUME NEW T, NEW q \in Seq(T), NEW k \in 1..Len(q)
  PROVE  /\ RemoveAt(q, k) \in Seq(T)
         /\ Len(RemoveAt(q, k)) = Len(q) - 1
         /\ \A i \in 1..(Len(q) - 1) :
              RemoveAt(q, k)[i] = IF i < k THEN q[i] ELSE q[i + 1]
<1>1. PICK p, a, b : /\ p = RemoveAt(q, k)
                     /\ a = SubSeq(q, 1, k - 1)
                     /\ b = SubSeq(q, k + 1, Len(q))
  OBVIOUS
<1>2. p = a \o b
  BY <1>1 DEF RemoveAt
<1>3. /\ a \in Seq(T)
      /\ Len(a) = k - 1
      /\ \A i \in 1..(k - 1) : a[i] = q[i]
  BY <1>1, SubSeqProperties
<1>4. /\ b \in Seq(T)
      /\ Len(b) = Len(q) - k
      /\ \A i \in 1..(Len(q) - k) : b[i] = q[k + i]
  <2>1. \A i \in (k + 1)..Len(q) : q[i] \in T
    OBVIOUS
  <2>2. /\ SubSeq(q, k + 1, Len(q)) \in Seq(T)
        /\ Len(SubSeq(q, k + 1, Len(q)))
             = IF k + 1 <= Len(q) THEN Len(q) - (k + 1) + 1 ELSE 0
        /\ \A i \in 1..(Len(q) - (k + 1) + 1) :
             SubSeq(q, k + 1, Len(q))[i] = q[(k + 1) + i - 1]
    BY <2>1, SubSeqProperties
  <2> QED  BY <1>1, <2>2
<1>5. /\ p \in Seq(T)
      /\ Len(p) = Len(q) - 1
      /\ \A i \in 1..Len(p) : p[i] = IF i < k THEN q[i] ELSE q[i + 1]
  <2>1. /\ p \in Seq(T)
        /\ Len(p) = Len(a) + Len(b)
        /\ \A i \in 1..(Len(a) + Len(b)) :
             p[i] = IF i <= Len(a) THEN a[i] ELSE b[i - Len(a)]
    BY <1>2, <1>3, <1>4, ConcatProperties
  <2>2. Len(p) = Len(q) - 1
    BY <1>3, <1>4, <2>1
  <2>3. ASSUME NEW i \in 1..Len(p)
        PROVE  p[i] = IF i < k THEN q[i] ELSE q[i + 1]
    <3>1. CASE i < k
      BY <1>3, <1>4, <2>1, <2>2, <3>1
    <3>2. CASE i >= k
      <4>1. p[i] = b[i - (k - 1)] /\ i - (k - 1) \in 1..(Len(q) - k)
        BY <1>3, <1>4, <2>1, <2>2, <3>2
      <4> QED  BY <1>4, <4>1, <3>2
    <3> QED  BY <3>1, <3>2
  <2> QED  BY <2>1, <2>2, <2>3
<1> QED  BY <1>1, <1>5

\* cunsleep(): somebody in the middle leaves.
LEMMA RemoveQueue ==
  ASSUME NEW T, NEW q \in Seq(T), NEW k \in 1..Len(q), IsInjective(q)
  PROVE  /\ RemoveAt(q, k) \in Seq(T)
         /\ Len(RemoveAt(q, k)) = Len(q) - 1
         /\ IsInjective(RemoveAt(q, k))
         /\ \A u \in T : Contains(RemoveAt(q, k), u) <=>
                           Contains(q, u) /\ u # q[k]
<1>1. PICK p : p = RemoveAt(q, k)
  OBVIOUS
<1>2. /\ p \in Seq(T)
      /\ Len(p) = Len(q) - 1
      /\ \A i \in 1..Len(p) : p[i] = IF i < k THEN q[i] ELSE q[i + 1]
  <2>1. /\ p \in Seq(T)
        /\ Len(p) = Len(q) - 1
        /\ \A i \in 1..(Len(q) - 1) : p[i] = IF i < k THEN q[i] ELSE q[i + 1]
    BY <1>1, RemoveAtIs, Zenon
  <2> QED  BY <2>1, Zenon
<1>3. IsInjective(p)
  <2>1. PICK n \in Nat : n = Len(q) /\ DOMAIN q = 1..n /\ DOMAIN p = 1..(n - 1)
    BY <1>2
  <2>2. \A i, j \in 1..n : q[i] = q[j] => i = j
    BY <2>1 DEF IsInjective
  <2> SUFFICES ASSUME NEW i \in 1..(n - 1), NEW j \in 1..(n - 1), p[i] = p[j]
               PROVE  i = j
    BY <2>1 DEF IsInjective
  <2>a. k \in Nat /\ \A x \in 1..(n - 1) : p[x] = IF x < k THEN q[x] ELSE q[x + 1]
    BY <1>2, <2>1
  <2>3. PICK a \in 1..n : a = (IF i < k THEN i ELSE i + 1) /\ p[i] = q[a]
    <3>1. (IF i < k THEN i ELSE i + 1) \in 1..n
      BY <2>a
    <3> QED  BY <2>a, <3>1
  <2>4. PICK b \in 1..n : b = (IF j < k THEN j ELSE j + 1) /\ p[j] = q[b]
    <3>1. (IF j < k THEN j ELSE j + 1) \in 1..n
      BY <2>a
    <3> QED  BY <2>a, <3>1
  <2>5. a = b
    BY <2>2, <2>3, <2>4, Zenon
  <2> QED  BY <2>3, <2>4, <2>5
<1>4. ASSUME NEW u \in T, Contains(p, u)
      PROVE  Contains(q, u) /\ u # q[k]
  <2>1. PICK i \in 1..Len(p) : p[i] = u
    BY <1>4 DEF Contains
  <2>2. PICK j \in 1..Len(q) : j # k /\ q[j] = u
    BY <1>2, <2>1
  <2> QED  BY <2>2 DEF Contains, IsInjective
<1>5. ASSUME NEW u \in T, Contains(q, u), u # q[k]
      PROVE  Contains(p, u)
  <2>1. PICK j \in 1..Len(q) : q[j] = u
    BY <1>5 DEF Contains
  <2>2. CASE j < k
    BY <1>2, <2>1, <2>2 DEF Contains
  <2>3. CASE j > k
    <3>1. j - 1 \in 1..Len(p) /\ p[j - 1] = u
      BY <1>2, <2>1, <2>3
    <3> QED  BY <3>1 DEF Contains
  <2> QED  BY <1>5, <2>1, <2>2, <2>3
<1> QED  BY <1>1, <1>2, <1>3, <1>4, <1>5

-----------------------------------------------------------------------------
(* The semaphore operators.                                                *)

\* A semaphore that init_sema() or set_sema() has just set up has no sleepers.
LEMMA NewSemaOK ==
  ASSUME NEW T, NEW n \in Nat
  PROVE  /\ NewSema(n) \in SemaType(T)
         /\ QueueDistinct(NewSema(n))
         /\ CountIsQueue(NewSema(n))
         /\ \A t \in T : ~Queued(NewSema(n), t)
BY DEF NewSema, SemaType, QueueDistinct, CountIsQueue, Queued, Contains, IsInjective

\* p_sema() that finds a unit changes the count only.
LEMMA TakeOK ==
  ASSUME NEW T, NEW t \in T, NEW s \in SemaType(T), Free(s),
         CountIsQueue(s), QueueDistinct(s)
  PROVE  /\ PSema(s, t) \in SemaType(T)
         /\ PSema(s, t).cnt = s.cnt - 1
         /\ s.cnt > 0
         /\ CountIsQueue(PSema(s, t))
         /\ QueueDistinct(PSema(s, t))
         /\ \A u \in T : Queued(PSema(s, t), u) <=> Queued(s, u)
BY DEF SemaType, PSema, Free, CountIsQueue, QueueDistinct, Queued

\* p_sema() that finds none adds the caller, once, at the end of the queue.
LEMMA WaitOK ==
  ASSUME NEW T, NEW t \in T, NEW s \in SemaType(T), ~Free(s),
         CountIsQueue(s), QueueDistinct(s), ~Queued(s, t)
  PROVE  /\ PSema(s, t) \in SemaType(T)
         /\ PSema(s, t).cnt = s.cnt - 1
         /\ s.cnt <= 0
         /\ CountIsQueue(PSema(s, t))
         /\ QueueDistinct(PSema(s, t))
         /\ \A u \in T : Queued(PSema(s, t), u) <=> Queued(s, u) \/ u = t
<1>1. PSema(s, t) = [cnt |-> s.cnt - 1, q |-> Append(s.q, t)]
  BY DEF PSema, Free
<1>2. s.q \in Seq(T) /\ s.cnt \in Int /\ s.cnt <= 0
  BY DEF SemaType, Free
<1>3. Len(s.q) = -s.cnt
  BY <1>2 DEF CountIsQueue
<1> QED  BY <1>1, <1>2, <1>3, AppendQueue
         DEF SemaType, CountIsQueue, QueueDistinct, Queued

\* v_sema() with nobody asleep adds a unit.
LEMMA GiveFreeOK ==
  ASSUME NEW T, NEW s \in SemaType(T), CountIsQueue(s), QueueDistinct(s),
         s.q = << >>
  PROVE  /\ VSema(s) \in SemaType(T)
         /\ VSema(s).cnt = s.cnt + 1
         /\ s.cnt >= 0
         /\ CountIsQueue(VSema(s))
         /\ QueueDistinct(VSema(s))
         /\ \A u \in T : Queued(VSema(s), u) <=> Queued(s, u)
BY DEF SemaType, VSema, CountIsQueue, QueueDistinct, Queued

\* v_sema() with sleepers takes the oldest one, and only that one, off.
LEMMA GiveOK ==
  ASSUME NEW T, NEW s \in SemaType(T), CountIsQueue(s), QueueDistinct(s),
         s.q # << >>
  PROVE  /\ VSema(s) \in SemaType(T)
         /\ VSema(s).cnt = s.cnt + 1
         /\ s.cnt < 0
         /\ CountIsQueue(VSema(s))
         /\ QueueDistinct(VSema(s))
         /\ Head(s.q) \in T
         /\ Queued(s, Head(s.q))
         /\ \A u \in T : Queued(VSema(s), u) <=> Queued(s, u) /\ u # Head(s.q)
<1>1. VSema(s) = [cnt |-> s.cnt + 1, q |-> Tail(s.q)]
  BY DEF VSema
<1>2. s.q \in Seq(T) /\ s.cnt \in Int
  BY DEF SemaType
<1>3. s.cnt < 0 /\ Len(s.q) = -s.cnt
  BY <1>2 DEF CountIsQueue
<1>4. s.cnt + 1 >= 0 => Tail(s.q) = << >>
  BY <1>2, <1>3
<1> QED  BY <1>1, <1>2, <1>3, <1>4, TailQueue
         DEF SemaType, CountIsQueue, QueueDistinct, Queued

\* cunsleep() takes the interrupted thread, and only that one, off.
LEMMA CunsleepOK ==
  ASSUME NEW T, NEW t \in T, NEW s \in SemaType(T),
         CountIsQueue(s), QueueDistinct(s), Queued(s, t)
  PROVE  /\ Cunsleep(s, t) \in SemaType(T)
         /\ Cunsleep(s, t).cnt = s.cnt + 1
         /\ s.cnt < 0
         /\ CountIsQueue(Cunsleep(s, t))
         /\ QueueDistinct(Cunsleep(s, t))
         /\ \A u \in T : Queued(Cunsleep(s, t), u) <=> Queued(s, u) /\ u # t
<1>1. PICK k \in 1..Len(s.q) : k = Position(s, t) /\ s.q[k] = t
  BY DEF Position, Queued, Contains
<1>2. Cunsleep(s, t) = [cnt |-> s.cnt + 1, q |-> RemoveAt(s.q, k)]
  BY <1>1 DEF Cunsleep
<1>3. s.q \in Seq(T) /\ s.cnt \in Int
  BY DEF SemaType
<1>4. s.cnt < 0 /\ Len(s.q) = -s.cnt
  BY <1>1, <1>3 DEF CountIsQueue
<1>5. /\ RemoveAt(s.q, k) \in Seq(T)
      /\ Len(RemoveAt(s.q, k)) = Len(s.q) - 1
      /\ IsInjective(RemoveAt(s.q, k))
      /\ \A u \in T : Contains(RemoveAt(s.q, k), u) <=>
                        Contains(s.q, u) /\ u # s.q[k]
  BY <1>3, RemoveQueue DEF QueueDistinct
<1>6. s.cnt + 1 >= 0 => RemoveAt(s.q, k) = << >>
  BY <1>3, <1>4, <1>5
<1> QED  BY <1>1, <1>2, <1>3, <1>4, <1>5, <1>6
         DEF SemaType, CountIsQueue, QueueDistinct, Queued

=============================================================================
