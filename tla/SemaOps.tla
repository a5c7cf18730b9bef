------------------------------ MODULE SemaOps ------------------------------
(***************************************************************************)
(* The semaphores of os/mach/mutex.c as values.  A sema_t is a record of   *)
(* its s_count and of the threads asleep on it, first in line first: the   *)
(* ring of t_hd/t_tl pointers that starts at s_sleepq, read from there.    *)
(* Module Sema checks that the ring code behaves as these operators say.   *)
(*                                                                         *)
(* The kernel runs on one processor and every routine below holds s_lock   *)
(* at SPLHI from its first read to its last write, so each one is a single *)
(* step of whoever calls it.                                               *)
(***************************************************************************)
EXTENDS Integers, SequencesExt

\* init_sema() followed by the set_sema() that the caller may add.
NewSema(n) == [cnt |-> n, q |-> << >>]

\* p_sema(): take a unit if there is one, else join the tail of the queue.
PSema(s, t) ==
  IF s.cnt > 0 THEN [s EXCEPT !.cnt = @ - 1]
               ELSE [cnt |-> s.cnt - 1, q |-> Append(s.q, t)]

\* Does p_sema() return at once on s?
Free(s) == s.cnt > 0

\* v_sema(): the unit goes straight to the first sleeper, if there is one.
VSema(s) ==
  IF s.q = << >> THEN [s EXCEPT !.cnt = @ + 1]
                 ELSE [cnt |-> s.cnt + 1, q |-> Tail(s.q)]

\* Where t stands in the queue of s.
Position(s, t) == CHOOSE i \in 1..Len(s.q) : s.q[i] = t

\* Slip: the count still includes the interrupted sleeper.
CunsleepNoCount(s, t) == [s EXCEPT !.q = RemoveAt(@, Position(s, t))]

\* cunsleep(): an event takes t off the queue without giving it a unit.
Cunsleep(s, t) == [cnt |-> s.cnt + 1, q |-> RemoveAt(s.q, Position(s, t))]

\* set_sema() and adj_sema() touch the count alone, whoever sleeps there.
SetSema(s, n) == [s EXCEPT !.cnt = n]
AdjSema(s, n) == [s EXCEPT !.cnt = @ + n]

\* blocked_sema()
Blocked(s) == s.cnt < 0

SemaType(T) == [cnt : Int, q : Seq(T)]

\* Does t sleep on s?
Queued(s, t) == Contains(s.q, t)

\* Nobody stands in the queue twice, and the count is negative by exactly
\* the number of sleepers.
QueueDistinct(s) == IsInjective(s.q)
CountIsQueue(s)  == IF s.cnt < 0 THEN Len(s.q) = -s.cnt ELSE s.q = << >>

=============================================================================
