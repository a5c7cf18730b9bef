\* Three threads on one semaphore: the ring has an oldest, a middle and a
\* youngest sleeper to unlink, or vall_sema() runs over two of them.
CONSTANTS
  Null = Null
  Threads = {t1, t2, t3}
  Semas = {s1}
  MaxGiven = 3
SPECIFICATION Spec
INVARIANTS RingOK WakeAsserts VallSurplus
PROPERTIES ImplementsFifo VallWakesAll
CHECK_DEADLOCK FALSE
