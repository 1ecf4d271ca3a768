--------------------------- MODULE IntervalTimer ---------------------------
(***************************************************************************)
(* kern/kclock.c and inc/timerreg.h: the count that the interval timer is  *)
(* loaded with for a quantum, and for what is left of one after a trap;    *)
(* and lib/concurrency.c, which measures time by the processor's counter.  *)
(* "none" stands for a panic or the trap of a division by zero.            *)
(***************************************************************************)
EXTENDS Integers

CONSTANTS
  TICKS,                  \* 2 ^ (number of bits of half a time stamp)
  CYCLES_PER_MILLISEC

ASSUME TimerAssumption == TICKS \in Nat \ {0} /\ CYCLES_PER_MILLISEC \in Nat

TIMER_FREQ == 1193182

TIMER_DIV(x) == (TIMER_FREQ + x \div 2) \div x

QUANTUM_LIMIT == (1000 * 65536) \div TIMER_FREQ

IS_VALID_QUANTUM(quantum_in_ms) == quantum_in_ms < QUANTUM_LIMIT

\* Two bytes are written to the port.
kclock_write_cnt0_LSB_first(val) == val % 65536

Even(cnt) == IF cnt % 2 = 1 THEN cnt + 1 ELSE cnt

None == -1

\* The quantum is of 8 bits.
kclock_start(quantum_in_ms) ==
  IF ~IS_VALID_QUANTUM(quantum_in_ms % 256) \/ quantum_in_ms % 256 = 0 THEN None
  ELSE kclock_write_cnt0_LSB_first(TIMER_DIV(1000 \div (quantum_in_ms % 256)))

\* Mutant of kclock_set_quantum: an odd count is rounded down.
kclock_set_quantum_down(quantum_in_ms) ==
  IF ~IS_VALID_QUANTUM(quantum_in_ms % 256) \/ quantum_in_ms % 256 = 0 THEN None
  ELSE LET cnt == TIMER_DIV(1000 \div (quantum_in_ms % 256))
       IN  kclock_write_cnt0_LSB_first(cnt - (cnt % 2))

kclock_set_quantum(quantum_in_ms) ==
  IF ~IS_VALID_QUANTUM(quantum_in_ms % 256) \/ quantum_in_ms % 256 = 0 THEN None
  ELSE kclock_write_cnt0_LSB_first(Even(TIMER_DIV(1000 \div (quantum_in_ms % 256))))

\* kclock_stop leaves the count in the timer, where kclock_resume reads it: too
\* small a rest is made 20.
kclock_resume(cnt0) == kclock_write_cnt0_LSB_first(Even(IF cnt0 < 20 THEN 20 ELSE cnt0))

-----------------------------------------------------------------------------
(* lib/concurrency.c: a program sleeps by asking for the time.  polls[1] is *)
(* the time at which it begins, the others when it asks again; the answer   *)
(* comes back in two halves, of which the lower ones are compared.          *)

NotYet == 0

\* Mutant of Elapsed: the time of the beginning is not taken off.
Elapsed_absolute(polls, k) == polls[k] % TICKS

\* cycles_counter after poll k: the low half of the difference.
Elapsed(polls, k) == ((polls[k] % TICKS) - (polls[1] % TICKS)) % TICKS

\* The poll after which env_sleep returns; cycles_counter is 0 at first.
env_sleep(ms, polls) ==
  LET time_in_cycles == (ms * CYCLES_PER_MILLISEC) % TICKS
      over(k)        == (IF k = 1 THEN 0 ELSE Elapsed(polls, k)) >= time_in_cycles
  IN  IF \A k \in DOMAIN polls : ~over(k) THEN NotYet
      ELSE CHOOSE k \in DOMAIN polls : over(k) /\ \A j \in 1..(k - 1) : ~over(j)

=============================================================================
