---------------------------- MODULE MCTimerQueue ----------------------------
(* Small instances of TimerQueue.  Delays and repeats are nanoseconds: with  *)
(* CLOCK_TIME = 335 they convert to 0, 1, 2, ... ticks of the clock.         *)
EXTENDS TimerQueue

\* 0, 1 and 2 ticks.
MCDelays == {0, 4, 7}

Program(masks, clears, repeats) ==
  [CallersMask |-> masks, UsesClear |-> clears, Repeats |-> repeats]

\* Masked callers with one-shot timers that they also cancel; open interrupts,
\* one-shot timers and timers that repeat every tick.
MCPrograms == {Program(TRUE, TRUE, {0}), Program(FALSE, FALSE, {0, 4})}

\* As the first, with periodic timers, and without clear_timer.
MCPeriodic == {Program(TRUE, FALSE, {0, 4})}
=============================================================================
