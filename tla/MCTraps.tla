------------------------------ MODULE MCTraps ------------------------------
EXTENDS Traps, TLC

\* A pause for one tick, and a negative argument, which pause() takes for zero.
Args == {-1, 1}

\* push_off() sets intena when it takes noff from zero, so nothing reads it while noff is zero.
Live == <<hw, [c \in CPUs |-> IF cpu[c].noff = 0 THEN 0 ELSE cpu[c]],
          cur, stk, lock, state, tf, ticks, pause, plic>>
=============================================================================
