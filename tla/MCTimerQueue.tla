---------------------------- MODULE MCTimerQueue ----------------------------
\* TimerQueue with a stop on the clock.
EXTENDS TimerQueue

MCDelays == {0, 1, 2}
=============================================================================
