---------------------------- MODULE MCTimerHeap -----------------------------
EXTENDS TimerHeap
=============================================================================
