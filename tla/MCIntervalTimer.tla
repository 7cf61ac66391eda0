--------------------------- MODULE MCIntervalTimer ---------------------------
EXTENDS IntervalTimer
=============================================================================
