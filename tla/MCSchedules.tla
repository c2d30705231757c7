------------------------------ MODULE MCSchedules ------------------------------
EXTENDS Schedules, TLC

CONSTANTS t1, t2

Symmetry == Permutations(Threads)
===============================================================================
