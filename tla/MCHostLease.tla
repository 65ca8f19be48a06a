---------------------------- MODULE MCHostLease ----------------------------
EXTENDS HostLease, TLC

CONSTANTS t1, t2

TwoThreads == {t1, t2}
MCSizes == 1..3
ThreadSymmetry == Permutations(Threads)
=============================================================================
