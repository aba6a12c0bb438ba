------------------------------ MODULE CacheMC ------------------------------
EXTENDS Cache, TLC

CONSTANTS t1, t2, k1

MCThreads == {t1, t2}
MCKeys == {k1}

ThreadSymmetry == Permutations(MCThreads)

====
