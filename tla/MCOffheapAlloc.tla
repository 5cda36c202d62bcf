---------------------------- MODULE MCOffheapAlloc ---------------------------
EXTENDS OffheapAccounting

CONSTANTS t1, t2

MCThreads == {t1, t2}

LOCAL FS == INSTANCE FiniteSetsExt

\* The byte count of ByteSums is the sum of the sizes, as FiniteSetsExt
\* computes it, for every set of three slices and sizes up to two.
ASSUME SumBytesIsSum ==
  \A S \in SUBSET (1 .. 3), f \in [1 .. 3 -> 0 .. 2] :
    SumBytes(S, f) = FS!MapThenSumSet(LAMBDA x : f[x], S)
=============================================================================
