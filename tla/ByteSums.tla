------------------------------ MODULE ByteSums ------------------------------
(***************************************************************************)
(* Byte counts without recursion.  An object x of a set S that holds f[x] *)
(* bytes contributes the pairs <<x, 1>>, ..., <<x, f[x]>>; the bytes the  *)
(* objects of S hold together are the number of such pairs.  This is the *)
(* sum of f over S, written so that the proof system can reason about it  *)
(* with the cardinality theorems of FiniteSetTheorems.                    *)
(***************************************************************************)
EXTENDS Naturals, FiniteSets

\* The bytes of the objects of S, each a pair of an object and an offset.
ByteSet(S, f) == UNION {{x} \X (1 .. f[x]) : x \in S}

\* The number of bytes the objects of S hold.
SumBytes(S, f) == Cardinality(ByteSet(S, f))
=============================================================================
