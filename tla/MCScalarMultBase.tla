-------------------------- MODULE MCScalarMultBase --------------------------
\* ScalarMultBase with four digits over the field of 37 elements, on a curve of 44 points.
EXTENDS ScalarMultBase

\* A point of order 11.
MCB == <<5, 22>>

\* Scalars with any last digit, and others around the middle and the ends: 7, 8 and 15 carry,
\* or do with a carry from below.
MCScalars ==
  {a0 + 16 * a1 + 256 * a2 + 4096 * a3 :
     a0 \in 0 .. 15, a1 \in {0, 7, 8, 15}, a2 \in {0, 7, 8, 15}, a3 \in {0, 1, 6, 7}}
=============================================================================
