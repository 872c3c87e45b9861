----------------------------- MODULE MCPointOps -----------------------------
\* PointOps over the field of 29 elements, on a curve of 28 points.
EXTENDS PointOps

\* One of each point and its negative: what is added is also subtracted.
MCOperands == {p \in Curve : p[1] <= P \div 2}
=============================================================================
