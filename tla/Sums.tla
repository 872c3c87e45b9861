-------------------------------- MODULE Sums --------------------------------
\* Sums of digits and of limbs, by recursion over their number, so that theorems can be
\* proved about them.
EXTENDS Integers

\* f[0] + .. + f[n - 1]
Total(f, n) ==
  LET upto[k \in 0 .. n] == IF k = 0 THEN 0 ELSE upto[k - 1] + f[k - 1] IN upto[n]
=============================================================================
