------------------------------ MODULE MCShaMd ------------------------------
\* ShaMd with blocks of 4 bytes and words of 1 byte.
EXTENDS ShaMd

Prefixes(s) == {SubSeq(s, 1, n) : n \in 0 .. Len(s)}

\* Bytes that tell their places; bytes that look like the padding's mark and zeros;
\* lengths in bits that no longer fit one word of 8 bits.
MCMessages ==
  Prefixes(<<1, 2, 3, 4, 5, 6, 7, 8, 9, 10, 11, 12, 13>>)
    \cup Prefixes(<<128, 128, 0, 0, 128, 128>>)
    \cup {[i \in 1 .. n |-> 0] : n \in {31, 32, 34}}

MCJunk == {[i \in 0 .. BlockLen - 1 |-> 255]}
=============================================================================
