---------------------------- MODULE MCFieldLimbs ----------------------------
\* Four limbs of 7, 6, 7 and 6 bits, nine bytes of 3 bits.  p is 2^26 - 3.
EXTENDS FieldLimbs

MCW     == [k \in 0 .. 3 |-> IF k % 2 = 0 THEN 7 ELSE 6]
MCRadix == [k \in 0 .. 3 |-> 2^MCW[k]]
MCP     == 2^26 - 3

MCOthers == {0, 1, 1000003, MCP - 1, MCP, 2^26 - 1, 2^27 - 1, 2^25 + 2^12 + 64}
MCInputs == MCOthers \cup {2, 3, MCP + 1, MCP - 2, 2^26, 2^26 + 5, 2^25 - 2, 2^25 - 1,
                        44739242, 22369621, 63, 64, 8191, 8192 * 64, 2^20 + 2^13 - 1}
=============================================================================
