------------------------------ MODULE KeccakF ------------------------------
(***************************************************************************)
(* keccakf of sha3_brainhub/sha3.c at its real size, loop by loop, beside  *)
(* the round of FIPS 202 that it is to compute.  A lane, a uint64_t, is    *)
(* the set of the places of its 1 bits; lane (x, y) of the standard is     *)
(* s[x + 5 * y].  Rho and pi are done in one loop in place, with one lane  *)
(* in hand, along two tables.                                              *)
(***************************************************************************)
EXTENDS Words

CONSTANT Starts   \* states that a call may find

VARIABLES
  s,              \* the state
  round,          \* from 0; 24 in the end
  loop,           \* "theta", "rhopi", "chi" or "iota"
  i,              \* its counter
  t,              \* the lane in hand
  start           \* s at the beginning of the round

vars == <<s, round, loop, i, t, start>>

Word  == 0 .. 63
Lanes == 0 .. 24

\* Bits of the round constants.
keccakf_rndc == <<
  {0}, {1, 7, 15}, {1, 3, 7, 15, 63}, {15, 31, 63}, {0, 1, 3, 7, 15}, {0, 31},
  {0, 7, 15, 31, 63}, {0, 3, 15, 63}, {1, 3, 7}, {3, 7}, {0, 3, 15, 31}, {1, 3, 31},
  {0, 1, 3, 7, 15, 31}, {0, 1, 3, 7, 63}, {0, 3, 7, 15, 63}, {0, 1, 15, 63},
  {1, 15, 63}, {7, 63}, {1, 3, 15}, {1, 3, 31, 63}, {0, 7, 15, 31, 63}, {7, 15, 63},
  {0, 31}, {3, 15, 31, 63}>>

\* Mutant: two entries in each other's place.
keccakf_rotc_swapped == <<
  1, 3, 6, 10, 15, 21, 28, 36, 45, 55, 2, 14, 27, 41, 56, 8, 25, 43, 62, 18, 39, 61, 44, 20>>

keccakf_rotc == <<
  1, 3, 6, 10, 15, 21, 28, 36, 45, 55, 2, 14, 27, 41, 56, 8, 25, 43, 62, 18, 39, 61, 20, 44>>

keccakf_piln == <<
  10, 7, 11, 17, 18, 3, 5, 16, 8, 21, 24, 4, 15, 23, 19, 13, 12, 2, 20, 14, 22, 9, 6, 1>>

Init ==
  /\ s \in Starts /\ start = s
  /\ round = 0 /\ loop = "theta" /\ i = 0 /\ t = {}

\* Both loops of theta: bc[x] is the parity of a column.
Theta ==
  /\ round < 24 /\ loop = "theta"
  /\ LET bc == [x \in 0 .. 4 |->
                 Xor(s[x], Xor(s[x + 5], Xor(s[x + 10], Xor(s[x + 15], s[x + 20]))))]
     IN s' = [k \in Lanes |-> Xor(s[k], Xor(bc[(k + 4) % 5], Rotl(64, bc[(k + 1) % 5], 1)))]
  /\ t' = s'[1]
  /\ loop' = "rhopi" /\ i' = 0
  /\ UNCHANGED <<round, start>>

RhoPi ==
  /\ round < 24 /\ loop = "rhopi" /\ i < 24
  /\ LET j == keccakf_piln[i + 1]
     IN /\ s' = [s EXCEPT ![j] = Rotl(64, t, keccakf_rotc[i + 1])]
        /\ t' = s[j]
  /\ i' = i + 1
  /\ UNCHANGED <<round, loop, start>>

RhoPiEnds ==
  /\ loop = "rhopi" /\ i = 24
  /\ loop' = "chi" /\ i' = 0
  /\ UNCHANGED <<s, round, t, start>>

\* One row: its five lanes are copied to bc first.
Chi ==
  /\ round < 24 /\ loop = "chi" /\ i < 25
  /\ s' = [k \in Lanes |->
            IF k \in i .. i + 4
            THEN Xor(s[k], Not(64, s[i + ((k - i + 1) % 5)]) \cap s[i + ((k - i + 2) % 5)])
            ELSE s[k]]
  /\ i' = i + 5
  /\ UNCHANGED <<round, loop, t, start>>

Iota ==
  /\ round < 24 /\ loop = "chi" /\ i = 25
  /\ s' = [s EXCEPT ![0] = Xor(@, keccakf_rndc[round + 1])]
  /\ round' = round + 1 /\ loop' = "theta" /\ i' = 0
  /\ start' = s'
  /\ UNCHANGED t

Return == round = 24 /\ UNCHANGED vars

Next == Theta \/ RhoPi \/ RhoPiEnds \/ Chi \/ Iota \/ Return
Spec == Init /\ [][Next]_vars
-----------------------------------------------------------------------------
\* FIPS 202, 3.2.  Lane (x, y), and a state given lane by lane.
At(A, x, y) == A[(x % 5) + 5 * (y % 5)]

\* Algorithm 2, the t-th of the 24 lanes visited and how far it is rotated.
Visit ==
  LET at[n \in 0 .. 23] ==
        IF n = 0 THEN <<1, 0>>
        ELSE LET xy == at[n - 1] IN <<xy[2], (2 * xy[1] + 3 * xy[2]) % 5>>
  IN at

Offset ==
  [k \in Lanes |->
    IF k = 0 THEN 0
    ELSE LET n == CHOOSE n \in 0 .. 23 : Visit[n] = <<k % 5, k \div 5>>
         IN (((n + 1) * (n + 2)) \div 2) % 64]

\* Algorithm 5: a shift register of eight bits, as the set of the places that hold 1.
Register ==
  LET reg[n \in 0 .. 254] ==
        IF n = 0 THEN {0}
        ELSE LET R == {b + 1 : b \in reg[n - 1]}
             IN IF 8 \in R THEN Xor(R \ {8}, {0, 4, 5, 6}) ELSE R
  IN reg

Rc(ir) == {b \in Word : \E j \in 0 .. 6 : b = 2^j - 1 /\ 0 \in Register[(j + 7 * ir) % 255]}

\* Algorithms 1 to 4 and 6, on a new array each.
Parity(A, x) == {b \in Word : Cardinality({y \in 0 .. 4 : b \in At(A, x, y)}) % 2 = 1}

ThetaOf(A) ==
  LET C    == [x \in 0 .. 4 |-> Parity(A, x)]
      D(x) == Xor(C[(x + 4) % 5], Rotl(64, C[(x + 1) % 5], 1))
  IN [k \in Lanes |-> Xor(A[k], D(k % 5))]

RhoOf(A) == [k \in Lanes |-> Rotl(64, A[k], Offset[k])]

PiOf(A) == [k \in Lanes |-> At(A, (k % 5) + 3 * (k \div 5), k % 5)]

ChiOf(A) ==
  LET P(k, d) == At(A, (k % 5) + d, k \div 5)
  IN [k \in Lanes |-> Xor(P(k, 0), Not(64, P(k, 1)) \cap P(k, 2))]

IotaOf(A, ir) == [A EXCEPT ![0] = Xor(@, Rc(ir))]

Round(A, ir) == IotaOf(ChiOf(PiOf(RhoOf(ThetaOf(A)))), ir)

\* keccakf computes Keccak-p[1600, 24]: each of its rounds, in place and by its tables, is
\* that of FIPS 202, whose rotations, path and constants are computed here.
RoundIsKeccak == [][round' = round + 1 => s' = Round(start, round)]_vars
=============================================================================
