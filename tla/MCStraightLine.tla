--------------------------- MODULE MCStraightLine ---------------------------
(***************************************************************************)
(* The code without a choice in it, at its real size: the addition chains, *)
(* the permutation of SHA-3 and the compression functions of SHA-2.  They  *)
(* share nothing; one of them runs in each behaviour, and the others stay  *)
(* as they are.                                                            *)
(***************************************************************************)
EXTENDS Integers

VARIABLES
  part,                                           \* what runs
  program, aliased, instr, squared, exponent,     \* AdditionChain
  s, round, loop, i, t, start,                    \* KeccakF
  kind, r, data, W, reg, n, pc, calls             \* Sha2Rounds

\* A state and two blocks each that no symmetry of the tables maps to itself, beside the
\* ones of only 0 bits and, for SHA-3, of only 1 bits.
Starts ==
  {[k \in 0 .. 24 |-> {}], [k \in 0 .. 24 |-> {(7 * k + 3) % 64, k}],
   [k \in 0 .. 24 |-> 0 .. 63]}

Blocks ==
  [w \in {32, 64} |->
    {[k \in 0 .. 15 |-> {}],
     [k \in 0 .. 15 |-> {b \in 0 .. w - 1 : (b * (k + 3) + k) % 7 \in {1, 2, 4}}]}]

Chain  == INSTANCE AdditionChain WITH pc <- instr, i <- squared
Keccak == INSTANCE KeccakF
Sha2   == INSTANCE Sha2Rounds WITH MaxCalls <- 2

chainVars  == <<program, aliased, instr, squared, exponent>>
keccakVars == <<s, round, loop, i, t, start>>
shaVars    == <<kind, r, data, W, reg, n, pc, calls>>
vars       == <<part, chainVars, keccakVars, shaVars>>

Init ==
  /\ part \in {"chain", "sha3", "sha2"}
  /\ Chain!Init /\ Keccak!Init /\ Sha2!Init
  /\ part # "chain" => program = "fe_invert" /\ ~aliased
  /\ part # "sha3" => s = [k \in 0 .. 24 |-> {}]
  /\ part # "sha2" => kind = "sha512"

Next ==
  \/ part = "chain" /\ Chain!Next /\ UNCHANGED <<part, keccakVars, shaVars>>
  \/ part = "sha3" /\ Keccak!Next /\ UNCHANGED <<part, chainVars, shaVars>>
  \/ part = "sha2" /\ Sha2!Next /\ UNCHANGED <<part, chainVars, keccakVars>>

Spec == Init /\ [][Next]_vars

\* Every one of the four addition chains computes the power it is named for.
ChainComputes == Chain!ChainComputes

\* Every round of keccakf, in place and by its tables, is a round of FIPS 202.
RoundIsKeccak == Keccak!RoundIsKeccak

\* The compression functions of sha2.c and sha2_big.c are those of FIPS 180-4.
ImplementsStandard == Sha2!ImplementsStandard

\* The constants and initial values of both files are roots of the first primes.
ConstantsAreRoots == part = "sha2" => Sha2!ConstantsAreRoots
=============================================================================
