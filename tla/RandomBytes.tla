---------------------------- MODULE RandomBytes ----------------------------
(***************************************************************************)
(* What include/ed25519/ed25519/randombytes.h promises of                  *)
(*     int randombytes(unsigned char *p, int len)                          *)
(* whichever backend is linked in: a call may write bytes of the caller's  *)
(* buffer while it runs, and returns non-0 only if it has written all of   *)
(* them.  Nothing is said of the buffer when the call returns 0.           *)
(***************************************************************************)
EXTENDS Integers

CONSTANTS
  Callers,   \* threads of the application that call randombytes
  Lens       \* lengths they ask for

VARIABLES
  active,    \* active[c]: c is inside randombytes
  want,      \* want[c]: the argument len of c's last call
  filled,    \* filled[c]: the offsets of p written with random data by that call
  ret        \* ret[c]: what c's last finished call returned

vars == <<active, want, filled, ret>>

Failed == 0

Init ==
  /\ active = [c \in Callers |-> FALSE]
  /\ want   = [c \in Callers |-> 0]
  /\ filled = [c \in Callers |-> {}]
  /\ ret    = [c \in Callers |-> Failed]

Call(c) ==
  /\ ~active[c]
  /\ \E n \in Lens : want' = [want EXCEPT ![c] = n]
  /\ active' = [active EXCEPT ![c] = TRUE]
  /\ filled' = [filled EXCEPT ![c] = {}]
  /\ UNCHANGED ret

Write(c) ==
  /\ active[c]
  /\ \E more \in SUBSET (0 .. want[c] - 1) :
       filled' = [filled EXCEPT ![c] = @ \cup more]
  /\ UNCHANGED <<active, want, ret>>

\* A call may write its last bytes and return in one step.
Succeed(c) ==
  /\ active[c]
  /\ active' = [active EXCEPT ![c] = FALSE]
  /\ filled' = [filled EXCEPT ![c] = 0 .. want[c] - 1]
  /\ \E r \in {-1, 1} : ret' = [ret EXCEPT ![c] = r]
  /\ UNCHANGED want

Fail(c) ==
  /\ active[c]
  /\ active' = [active EXCEPT ![c] = FALSE]
  /\ ret'    = [ret EXCEPT ![c] = Failed]
  /\ \E more \in SUBSET (0 .. want[c] - 1) :
       filled' = [filled EXCEPT ![c] = @ \cup more]
  /\ UNCHANGED want

Next == \E c \in Callers : Call(c) \/ Write(c) \/ Succeed(c) \/ Fail(c)

Spec == Init /\ [][Next]_vars
=============================================================================
