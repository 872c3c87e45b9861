----------------------------- MODULE DevRandom -----------------------------
(***************************************************************************)
(* The backend dev_random, lib/randombytes/random/random.c: read           *)
(* /dev/random in a loop until the buffer is full.  A read returns at most *)
(* what the kernel's entropy pool holds; with an empty pool it returns 0   *)
(* and the loop spins (README.md: "this causes busy wait").                *)
(***************************************************************************)
EXTENDS RandomDevice

CONSTANT PoolSize   \* bytes the kernel's pool can hold

ASSUME PoolAssumption == PoolSize \in Nat \ {0}

VARIABLES
  completed,        \* completed[c]: local variable completed
  pool              \* random bytes the kernel can give out now

vars == <<deviceVars, completed, pool>>

Init == DeviceInit /\ completed = [c \in Callers |-> 0] /\ pool = PoolSize

Call(c) == CallRandombytes(c) /\ UNCHANGED <<completed, pool>>

Open(c) ==
  /\ OpenDevice(c)
  /\ completed' = [completed EXCEPT ![c] = 0]
  /\ UNCHANGED pool

OpenError(c) == OpenFails(c) /\ UNCHANGED <<completed, pool>>

\* Mutants of ReadSome: p for p + completed; completed += result dropped.
ReadSomeAtStart(c) ==
  /\ pc[c] = "read"
  /\ completed[c] < len[c]
  /\ \E result \in 1 .. pool :
       /\ result <= len[c] - completed[c]
       /\ filled'    = [filled EXCEPT ![c] = @ \cup 0 .. result - 1]
       /\ completed' = [completed EXCEPT ![c] = @ + result]
       /\ pool'      = pool - result
  /\ UNCHANGED <<pc, len, source, ret, openFds, calls>>

ReadSomeForgotten(c) ==
  /\ pc[c] = "read"
  /\ completed[c] < len[c]
  /\ \E result \in 1 .. pool :
       /\ result <= len[c] - completed[c]
       /\ filled' = [filled EXCEPT ![c] =
                       @ \cup completed[c] .. completed[c] + result - 1]
       /\ pool'   = pool - result
  /\ UNCHANGED <<pc, len, source, ret, openFds, calls, completed>>

\* read(source, p + completed, len - completed) returns result > 0 bytes.
ReadSome(c) ==
  /\ pc[c] = "read"
  /\ completed[c] < len[c]
  /\ \E result \in 1 .. pool :
       /\ result <= len[c] - completed[c]
       /\ filled'    = [filled EXCEPT ![c] =
                          @ \cup completed[c] .. completed[c] + result - 1]
       /\ completed' = [completed EXCEPT ![c] = @ + result]
       /\ pool'      = pool - result
  /\ UNCHANGED <<pc, len, source, ret, openFds, calls>>

\* The pool is empty: read returns 0, completed += 0, around the loop again.
ReadNothing(c) ==
  /\ pc[c] = "read"
  /\ completed[c] < len[c]
  /\ pool = 0
  /\ UNCHANGED vars

\* read fails.  Mutant: the test of result < 0 dropped, -1 added to completed.
ReadErrorCounted(c) ==
  /\ pc[c] = "read"
  /\ completed[c] < len[c]
  /\ completed[c] >= 0
  /\ completed' = [completed EXCEPT ![c] = @ - 1]
  /\ UNCHANGED <<deviceVars, pool>>

ReadError(c) ==
  /\ completed[c] < len[c]
  /\ ReadFails(c)
  /\ UNCHANGED <<completed, pool>>

\* The loop's condition is false: the buffer is full.
\* Mutant: one read and no loop.
LoopEndsEarly(c) ==
  /\ pc[c] = "read"
  /\ completed[c] > 0 \/ len[c] = 0
  /\ Goto(c, "close_success")
  /\ UNCHANGED <<len, filled, source, ret, openFds, calls, completed, pool>>

LoopEnds(c) ==
  /\ pc[c] = "read"
  /\ completed[c] >= len[c]
  /\ Goto(c, "close_success")
  /\ UNCHANGED <<len, filled, source, ret, openFds, calls, completed, pool>>

Close(c) == CloseAndReturn(c) /\ UNCHANGED <<completed, pool>>

\* The kernel collects entropy.
Refill ==
  /\ pool < PoolSize
  /\ pool' = pool + 1
  /\ UNCHANGED <<deviceVars, completed>>

Step(c) ==
  \/ Open(c) \/ OpenError(c)
  \/ ReadSome(c) \/ ReadNothing(c) \/ ReadError(c)
  \/ LoopEnds(c) \/ Close(c)

Next == Refill \/ \E c \in Callers : Call(c) \/ Step(c)

\* Threads are scheduled, entropy arrives, and a read of a pool that stays
\* non-empty returns some of it.  Failures of open and read are never forced,
\* except that an open returns one way or the other.
Fairness ==
  /\ WF_vars(Refill)
  /\ \A c \in Callers : /\ WF_vars(Open(c) \/ OpenError(c))
                       /\ WF_vars(ReadSome(c))
                       /\ WF_vars(LoopEnds(c) \/ Close(c))

Spec == Init /\ [][Next]_vars /\ Fairness
-----------------------------------------------------------------------------
TypeOK ==
  /\ DeviceTypeOK
  /\ completed \in [Callers -> Nat]
  /\ pool \in 0 .. PoolSize

\* Nothing is written before the device is open; from then on the first completed
\* bytes and no others are, and completed never passes len: the loop's invariant.
ReadProgress ==
  \A c \in Callers :
    /\ pc[c] = "open" => filled[c] = {}
    /\ HasDevice(c) => /\ filled[c] = 0 .. completed[c] - 1
                       /\ completed[c] <= len[c]
                       /\ pc[c] = "close_success" => completed[c] = len[c]

\* Every call returns, although other threads may drain the pool in front of it
\* (they make finitely many calls) and the code spins while it is empty.
CallReturns == \A c \in Callers : pc[c] # "idle" ~> pc[c] = "idle"

\* dev_random implements randombytes.h.
ContractSpec == Contract!Spec
=============================================================================
