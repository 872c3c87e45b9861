--------------------------- MODULE RandomLibrary ---------------------------
(***************************************************************************)
(* The two backends of randombytes that forward to a library:              *)
(* rand_openssl (lib/randombytes/openssl/randombytes.c, RAND_bytes) and    *)
(* bcryptgen (lib/randombytes/bcryptgen/randombytes.c, BCryptGenRandom).   *)
(* The library fills all of the buffer or reports a failure, after which   *)
(* any part of the buffer may have been written.                           *)
(***************************************************************************)
EXTENDS Integers

CONSTANTS
  Callers,   \* threads that call randombytes
  Lens,      \* lengths they ask for
  Backend    \* "rand_openssl" or "bcryptgen"

VARIABLES
  pc,        \* pc[c]: "idle", or "library" inside the library call
  len,       \* len[c]: argument of c's last call
  filled,    \* filled[c]: offsets of p written by that call
  ret        \* ret[c]: what c's last finished call returned

vars == <<pc, len, filled, ret>>

Init ==
  /\ pc     = [c \in Callers |-> "idle"]
  /\ len    = [c \in Callers |-> 0]
  /\ filled = [c \in Callers |-> {}]
  /\ ret    = [c \in Callers |-> 0]

Call(c) ==
  /\ pc[c] = "idle"
  /\ pc' = [pc EXCEPT ![c] = "library"]
  /\ \E n \in Lens : len' = [len EXCEPT ![c] = n]
  /\ filled' = [filled EXCEPT ![c] = {}]
  /\ UNCHANGED ret

\* What the library returns: RAND_bytes 1, or 0 for a failure, or -1 where the
\* configured method cannot do it; BCryptGenRandom an NTSTATUS, negative for errors.
SuccessCode  == IF Backend = "rand_openssl" THEN 1 ELSE 0
FailureCodes == IF Backend = "rand_openssl" THEN {0, -1} ELSE {-1}

\* What randombytes makes of it: RAND_bytes' value as it is, or
\* BCRYPT_SUCCESS(status), which is status >= 0.
ReturnOf(code) ==
  IF Backend = "rand_openssl" THEN code ELSE IF code >= 0 THEN 1 ELSE 0

Return(c, code) ==
  /\ pc[c] = "library"
  /\ pc'  = [pc EXCEPT ![c] = "idle"]
  /\ ret' = [ret EXCEPT ![c] = ReturnOf(code)]
  /\ UNCHANGED len

LibrarySucceeds(c) ==
  /\ Return(c, SuccessCode)
  /\ filled' = [filled EXCEPT ![c] = 0 .. len[c] - 1]

LibraryFails(c) ==
  /\ \E code \in FailureCodes : Return(c, code)
  /\ \E part \in SUBSET (0 .. len[c] - 1) : filled' = [filled EXCEPT ![c] = part]

Next == \E c \in Callers : Call(c) \/ LibrarySucceeds(c) \/ LibraryFails(c)

Spec == Init /\ [][Next]_vars
-----------------------------------------------------------------------------
\* The interface as the caller of randombytes sees it.
Contract == INSTANCE RandomBytes WITH
              active <- [c \in Callers |-> pc[c] # "idle"],
              want   <- len

\* randombytes.h: a failure is reported as 0, whatever code the library used.
FailureIsZero ==
  \A c \in Callers :
    pc[c] = "idle" /\ ret[c] # 0 => filled[c] = 0 .. len[c] - 1

\* The backend implements randombytes.h.
ContractSpec == Contract!Spec
=============================================================================
