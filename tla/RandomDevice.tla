---------------------------- MODULE RandomDevice ----------------------------
(***************************************************************************)
(* What the two device backends of randombytes share,                      *)
(* lib/randombytes/random/random.c and lib/randombytes/urandom/urandom.c:  *)
(* open the device, read from it, close it on every path, return.  Each    *)
(* system call is one step, so calls of several threads interleave in the  *)
(* descriptor table of their process.  The backends add their read step.   *)
(***************************************************************************)
EXTENDS Integers

CONSTANTS
  Callers,    \* threads that call randombytes
  Lens,       \* lengths they ask for
  MaxFd,      \* size of the process's descriptor table
  MaxCalls    \* bound: calls one thread makes

ASSUME DeviceAssumption ==
  /\ Lens \subseteq Nat
  /\ MaxFd \in Nat
  /\ MaxCalls \in Nat

VARIABLES
  pc,         \* pc[c]: the next system call of c's randombytes
  len,        \* len[c]: argument of c's last call
  filled,     \* filled[c]: offsets of p written by that call
  source,     \* source[c]: local variable source, the descriptor
  ret,        \* ret[c]: what c's last finished call returned
  openFds,    \* descriptors open in the process
  calls       \* calls[c]: calls c has started

deviceVars == <<pc, len, filled, source, ret, openFds, calls>>

ED25519_ERROR   == 0
ED25519_SUCCESS == 1

Fds == 0 .. MaxFd - 1

PCs == {"idle", "open", "read", "close_error", "close_success"}

Goto(c, label) == pc' = [pc EXCEPT ![c] = label]

DeviceInit ==
  /\ pc      = [c \in Callers |-> "idle"]
  /\ len     = [c \in Callers |-> 0]
  /\ filled  = [c \in Callers |-> {}]
  /\ source  = [c \in Callers |-> -1]
  /\ ret     = [c \in Callers |-> ED25519_ERROR]
  /\ openFds = {}
  /\ calls   = [c \in Callers |-> 0]

\* A thread enters randombytes with a buffer that holds nothing random yet.
CallRandombytes(c) ==
  /\ pc[c] = "idle"
  /\ calls[c] < MaxCalls
  /\ \E n \in Lens : len' = [len EXCEPT ![c] = n]
  /\ calls'  = [calls EXCEPT ![c] = @ + 1]
  /\ filled' = [filled EXCEPT ![c] = {}]
  /\ Goto(c, "open")
  /\ UNCHANGED <<source, ret, openFds>>

\* open succeeds: POSIX hands out the lowest free descriptor.
OpenDevice(c) ==
  /\ pc[c] = "open"
  /\ \E fd \in Fds \ openFds :
       /\ \A other \in Fds \ openFds : fd <= other
       /\ source'  = [source EXCEPT ![c] = fd]
       /\ openFds' = openFds \cup {fd}
  /\ Goto(c, "read")
  /\ UNCHANGED <<len, filled, ret, calls>>

\* open fails (table full, no such device, ...): return at once.
OpenFails(c) ==
  /\ pc[c] = "open"
  /\ source' = [source EXCEPT ![c] = -1]
  /\ ret'    = [ret EXCEPT ![c] = ED25519_ERROR]
  /\ Goto(c, "idle")
  /\ UNCHANGED <<len, filled, openFds, calls>>

\* read returns -1 (interrupted by a signal, I/O error).
\* A mutant: return without the close.
ReadFailsKeepsFd(c) ==
  /\ pc[c] = "read"
  /\ ret' = [ret EXCEPT ![c] = ED25519_ERROR]
  /\ Goto(c, "idle")
  /\ UNCHANGED <<len, filled, source, openFds, calls>>

ReadFails(c) ==
  /\ pc[c] = "read"
  /\ Goto(c, "close_error")
  /\ UNCHANGED <<len, filled, source, ret, openFds, calls>>

\* close(source); return.
CloseAndReturn(c) ==
  /\ pc[c] \in {"close_error", "close_success"}
  /\ openFds' = openFds \ {source[c]}
  /\ ret' = [ret EXCEPT ![c] = IF pc[c] = "close_success" THEN ED25519_SUCCESS
                                                          ELSE ED25519_ERROR]
  /\ Goto(c, "idle")
  /\ UNCHANGED <<len, filled, source, calls>>

-----------------------------------------------------------------------------
DeviceTypeOK ==
  /\ pc      \in [Callers -> PCs]
  /\ len     \in [Callers -> Nat]
  /\ filled  \in [Callers -> SUBSET Nat]
  /\ source  \in [Callers -> Fds \cup {-1}]
  /\ ret     \in [Callers -> {ED25519_ERROR, ED25519_SUCCESS}]
  /\ openFds \subseteq Fds
  /\ calls   \in [Callers -> 0 .. MaxCalls]

HasDevice(c) == pc[c] \in {"read", "close_error", "close_success"}

\* The contract of randombytes.h: a call that returned non-0 has written every
\* byte of its buffer (random.c loops over short reads to make this true).
SuccessMeansFilled ==
  \A c \in Callers :
    pc[c] = "idle" /\ ret[c] # ED25519_ERROR => filled[c] = 0 .. len[c] - 1

\* Descriptors are neither leaked nor shared: what is open in the process is
\* exactly what the calls in progress opened, each its own, on every return path.
DescriptorsAccounted ==
  /\ openFds = {source[c] : c \in {d \in Callers : HasDevice(d)}}
  /\ \A c, d \in Callers :
       HasDevice(c) /\ HasDevice(d) /\ source[c] = source[d] => c = d

\* The interface as the caller of randombytes sees it.
Contract == INSTANCE RandomBytes WITH
              active <- [c \in Callers |-> pc[c] # "idle"],
              want   <- len
=============================================================================
