----------------------------- MODULE DevUrandom -----------------------------
(***************************************************************************)
(* The backend dev_urandom, lib/randombytes/urandom/urandom.c: one read of *)
(* /dev/urandom, whose result is tested for an error only.                 *)
(***************************************************************************)
EXTENDS RandomDevice

Init == DeviceInit

Call(c)      == CallRandombytes(c)
Open(c)      == OpenDevice(c)
OpenError(c) == OpenFails(c)

\* read(source, p, len) returns result >= 0 bytes, at most len.  POSIX lets it
\* return fewer than asked for; the code does not look.
Read(c) ==
  /\ pc[c] = "read"
  /\ \E result \in 0 .. len[c] :
       filled' = [filled EXCEPT ![c] = 0 .. result - 1]
  /\ Goto(c, "close_success")
  /\ UNCHANGED <<len, source, ret, openFds, calls>>

ReadError(c) == ReadFails(c)
Close(c)     == CloseAndReturn(c)

Step(c) == Open(c) \/ OpenError(c) \/ Read(c) \/ ReadError(c) \/ Close(c)

Next == \E c \in Callers : Call(c) \/ Step(c)

Spec == Init /\ [][Next]_deviceVars
=============================================================================
