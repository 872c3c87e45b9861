----------------------------- MODULE HashStream -----------------------------
(***************************************************************************)
(* What include/ed25519/ed25519/sha256.h and sha512.h promise of a context *)
(* used as init, update, ..., update, final, whichever backend is linked   *)
(* in: the digest is that of the concatenation of what was passed to       *)
(* update since init, however it was cut into calls.                       *)
(***************************************************************************)
EXTENDS Sequences

CONSTANTS
  Kinds,             \* hash functions a context can be initialised for
  Chunks,            \* buffers passed to update
  Digest(_, _)       \* Digest(kind, message): the hash function

VARIABLES
  phase,     \* "raw" before init, "open" after it, "closed" after final
  kind,      \* the hash function the context was initialised for
  msg,       \* what was passed to update since init
  out        \* what final has written since init, or <<>>

vars == <<phase, kind, msg, out>>

Init == phase = "raw" /\ kind \in Kinds /\ msg = <<>> /\ out = <<>>

HashInit ==
  /\ phase' = "open"
  /\ kind' \in Kinds
  /\ msg' = <<>>
  /\ out' = <<>>

HashUpdate ==
  /\ phase = "open"
  /\ \E chunk \in Chunks : msg' = msg \o chunk
  /\ UNCHANGED <<phase, kind, out>>

HashFinal ==
  /\ phase = "open"
  /\ phase' = "closed"
  /\ out' = Digest(kind, msg)
  /\ UNCHANGED <<kind, msg>>

Next == HashInit \/ HashUpdate \/ HashFinal

Spec == Init /\ [][Next]_vars
=============================================================================
