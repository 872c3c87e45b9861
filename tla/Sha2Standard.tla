---------------------------- MODULE Sha2Standard ----------------------------
(***************************************************************************)
(* The compression of SHA-2 as FIPS 180-4 states it (4.1.2, 4.1.3, 6.2.2   *)
(* and 6.4.2): at every step the eight working variables move along by     *)
(* one, and a word of the message schedule enters.  Of the schedule the    *)
(* state keeps the last sixteen words, all that a later one depends on.    *)
(***************************************************************************)
EXTENDS Words

CONSTANT K        \* by kind, the sequence of constants; one for every step

VARIABLES
  kind,           \* which of the four functions
  H,              \* the hash value, from 0
  message,        \* the block, sixteen words from 0, or <<>> when there is none
  v,              \* the working variables, a = v[0] to h = v[7]
  t,              \* steps done
  recent          \* the last words of the schedule, at most sixteen, the oldest first

vars == <<kind, H, message, v, t, recent>>

\* The bits of a word, and the amounts of the rotations and shifts, which depend on it.
Width == [sha224 |-> 32, sha256 |-> 32, sha384 |-> 64, sha512 |-> 64]
w     == Width[kind]

Rotations ==
  IF w = 32
  THEN [Sigma0 |-> <<2, 13, 22>>, Sigma1 |-> <<6, 11, 25>>,
        sigma0 |-> <<7, 18, 3>>,  sigma1 |-> <<17, 19, 10>>]
  ELSE [Sigma0 |-> <<28, 34, 39>>, Sigma1 |-> <<14, 18, 41>>,
        sigma0 |-> <<1, 8, 7>>,    sigma1 |-> <<19, 61, 6>>]

Sigma(S, n) == Xor(Rotr(w, S, n[1]), Xor(Rotr(w, S, n[2]), Rotr(w, S, n[3])))
sigma(S, n) == Xor(Rotr(w, S, n[1]), Xor(Rotr(w, S, n[2]), Shr(S, n[3])))

Ch(x, y, z)  == Xor(x \cap y, Not(w, x) \cap z)
Maj(x, y, z) == Xor(x \cap y, Xor(x \cap z, y \cap z))

Init == message = <<>> /\ v = H /\ t = 0 /\ recent = <<>>

\* Another block.
Start ==
  /\ message = <<>>
  /\ DOMAIN message' = 0 .. 15
  /\ UNCHANGED <<kind, H, v, t, recent>>

\* W_t.
Scheduled ==
  IF t < 16 THEN message[t]
  ELSE Sum(w, <<sigma(recent[15], Rotations.sigma1), recent[10],
                sigma(recent[2], Rotations.sigma0), recent[1]>>)

Step ==
  /\ message # <<>> /\ t < Len(K[kind])
  /\ LET T1 == Sum(w, <<v[7], Sigma(v[4], Rotations.Sigma1), Ch(v[4], v[5], v[6]),
                        K[kind][t + 1], Scheduled>>)
         T2 == Sum(w, <<Sigma(v[0], Rotations.Sigma0), Maj(v[0], v[1], v[2])>>)
     IN v' = [k \in 0 .. 7 |-> CASE k = 0 -> Sum(w, <<T1, T2>>)
                                 [] k = 4 -> Sum(w, <<v[3], T1>>)
                                 [] OTHER -> v[k - 1]]
  /\ recent' = Append(IF t < 16 THEN recent ELSE Tail(recent), Scheduled)
  /\ t' = t + 1
  /\ UNCHANGED <<kind, H, message>>

Finish ==
  /\ message # <<>> /\ t = Len(K[kind])
  /\ H' = [k \in 0 .. 7 |-> Trunc(w, Plus(v[k], H[k]))]
  /\ v' = H' /\ t' = 0 /\ recent' = <<>> /\ message' = <<>>
  /\ UNCHANGED kind

Next == Start \/ Step \/ Finish
Spec == Init /\ [][Next]_vars
=============================================================================
