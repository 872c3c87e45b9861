------------------------------- MODULE ShaMd -------------------------------
(***************************************************************************)
(* lib/hash/sha2_sphlib/md_helper.i: the SHA-2 context behind sha256_* and *)
(* sha512_* when HASH=sha2_sphlib.  sha2.c includes it with BE32 (blocks   *)
(* of 64 bytes, words of 4), sha2_big.c with BE64 (128 and 8); the two     *)
(* differ in how the closing length is computed.  Update is modelled one   *)
(* loop iteration at a time, with its path for long inputs.                *)
(*                                                                         *)
(* RFUN is an unknown compression function: val is represented by the      *)
(* initial value, kind, and the sequence blocks of what RFUN was given.    *)
(***************************************************************************)
EXTENDS Integers, Sequences

CONSTANTS
  BlockLen,       \* SPH_BLEN
  WordLen,        \* SPH_WLEN
  Unaligned,      \* SPH_UNALIGNED
  Kinds,          \* sha224 and sha256, which include the code with BE32 ...
  BigKinds,       \* ... and sha384 and sha512, with BE64
  Messages,       \* what may be passed to update between init and close
  Junk            \* contents of buf before anything is written to it

ASSUME BlockAssumption ==
  /\ WordLen \in Nat \ {0} /\ BlockLen \in Nat /\ 2 * WordLen < BlockLen
  /\ BigKinds \subseteq Kinds /\ Unaligned \in BOOLEAN
  /\ Messages \subseteq Seq(0 .. 255) /\ Junk \subseteq [0 .. BlockLen - 1 -> 0 .. 255]

VARIABLES
  phase,          \* "raw", "open" after init, "closed" after close
  kind, blocks,   \* the field val, see above
  buf, count,     \* fields of the context
  pc,             \* "idle", or the loop of update that runs
  left,           \* bytes of data not consumed
  todo,           \* the variable len of the function _short
  current,        \* its variable current
  rest,           \* what _short returns to: "return", or "align" in the long path
  origLen,        \* the variable orig_len
  fed,            \* history: the bytes passed to update since init
  out             \* what close has written since init, or <<>>

locals  == <<pc, left, todo, current, rest, origLen>>
ctxVars == <<kind, blocks, buf, count>>
vars    == <<phase, ctxVars, locals, fed, out>>

Offsets == 0 .. BlockLen - 1
Block   == [Offsets -> 0 .. 255]
MaxPad  == BlockLen - 2 * WordLen

Chunks == UNION {{SubSeq(m, a, b) : a \in 1 .. Len(m) + 1, b \in 0 .. Len(m)} : m \in Messages}

\* data[k]
Data(k) == fed[Len(fed) - left + k + 1]

\* memcpy(sc->buf + at, data, n)
Copied(at, n) == [i \in Offsets |-> IF i \in at .. at + n - 1 THEN Data(i - at) ELSE buf[i]]

\* BE64: the length is closed as two words, not as one of twice the size.
Big(k) == k \in BigKinds

\* sc->count is computed modulo this: 2^64 for both, words being of 8 or of 4 bytes.
CountMod == 2 ^ (8 * (IF Big(kind) THEN WordLen ELSE 2 * WordLen))

\* Messages whose length can be closed.
Fits(m) == IF Big(kind) THEN Len(m) < CountMod ELSE 8 * Len(m) < CountMod

\* Init of a context leaves buf as it is: anything, at first.
Init ==
  /\ phase = "raw" /\ kind \in Kinds /\ blocks = <<>> /\ count = 0
  /\ buf \in Junk
  /\ pc = "idle" /\ left = 0 /\ todo = 0 /\ current = 0 /\ rest = "return" /\ origLen = 0
  /\ fed = <<>> /\ out = <<>>

\* sph_sha256_init and the like: val and count, not buf.  A context has the type of one
\* of the two pairs.
ShaInit ==
  /\ pc = "idle"
  /\ phase' = "open"
  /\ kind' \in {k \in Kinds : Big(k) = Big(kind)} /\ blocks' = <<>> /\ count' = 0
  /\ fed' = <<>> /\ out' = <<>>
  /\ UNCHANGED <<buf, locals>>

\* Call _short(cc, data, n) and go on at label afterwards.
CallShort(n, label) ==
  /\ pc' = "short" /\ todo' = n /\ current' = count % BlockLen /\ rest' = label

\* sph_HASH is called.  Short inputs, and what completes a block that has begun,
\* go through _short.  Mutant: the block that has begun is not completed.
UpdateSkipsFill(chunk) ==
  /\ phase = "open" /\ pc = "idle"
  /\ fed \o chunk \in Messages /\ Fits(fed \o chunk)
  /\ fed' = fed \o chunk
  /\ left' = Len(chunk)
  /\ IF Len(chunk) < 2 * BlockLen THEN CallShort(Len(chunk), "return")
     ELSE pc' = "align" /\ UNCHANGED <<todo, current, rest>>
  /\ UNCHANGED <<phase, ctxVars, origLen, out>>

Update(chunk) ==
  /\ phase = "open" /\ pc = "idle"
  /\ fed \o chunk \in Messages /\ Fits(fed \o chunk)
  /\ fed' = fed \o chunk
  /\ left' = Len(chunk)
  /\ IF Len(chunk) < 2 * BlockLen THEN CallShort(Len(chunk), "return")
     ELSE IF count % BlockLen > 0 THEN CallShort(BlockLen - (count % BlockLen), "align")
     ELSE pc' = "align" /\ UNCHANGED <<todo, current, rest>>
  /\ UNCHANGED <<phase, ctxVars, origLen, out>>

\* One iteration of while (len > 0) in _short.
ShortCopy ==
  LET clen == IF BlockLen - current > todo THEN todo ELSE BlockLen - current
  IN /\ pc = "short" /\ todo > 0
     /\ buf' = Copied(current, clen)
     /\ IF current + clen = BlockLen
        THEN blocks' = Append(blocks, buf') /\ current' = 0
        ELSE current' = current + clen /\ UNCHANGED blocks
     /\ left' = left - clen
     /\ todo' = todo - clen
     /\ count' = (count + clen) % CountMod
     /\ UNCHANGED <<phase, kind, pc, rest, origLen, fed, out>>

\* A local variable that is not read again gets its first value back.
Forget == todo' = 0 /\ current' = 0 /\ rest' = "return"

ShortEnds ==
  /\ pc = "short" /\ todo = 0
  /\ pc' = IF rest = "align" THEN "align" ELSE "idle"
  /\ Forget
  /\ UNCHANGED <<phase, ctxVars, left, origLen, fed, out>>

\* data may lie at any address: if it is not aligned for RFUN, and has to be, the
\* rest goes through _short.  Mutant: the test is made again afterwards.
TakeAligned ==
  /\ pc = "align"
  /\ pc' = "blocks"
  /\ origLen' = left
  /\ UNCHANGED <<phase, ctxVars, left, todo, current, rest, fed, out>>

TakeMisalignedAgain ==
  /\ pc = "align" /\ ~Unaligned
  /\ CallShort(left, "align")
  /\ UNCHANGED <<phase, ctxVars, left, origLen, fed, out>>

TakeMisaligned ==
  /\ pc = "align" /\ ~Unaligned
  /\ CallShort(left, "return")
  /\ UNCHANGED <<phase, ctxVars, left, origLen, fed, out>>

\* One iteration of while (len >= SPH_BLEN): a block straight from data.
DirectBlock ==
  /\ pc = "blocks" /\ left >= BlockLen
  /\ blocks' = Append(blocks, [i \in Offsets |-> Data(i)])
  /\ left' = left - BlockLen
  /\ UNCHANGED <<phase, kind, buf, count, pc, todo, current, rest, origLen, fed, out>>

\* The incomplete block is kept, the count brought up to date.
\* Mutant: it is copied from the start of the data.
DirectEndsFromStart ==
  /\ pc = "blocks" /\ left < BlockLen
  /\ buf' = [i \in Offsets |->
               IF i < left THEN fed[Len(fed) - origLen + i + 1] ELSE buf[i]]
  /\ count' = (count + origLen) % CountMod
  /\ left' = 0 /\ origLen' = 0 /\ pc' = "idle"
  /\ UNCHANGED <<phase, kind, blocks, todo, current, rest, fed, out>>

DirectEnds ==
  /\ pc = "blocks" /\ left < BlockLen
  /\ buf' = Copied(0, left)
  /\ count' = (count + origLen) % CountMod
  /\ left' = 0 /\ origLen' = 0 /\ pc' = "idle"
  /\ UNCHANGED <<phase, kind, blocks, todo, current, rest, fed, out>>

\* The closing length field as a number: the words count >> 61 and count << 3, or
\* count << 3 alone.
LengthField ==
  IF Big(kind) THEN ((count \div (CountMod \div 8)) * CountMod) + ((count * 8) % CountMod)
         ELSE (count * 8) % CountMod

\* Byte i, counted from the last one, of a number.
Digit(n, i) == (n \div 2 ^ (8 * i)) % 256

\* The digest: as many words of val as the hash has.
Output(k, compressed) == [initial |-> k, blocks |-> compressed]

\* _addbits_and_close with no extra bits: the mark 0x80 at current; zeros, through
\* a block of their own if the length does not fit; the length.  Then init.
\* Mutant: a block of its own also where the length just fits.
CloseEarly ==
  LET n      == count % BlockLen
      marked == [i \in Offsets |-> IF i < n THEN buf[i] ELSE IF i = n THEN 128 ELSE 0]
      spills == n + 1 >= MaxPad
      final  == [i \in Offsets |-> IF i >= MaxPad THEN Digit(LengthField, BlockLen - 1 - i)
                                   ELSE IF spills THEN 0 ELSE marked[i]]
      done   == IF spills THEN blocks \o <<marked, final>> ELSE Append(blocks, final)
  IN /\ phase = "open" /\ pc = "idle"
     /\ phase' = "closed"
     /\ out' = Output(kind, done)
     /\ buf' = final /\ blocks' = <<>> /\ count' = 0
     /\ UNCHANGED <<kind, locals, fed>>

Close ==
  LET n      == count % BlockLen
      marked == [i \in Offsets |-> IF i < n THEN buf[i] ELSE IF i = n THEN 128 ELSE 0]
      spills == n + 1 > MaxPad
      final  == [i \in Offsets |-> IF i >= MaxPad THEN Digit(LengthField, BlockLen - 1 - i)
                                   ELSE IF spills THEN 0 ELSE marked[i]]
      done   == IF spills THEN blocks \o <<marked, final>> ELSE Append(blocks, final)
  IN /\ phase = "open" /\ pc = "idle"
     /\ phase' = "closed"
     /\ out' = Output(kind, done)
     /\ buf' = final /\ blocks' = <<>> /\ count' = 0
     /\ UNCHANGED <<kind, locals, fed>>

UpdateStep ==
  ShortCopy \/ ShortEnds \/ TakeAligned \/ TakeMisaligned \/ DirectBlock \/ DirectEnds

Next == ShaInit \/ (\E chunk \in Chunks : Update(chunk)) \/ UpdateStep \/ Close

\* A call of update that has begun goes on.
Spec == Init /\ [][Next]_vars /\ WF_vars(UpdateStep)
-----------------------------------------------------------------------------
(***************************************************************************)
(* The hash function as FIPS 180 defines it, on whole messages: the        *)
(* message, the mark, zeros and the length in bits in twice a word, up to  *)
(* a multiple of the block length, cut into blocks.                        *)
(***************************************************************************)
BlockCount(m) == (Len(m) + 2 * WordLen) \div BlockLen + 1

PaddedByte(m, k) ==
  IF k < Len(m) THEN m[k + 1]
  ELSE IF k = Len(m) THEN 128
  ELSE LET fromEnd == BlockCount(m) * BlockLen - 1 - k
       IN IF fromEnd < 2 * WordLen THEN Digit(8 * Len(m), fromEnd) ELSE 0

Sha2(k, m) ==
  Output(k, [b \in 1 .. BlockCount(m) |->
               [i \in Offsets |-> PaddedByte(m, (b - 1) * BlockLen + i)]])
-----------------------------------------------------------------------------
TypeOK ==
  /\ phase \in {"raw", "open", "closed"}
  /\ kind \in Kinds
  /\ blocks \in Seq(Block)
  /\ buf \in Block
  /\ count \in Nat
  /\ pc \in {"idle", "short", "align", "blocks"}
  /\ left \in 0 .. Len(fed)
  /\ todo \in 0 .. Len(fed)
  /\ current \in Offsets
  /\ rest \in {"return", "align"}
  /\ origLen \in Nat
  /\ fed \in Seq(0 .. 255)

\* Bytes RFUN has had or buf holds; in the long path count lags behind.
Consumed == IF pc = "blocks" THEN count + origLen - left ELSE count

\* The context is a function of the bytes consumed so far, not of how they were
\* cut into calls or of the path they took: complete blocks went to RFUN in
\* order, the rest is at the start of buf, and the count is exact.
ContextFollowsStream ==
  phase = "open" =>
    /\ Consumed = Len(fed) - left
    /\ Len(blocks) = Consumed \div BlockLen
    /\ \A b \in 1 .. Len(blocks) :
         blocks[b] = [i \in Offsets |-> fed[(b - 1) * BlockLen + i + 1]]
    /\ \A i \in 0 .. (Consumed % BlockLen) - 1 :
         buf[i] = fed[Len(blocks) * BlockLen + i + 1]

\* _short's current is the place of the next byte, and blocks that bypass buf are
\* taken only when buf is empty: what the long path has to establish before it.
PathsMeet ==
  /\ pc = "short" => current = count % BlockLen /\ todo <= left
  /\ pc \in {"align", "blocks"} => count % BlockLen = 0
  /\ pc = "short" /\ rest = "align" => (current + todo) % BlockLen = 0
  /\ pc = "idle" => left = 0

\* update's loops end.
UpdateEnds == pc # "idle" ~> pc = "idle"

\* md_helper.i implements the streaming interface of sha256.h and sha512.h.
Stream == INSTANCE HashStream WITH msg <- fed, Digest <- Sha2

StreamSpec == Stream!Spec
=============================================================================
