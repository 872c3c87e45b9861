----------------------------- MODULE Sha3Sponge -----------------------------
(***************************************************************************)
(* lib/hash/sha3_brainhub/sha3.c: the SHA-3 context behind sha256_* and    *)
(* sha512_* when HASH=sha3_brainhub.  sha3_Update is modelled one loop     *)
(* iteration at a time, with the word size and the widths as parameters    *)
(* (the code has BytesPerWord = 8, SpongeWords = 25, Capacities {8, 16}).  *)
(*                                                                         *)
(* A byte is the set of its bits, so | is union and ^ is symmetric         *)
(* difference.  keccakf is an unknown permutation: the Keccak state s is   *)
(* represented by the sequence blocks of what was XORed into it before     *)
(* each keccakf since init, and by block, what was XORed since the last.   *)
(***************************************************************************)
EXTENDS Integers, Sequences

CONSTANTS
  BytesPerWord,   \* sizeof(uint64_t)
  SpongeWords,    \* SHA3_KECCAK_SPONGE_WORDS
  Capacities,     \* capacityWords of sha3_Init256, _Init384, _Init512
  ByteValues,     \* the bytes messages are made of
  MaxMessage      \* bound on the bytes passed to update between init and final

ASSUME SpongeAssumption ==
  /\ BytesPerWord \in Nat \ {0}
  /\ SpongeWords \in Nat
  /\ Capacities \subseteq 1 .. SpongeWords - 1
  /\ ByteValues \subseteq SUBSET (0 .. 7)
  /\ MaxMessage \in Nat

VARIABLES
  phase,          \* "raw", "open" after sha3_Init*, "closed" after sha3_Finalize
  capacityWords, saved, byteIndex, wordIndex,     \* fields of sha3_context
  blocks, block,  \* the field s, see above
  pc,             \* "idle", or the loop of sha3_Update that runs
  left,           \* bytes of bufIn sha3_Update has not consumed
  todo,           \* iterations left in the loop that runs
  fed,            \* history: the bytes passed to sha3_Update since init
  out             \* what sha3_Finalize has written since init, or <<>>

ctxVars == <<capacityWords, saved, byteIndex, wordIndex, blocks, block>>
vars == <<phase, ctxVars, pc, left, todo, fed, out>>

Byte  == SUBSET (0 .. 7)
Lane  == [0 .. BytesPerWord - 1 -> Byte]
State == [0 .. SpongeWords - 1 -> Lane]

ZeroLane  == [i \in 0 .. BytesPerWord - 1 |-> {}]
ZeroState == [j \in 0 .. SpongeWords - 1 |-> ZeroLane]

Xor(a, b)     == (a \ b) \cup (b \ a)
LaneXor(u, v) == [i \in 0 .. BytesPerWord - 1 |-> Xor(u[i], v[i])]

\* (uint64_t) byte << (8 * at)
LaneAt(at, byte) == [i \in 0 .. BytesPerWord - 1 |-> IF i = at THEN byte ELSE {}]

Rate(cap) == SpongeWords - cap      \* words absorbed per keccakf

\* The first capacityWords / 2 words of the state after the last keccakf.
Squeeze(cap, absorbed) ==
  [absorbed |-> absorbed, bytes |-> cap * (BytesPerWord \div 2)]

Chunks == UNION {[1 .. n -> ByteValues] : n \in 0 .. MaxMessage}

Init ==
  /\ phase = "raw"
  /\ capacityWords \in Capacities
  /\ saved = ZeroLane /\ byteIndex = 0 /\ wordIndex = 0
  /\ blocks = <<>> /\ block = ZeroState
  /\ pc = "idle" /\ left = 0 /\ todo = 0
  /\ fed = <<>> /\ out = <<>>

\* sha3_Init256, sha3_Init384, sha3_Init512: memset and the capacity.
\* Mutant: the memset leaves the partial word.
Sha3InitKeepsSaved ==
  /\ pc = "idle"
  /\ phase' = "open"
  /\ capacityWords' \in Capacities
  /\ wordIndex' = 0 /\ blocks' = <<>> /\ block' = ZeroState
  /\ fed' = <<>> /\ out' = <<>>
  /\ UNCHANGED <<saved, byteIndex, pc, left, todo>>

Sha3Init ==
  /\ pc = "idle"
  /\ phase' = "open"
  /\ capacityWords' \in Capacities
  /\ saved' = ZeroLane /\ byteIndex' = 0 /\ wordIndex' = 0
  /\ blocks' = <<>> /\ block' = ZeroState
  /\ fed' = <<>> /\ out' = <<>>
  /\ UNCHANGED <<pc, left, todo>>

\* s[wordIndex] ^= word, and keccakf once the last word of the rate is in.
Absorb(word) ==
  LET s == [block EXCEPT ![wordIndex] = LaneXor(@, word)]
  IN IF wordIndex + 1 = Rate(capacityWords)
     THEN blocks' = Append(blocks, s) /\ block' = ZeroState /\ wordIndex' = 0
     ELSE block' = s /\ wordIndex' = wordIndex + 1 /\ UNCHANGED blocks

\* buf[k], where buf points to the first byte not consumed.
Buf(k) == fed[Len(fed) - left + k + 1]

Loop(label, n) == pc' = label /\ todo' = n

\* sha3_Update is called: choose the loop to start with.
\* Mutant: the test for a word that stays incomplete is off by one.
UpdateOffByOne(chunk) ==
  LET oldTail == (BytesPerWord - byteIndex) % BytesPerWord
  IN /\ phase = "open" /\ pc = "idle"
     /\ Len(fed) + Len(chunk) <= MaxMessage
     /\ fed' = fed \o chunk
     /\ left' = Len(chunk)
     /\ IF Len(chunk) <= oldTail THEN Loop("short", Len(chunk))
        ELSE IF oldTail > 0 THEN Loop("fill", oldTail)
        ELSE Loop("words", Len(chunk) \div BytesPerWord)
     /\ UNCHANGED <<phase, ctxVars, out>>

Update(chunk) ==
  LET oldTail == (BytesPerWord - byteIndex) % BytesPerWord
  IN /\ phase = "open" /\ pc = "idle"
     /\ Len(fed) + Len(chunk) <= MaxMessage
     /\ fed' = fed \o chunk
     /\ left' = Len(chunk)
     /\ IF Len(chunk) < oldTail THEN Loop("short", Len(chunk))
        ELSE IF oldTail > 0 THEN Loop("fill", oldTail)
        ELSE Loop("words", Len(chunk) \div BytesPerWord)
     /\ UNCHANGED <<phase, ctxVars, out>>

\* while (todo--) ctx->saved |= *(buf++) << (ctx->byteIndex++ * 8), in three loops.
\* Mutant: none of the loop's -- and ++ done.
SaveByteInPlace ==
  /\ pc \in {"short", "fill", "tail"}
  /\ todo > 0
  /\ saved' = [saved EXCEPT ![byteIndex] = @ \cup Buf(0)]
  /\ UNCHANGED <<phase, capacityWords, byteIndex, wordIndex, blocks, block, pc,
                 left, todo, fed, out>>

SaveByte ==
  /\ pc \in {"short", "fill", "tail"}
  /\ todo > 0
  /\ saved' = [saved EXCEPT ![byteIndex] = @ \cup Buf(0)]
  /\ byteIndex' = byteIndex + 1
  /\ left' = left - 1
  /\ todo' = todo - 1
  /\ UNCHANGED <<phase, capacityWords, wordIndex, blocks, block, pc, fed, out>>

\* The word saved is complete: absorb it and go on with whole words.
\* Mutant: saved is not cleared.
FillEndKeepsSaved ==
  /\ pc = "fill" /\ todo = 0
  /\ Absorb(saved)
  /\ byteIndex' = 0
  /\ Loop("words", left \div BytesPerWord)
  /\ UNCHANGED <<phase, capacityWords, saved, left, fed, out>>

FillEnd ==
  /\ pc = "fill" /\ todo = 0
  /\ Absorb(saved)
  /\ saved' = ZeroLane
  /\ byteIndex' = 0
  /\ Loop("words", left \div BytesPerWord)
  /\ UNCHANGED <<phase, capacityWords, left, fed, out>>

\* One word straight from the input.
DirectWord ==
  /\ pc = "words" /\ todo > 0
  /\ Absorb([i \in 0 .. BytesPerWord - 1 |-> Buf(i)])
  /\ left' = left - BytesPerWord
  /\ todo' = todo - 1
  /\ UNCHANGED <<phase, capacityWords, saved, byteIndex, pc, fed, out>>

\* No whole word is left: save the rest (tail = len - words * 8).
WordsEnd ==
  /\ pc = "words" /\ todo = 0
  /\ Loop("tail", left)
  /\ UNCHANGED <<phase, ctxVars, left, fed, out>>

UpdateReturns ==
  /\ pc \in {"short", "tail"} /\ todo = 0
  /\ pc' = "idle"
  /\ UNCHANGED <<phase, ctxVars, left, todo, fed, out>>

\* sha3_Finalize: the partial word with the suffix 01 and the first padding bit,
\* the last padding bit, one more keccakf.  Only s changes in the context.
\* Mutant: the suffix forgotten.
FinalizeNoSuffix ==
  LET last   == Rate(capacityWords) - 1
      padded == [block EXCEPT ![wordIndex] = LaneXor(@, saved)]
      closed == [padded EXCEPT ![last] =
                   LaneXor(@, LaneAt(BytesPerWord - 1, {7}))]
  IN /\ phase = "open" /\ pc = "idle"
     /\ blocks' = Append(blocks, closed)
     /\ block' = ZeroState
     /\ out' = Squeeze(capacityWords, blocks')
     /\ phase' = "closed"
     /\ UNCHANGED <<capacityWords, saved, byteIndex, wordIndex, pc, left, todo, fed>>

Suffix == {1, 2}      \* 0x02 | (1 << 2)

Sha3Finalize ==
  LET last   == Rate(capacityWords) - 1
      padded == [block EXCEPT ![wordIndex] =
                   LaneXor(@, LaneXor(saved, LaneAt(byteIndex, Suffix)))]
      closed == [padded EXCEPT ![last] =
                   LaneXor(@, LaneAt(BytesPerWord - 1, {7}))]
  IN /\ phase = "open" /\ pc = "idle"
     /\ blocks' = Append(blocks, closed)
     /\ block' = ZeroState
     /\ out' = Squeeze(capacityWords, blocks')
     /\ phase' = "closed"
     /\ UNCHANGED <<capacityWords, saved, byteIndex, wordIndex, pc, left, todo, fed>>

Next ==
  \/ Sha3Init
  \/ \E chunk \in Chunks : Update(chunk)
  \/ SaveByte \/ FillEnd \/ DirectWord \/ WordsEnd \/ UpdateReturns
  \/ Sha3Finalize

\* A call of sha3_Update that has begun goes on.
Spec ==
  /\ Init /\ [][Next]_vars
  /\ WF_vars(SaveByte \/ FillEnd \/ DirectWord \/ WordsEnd \/ UpdateReturns)
-----------------------------------------------------------------------------
(***************************************************************************)
(* The hash function as FIPS 202 defines it, on whole messages: the        *)
(* message, the suffix, zeros and a last bit, up to a multiple of the      *)
(* block length, cut into blocks.                                          *)
(***************************************************************************)
BlockBytes(cap) == Rate(cap) * BytesPerWord

BlockCount(cap, m) == Len(m) \div BlockBytes(cap) + 1

PaddedByte(cap, m, k) ==
  (IF k < Len(m) THEN m[k + 1] ELSE IF k = Len(m) THEN Suffix ELSE {})
    \cup (IF k = BlockCount(cap, m) * BlockBytes(cap) - 1 THEN {7} ELSE {})

\* Byte i of word j of block b, all counted from 0, in the padded message.
Position(cap, b, j, i) == b * BlockBytes(cap) + j * BytesPerWord + i

PaddedBlock(cap, m, b) ==
  [j \in 0 .. SpongeWords - 1 |->
     IF j < Rate(cap)
     THEN [i \in 0 .. BytesPerWord - 1 |-> PaddedByte(cap, m, Position(cap, b, j, i))]
     ELSE ZeroLane]

Sha3(cap, m) ==
  Squeeze(cap, [b \in 1 .. BlockCount(cap, m) |-> PaddedBlock(cap, m, b - 1)])
-----------------------------------------------------------------------------
TypeOK ==
  /\ phase \in {"raw", "open", "closed"}
  /\ capacityWords \in Capacities
  /\ saved \in Lane
  /\ byteIndex \in 0 .. BytesPerWord
  /\ wordIndex \in 0 .. Rate(capacityWords) - 1
  /\ blocks \in Seq(State)
  /\ block \in State
  /\ pc \in {"idle", "short", "fill", "words", "tail"}
  /\ left \in 0 .. Len(fed)
  /\ todo \in Nat
  /\ fed \in Seq(ByteValues)

\* The SHA3_ASSERTs of sha3_Update (sha3.c:166-167, 176, 189, 201, 231, 236), with
\* the loop counters that make them true: no loop runs past its word or its input.
LoopsInStep ==
  /\ pc = "idle"  => byteIndex < BytesPerWord /\ left = 0
  /\ pc = "short" => byteIndex + todo < BytesPerWord /\ left = todo
  /\ pc = "fill"  => byteIndex + todo = BytesPerWord /\ left >= todo
  /\ pc = "words" => byteIndex = 0 /\ todo = left \div BytesPerWord
  /\ pc = "tail"  => byteIndex + todo < BytesPerWord /\ left = todo
  /\ phase # "open" => pc = "idle"

\* The byte of the stream that belongs at byte i of word j of block b.
At(b, j, i) == fed[Position(capacityWords, b, j, i) + 1]

WordAt(b, j) == [i \in 0 .. BytesPerWord - 1 |-> At(b, j, i)]

CursorFollows ==
  Len(fed) - left = Position(capacityWords, Len(blocks), wordIndex, byteIndex)

BlocksFollow ==
  \A b \in 1 .. Len(blocks) : \A j \in 0 .. SpongeWords - 1 :
    blocks[b][j] = IF j < Rate(capacityWords) THEN WordAt(b - 1, j) ELSE ZeroLane

BlockFollows ==
  \A j \in 0 .. SpongeWords - 1 :
    block[j] = IF j < wordIndex THEN WordAt(Len(blocks), j) ELSE ZeroLane

SavedFollows ==
  saved = [i \in 0 .. BytesPerWord - 1 |->
             IF i < byteIndex THEN At(Len(blocks), wordIndex, i) ELSE {}]

\* The context is a function of the bytes consumed so far, not of how they were
\* cut into calls: each byte sits at its place in the absorbed blocks, in the
\* block being filled or in saved, and everything else, the capacity too, is zero.
ContextFollowsStream ==
  phase = "open" => CursorFollows /\ BlocksFollow /\ BlockFollows /\ SavedFollows

\* The digest sha3_Finalize wrote is SHA-3 of everything fed since init.
DigestIsSha3 == phase = "closed" => out = Sha3(capacityWords, fed)

\* Padding separates messages: no other message of bounded length gives the
\* digest sha3_Finalize returned (the suffix and the last bit, sha3.c:240-270,
\* may share a byte, or fill a block of their own).
DigestTellsMessages ==
  phase = "closed" =>
    \A m \in Chunks : out = Sha3(capacityWords, m) => m = fed

\* sha3_Update's loops end.
UpdateEnds == pc # "idle" ~> pc = "idle"

\* sha3.c implements the streaming interface of sha256.h and sha512.h.
Stream == INSTANCE HashStream WITH
            Kinds <- Capacities, kind <- capacityWords,
            msg <- fed, Digest <- Sha3

StreamSpec == Stream!Spec
=============================================================================
