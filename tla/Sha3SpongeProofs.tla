-------------------------- MODULE Sha3SpongeProofs --------------------------
(***************************************************************************)
(* For every word size, state size, set of capacities and messages: the    *)
(* context of sha3.c is a function of the bytes it was fed, and its digest *)
(* is SHA-3's of their concatenation.  The arithmetic of positions is      *)
(* proved first and cited by name: after that no step multiplies.          *)
(***************************************************************************)
EXTENDS Sha3Sponge, SequenceTheorems, NumberTheorems

LEMMA MulMono == \A a, b, c \in Nat : a <= b => a * c <= b * c
OBVIOUS

LEMMA MulNext == \A a, b \in Nat : a * b \in Nat /\ (a + 1) * b = a * b + b
OBVIOUS

LEMMA DivBounds ==
  \A x \in Nat, w \in Nat \ {0} :
    /\ x \div w \in Nat
    /\ (x \div w) * w <= x
    /\ x < (x \div w) * w + w
OBVIOUS

LEMMA DivUnique ==
  \A x, q \in Nat, w \in Nat \ {0} : q * w <= x /\ x < q * w + w => x \div w = q
OBVIOUS

\* Taking one word off leaves one word less.
LEMMA DivStep ==
  \A x \in Nat, w \in Nat \ {0} :
    x \div w > 0 => x >= w /\ (x - w) \div w = x \div w - 1
<1> SUFFICES ASSUME NEW x \in Nat, NEW w \in Nat \ {0}, x \div w > 0
             PROVE  x >= w /\ (x - w) \div w = x \div w - 1
  OBVIOUS
<1> DEFINE q == x \div w
<1>1. q \in Nat /\ q * w <= x /\ x < q * w + w
  BY DivBounds
<1>2. q - 1 \in Nat /\ (q - 1) * w = q * w - w
  BY <1>1
<1>3. (q - 1) * w \in Nat
  BY <1>2, MulMono
<1>4. x >= w /\ x - w \in Nat
  BY <1>1, <1>2, <1>3
<1> QED
  BY <1>1, <1>2, <1>4, DivUnique

LEMMA RateBounds ==
  ASSUME NEW cap \in Capacities
  PROVE  /\ cap \in Nat
         /\ Rate(cap) \in Nat \ {0}
         /\ Rate(cap) < SpongeWords
         /\ BytesPerWord \in Nat \ {0}
         /\ SpongeWords \in Nat
         /\ BlockBytes(cap) \in Nat \ {0}
<1>1. Rate(cap) \in Nat \ {0} /\ Rate(cap) < SpongeWords /\ cap \in Nat
  BY SpongeAssumption DEF Rate
<1>2. 1 * BytesPerWord <= Rate(cap) * BytesPerWord
  BY <1>1, MulMono, SpongeAssumption
<1> QED
  BY <1>1, <1>2, SpongeAssumption DEF BlockBytes

\* Positions are counted byte by byte, word by word, block by block.
LEMMA PositionSteps ==
  ASSUME NEW cap \in Capacities, NEW b \in Nat, NEW j \in Nat, NEW i \in Nat
  PROVE  /\ Position(cap, b, j, i) \in Nat
         /\ Position(cap, b, j, i) = Position(cap, b, j, 0) + i
         /\ Position(cap, b, j + 1, 0) = Position(cap, b, j, 0) + BytesPerWord
         /\ Position(cap, b + 1, 0, 0) = Position(cap, b, Rate(cap), 0)
         /\ Position(cap, 0, 0, 0) = 0
<1> DEFINE R == BlockBytes(cap)
<1>1. /\ R \in Nat /\ BytesPerWord \in Nat
      /\ R = Rate(cap) * BytesPerWord
      /\ 0 * BytesPerWord = 0 /\ 0 * R = 0
  BY RateBounds DEF BlockBytes
<1>2. b * R \in Nat /\ j * BytesPerWord \in Nat
  BY <1>1
<1>3. (j + 1) * BytesPerWord = j * BytesPerWord + BytesPerWord
  BY <1>1
<1>4. (b + 1) * R = b * R + R
  BY <1>1
<1> HIDE DEF R
<1> QED
  BY <1>1, <1>2, <1>3, <1>4 DEF Position, R

LEMMA PositionNat ==
  ASSUME NEW cap \in Capacities, NEW b \in Nat, NEW j \in Nat, NEW i \in Nat
  PROVE  Position(cap, b, j, i) \in Nat
BY PositionSteps

LEMMA PositionByte ==
  ASSUME NEW cap \in Capacities, NEW b \in Nat, NEW j \in Nat, NEW i \in Nat
  PROVE  Position(cap, b, j, i) = Position(cap, b, j, 0) + i
BY PositionSteps

\* Positions are ordered by block, then by word, then by byte.
LEMMA PositionOrder ==
  ASSUME NEW cap \in Capacities,
         NEW b \in Nat, NEW c \in Nat,
         NEW j \in 0 .. Rate(cap) - 1, NEW k \in 0 .. Rate(cap) - 1,
         NEW i \in 0 .. BytesPerWord - 1, NEW l \in Nat,
         b < c \/ (b = c /\ j < k) \/ (b = c /\ j = k /\ i < l)
  PROVE  Position(cap, b, j, i) < Position(cap, c, k, l)
<1> DEFINE W == BytesPerWord
           R == BlockBytes(cap)
<1>0. /\ R \in Nat /\ W \in Nat \ {0} /\ R = Rate(cap) * W /\ Rate(cap) \in Nat
      /\ j \in Nat /\ k \in Nat /\ i \in Nat
      /\ j + 1 \in Nat /\ b + 1 \in Nat /\ i < W
  BY RateBounds DEF BlockBytes
<1>1. /\ b * R \in Nat /\ c * R \in Nat /\ j * W \in Nat /\ k * W \in Nat
      /\ (j + 1) * W = j * W + W /\ (b + 1) * R = b * R + R
  <2> HIDE DEF W, R
  <2> QED BY <1>0, MulNext
<1>2. (j + 1) * W <= R
  <2>1. j + 1 <= Rate(cap)
    BY <1>0
  <2> QED BY <1>0, <2>1, MulMono
<1>3. /\ Position(cap, b, j, i) = b * R + j * W + i
      /\ Position(cap, c, k, l) = c * R + k * W + l
  BY DEF Position
<1>4. CASE b < c
  <2>1. (b + 1) * R <= c * R
    <3>1. b + 1 <= c
      BY <1>4
    <3> QED BY <1>0, <3>1, MulMono
  <2> DEFINE bR == b * R  cR == c * R  jW == j * W  kW == k * W
  <2>2. /\ bR \in Nat /\ cR \in Nat /\ jW \in Nat /\ kW \in Nat
        /\ jW + W <= R /\ bR + R <= cR
        /\ Position(cap, b, j, i) = bR + jW + i
        /\ Position(cap, c, k, l) = cR + kW + l
    BY <1>1, <1>2, <1>3, <2>1
  <2> HIDE DEF W, R, bR, cR, jW, kW
  <2> QED BY <1>0, <2>2
<1>5. CASE b = c /\ j < k
  <2>1. (j + 1) * W <= k * W
    <3>1. j + 1 <= k
      BY <1>5, <1>0
    <3> QED BY <1>0, <3>1, MulMono
  <2> DEFINE bR == b * R  jW == j * W  kW == k * W
  <2>2. /\ bR \in Nat /\ jW \in Nat /\ kW \in Nat
        /\ jW + W <= kW
        /\ Position(cap, b, j, i) = bR + jW + i
        /\ Position(cap, c, k, l) = bR + kW + l
    BY <1>1, <1>3, <1>5, <2>1
  <2> HIDE DEF W, R, bR, jW, kW
  <2> QED BY <1>0, <2>2
<1>6. CASE b = c /\ j = k /\ i < l
  <2> DEFINE bR == b * R  jW == j * W
  <2>2. /\ bR \in Nat /\ jW \in Nat
        /\ Position(cap, b, j, i) = bR + jW + i
        /\ Position(cap, c, k, l) = bR + jW + l
    BY <1>1, <1>3, <1>6
  <2> HIDE DEF W, R, bR, jW
  <2> QED BY <1>0, <1>6, <2>2
<1> QED
  BY <1>4, <1>5, <1>6

-----------------------------------------------------------------------------
\* XORing words gives words, and XORing into zero copies.
LEMMA LaneXorFacts ==
  /\ ZeroLane \in Lane
  /\ \A u, v \in Lane : LaneXor(u, v) \in Lane
  /\ \A u \in Lane : LaneXor(ZeroLane, u) = u
<1>1. ZeroLane \in Lane
  BY DEF ZeroLane, Lane, Byte
<1>2. ASSUME NEW u \in Lane, NEW v \in Lane PROVE LaneXor(u, v) \in Lane
  <2>1. \A i \in 0 .. BytesPerWord - 1 : Xor(u[i], v[i]) \in Byte
    <3> SUFFICES ASSUME NEW i \in 0 .. BytesPerWord - 1 PROVE Xor(u[i], v[i]) \in Byte
      OBVIOUS
    <3>1. u[i] \in SUBSET (0 .. 7) /\ v[i] \in SUBSET (0 .. 7)
      BY DEF Lane, Byte
    <3> QED BY <3>1 DEF Xor, Byte
  <2> QED BY <2>1 DEF LaneXor, Lane
<1>3. ASSUME NEW u \in Lane PROVE LaneXor(ZeroLane, u) = u
  <2>1. \A i \in 0 .. BytesPerWord - 1 : Xor(ZeroLane[i], u[i]) = u[i]
    BY DEF Xor, ZeroLane
  <2>2. u = [i \in 0 .. BytesPerWord - 1 |-> u[i]]
    BY DEF Lane
  <2> QED BY <2>1, <2>2 DEF LaneXor
<1> QED BY <1>1, <1>2, <1>3

\* A byte of the input that is not consumed yet is a byte of the message.
LEMMA BufType ==
  ASSUME TypeOK, NEW k \in Nat, k < left
  PROVE  Buf(k) \in Byte
<1>1. Len(fed) - left + k + 1 \in 1 .. Len(fed)
  BY DEF TypeOK
<1>2. fed[Len(fed) - left + k + 1] \in ByteValues
  BY <1>1 DEF TypeOK
<1> QED BY <1>2, SpongeAssumption DEF Buf, Byte

\* What an absorbed word does to the types: wordIndex wraps at the rate.
LEMMA AbsorbType ==
  ASSUME TypeOK, NEW word \in Lane, Absorb(word)
  PROVE  /\ blocks' \in Seq(State)
         /\ block' \in State
         /\ wordIndex' \in 0 .. Rate(capacityWords) - 1
<1> DEFINE s == [block EXCEPT ![wordIndex] = LaneXor(@, word)]
<1>1. capacityWords \in Capacities
  BY DEF TypeOK
<1>2. Rate(capacityWords) \in Nat /\ Rate(capacityWords) < SpongeWords
      /\ SpongeWords \in Nat
  BY <1>1, RateBounds
<1>3. wordIndex \in 0 .. SpongeWords - 1 /\ wordIndex \in 0 .. Rate(capacityWords) - 1
  BY <1>2 DEF TypeOK
<1>4. s \in State
  <2>1. LaneXor(block[wordIndex], word) \in Lane
    BY <1>3, LaneXorFacts DEF TypeOK, State
  <2> QED BY <1>3, <2>1 DEF TypeOK, State
<1>5. ZeroState \in State
  BY LaneXorFacts DEF ZeroState, State
<1> HIDE DEF s
<1>6. CASE wordIndex + 1 = Rate(capacityWords)
  <2>1. blocks' = Append(blocks, s) /\ block' = ZeroState /\ wordIndex' = 0
    BY <1>6 DEF Absorb, s
  <2>2. Append(blocks, s) \in Seq(State)
    BY <1>4 DEF TypeOK
  <2> QED BY <1>2, <1>3, <1>5, <2>1, <2>2
<1>7. CASE wordIndex + 1 # Rate(capacityWords)
  <2>1. blocks' = blocks /\ block' = s /\ wordIndex' = wordIndex + 1
    BY <1>7 DEF Absorb, s
  <2> QED BY <1>2, <1>3, <1>4, <1>7, <2>1 DEF TypeOK
<1> QED BY <1>6, <1>7

\* old_tail = (8 - byteIndex) & 7: what is missing from the current word.
LEMMA OldTail ==
  ASSUME NEW x \in 0 .. BytesPerWord - 1
  PROVE  (BytesPerWord - x) % BytesPerWord = IF x = 0 THEN 0 ELSE BytesPerWord - x
<1>1. BytesPerWord \in Nat \ {0}
  BY SpongeAssumption
<1>2. CASE x = 0
  BY <1>1, <1>2
<1>3. CASE x # 0
  <2>1. BytesPerWord - x \in 1 .. BytesPerWord - 1
    BY <1>1, <1>3
  <2> QED BY <1>1, <1>3, <2>1
<1> QED BY <1>2, <1>3

LEMMA ChunkType ==
  ASSUME NEW chunk \in Chunks
  PROVE  chunk \in Seq(ByteValues) /\ Len(chunk) \in Nat
<1> PICK n \in 0 .. MaxMessage : chunk \in [1 .. n -> ByteValues]
  BY DEF Chunks
<1>1. n \in Nat
  BY SpongeAssumption
<1> QED BY <1>1

\* The types and the loop counters are kept by every step.
LEMMA LoopStep ==
  TypeOK /\ LoopsInStep /\ [Next]_vars => TypeOK' /\ LoopsInStep'
<1> SUFFICES ASSUME TypeOK, LoopsInStep, [Next]_vars PROVE TypeOK' /\ LoopsInStep'
  OBVIOUS
<1> DEFINE W == BytesPerWord
<1>0. /\ capacityWords \in Capacities
      /\ W \in Nat \ {0} /\ SpongeWords \in Nat
      /\ Rate(capacityWords) \in Nat \ {0}
  <2>1. capacityWords \in Capacities
    BY DEF TypeOK
  <2> QED BY <2>1, RateBounds
<1>1. CASE Sha3Init
  <2>1. ZeroState \in State
    BY LaneXorFacts DEF ZeroState, State
  <2>2. \A cap \in Capacities : 0 \in 0 .. Rate(cap) - 1
    BY RateBounds
  <2>3. TypeOK'
    BY <1>0, <1>1, <2>1, <2>2, LaneXorFacts DEF Sha3Init, TypeOK, LoopsInStep
  <2>4. LoopsInStep'
    BY <1>0, <1>1 DEF Sha3Init, LoopsInStep
  <2> QED BY <2>3, <2>4
<1>2. ASSUME NEW chunk \in Chunks, Update(chunk) PROVE TypeOK' /\ LoopsInStep'
  <2>1. chunk \in Seq(ByteValues) /\ Len(chunk) \in Nat
    BY ChunkType
  <2>2. /\ fed' \in Seq(ByteValues) /\ Len(fed') = Len(fed) + Len(chunk)
        /\ Len(fed) \in Nat
    BY <1>2, <2>1, ConcatProperties DEF Update, TypeOK
  <2>3. byteIndex \in 0 .. W - 1
    BY <1>0, <1>2 DEF Update, TypeOK, LoopsInStep
  <2>4. Len(chunk) \div W \in Nat
    BY <1>0, <2>1, DivBounds
  <2>5. (W - byteIndex) % W = IF byteIndex = 0 THEN 0 ELSE W - byteIndex
    BY <2>3, OldTail
  <2>6. TypeOK'
    <3>1. todo' \in Nat /\ pc' \in {"idle", "short", "fill", "words", "tail"}
      BY <1>0, <1>2, <2>1, <2>3, <2>4, <2>5 DEF Update, Loop
    <3>2. left' \in 0 .. Len(fed')
      BY <1>2, <2>1, <2>2 DEF Update
    <3>3. phase' \in {"raw", "open", "closed"}
      BY <1>2 DEF Update, TypeOK
    <3>4. UNCHANGED ctxVars
      BY <1>2 DEF Update
    <3> QED BY <2>2, <3>1, <3>2, <3>3, <3>4 DEF TypeOK, ctxVars
  <2>7. LoopsInStep'
    <3> DEFINE oldTail == (W - byteIndex) % W
    <3>1. byteIndex' = byteIndex /\ left' = Len(chunk) /\ phase' = "open"
      BY <1>2 DEF Update, ctxVars
    <3>2. oldTail = IF byteIndex = 0 THEN 0 ELSE W - byteIndex
      BY <2>5
    <3>3. IF Len(chunk) < oldTail THEN pc' = "short" /\ todo' = Len(chunk)
          ELSE IF oldTail > 0 THEN pc' = "fill" /\ todo' = oldTail
          ELSE pc' = "words" /\ todo' = Len(chunk) \div W
      BY <1>2 DEF Update, Loop
    <3> HIDE DEF oldTail, W
    <3> QED BY <1>0, <2>1, <2>3, <3>1, <3>2, <3>3 DEF LoopsInStep, W
  <2> QED BY <2>6, <2>7
<1>3. CASE SaveByte
  <2>1. left > 0 /\ byteIndex \in 0 .. W - 1
    BY <1>0, <1>3 DEF SaveByte, LoopsInStep, TypeOK
  <2>2. saved' \in Lane
    <3>1. Buf(0) \in Byte
      BY <2>1, BufType
    <3>2. saved[byteIndex] \cup Buf(0) \in Byte
      BY <2>1, <3>1 DEF TypeOK, Lane, Byte
    <3> QED BY <1>3, <2>1, <3>2 DEF SaveByte, TypeOK, Lane
  <2>3. TypeOK'
    BY <1>0, <1>3, <2>1, <2>2 DEF SaveByte, TypeOK
  <2>4. LoopsInStep'
    BY <1>0, <1>3, <2>1 DEF SaveByte, LoopsInStep, TypeOK
  <2> QED BY <2>3, <2>4
<1>4. CASE FillEnd
  <2>1. saved \in Lane /\ Absorb(saved)
    BY <1>4 DEF FillEnd, TypeOK
  <2>2. blocks' \in Seq(State) /\ block' \in State
        /\ wordIndex' \in 0 .. Rate(capacityWords) - 1
    BY <2>1, AbsorbType
  <2>3. left \div W \in Nat
    BY <1>0, DivBounds DEF TypeOK
  <2>4. TypeOK'
    <3>1. byteIndex' \in 0 .. W
      BY <1>0, <1>4 DEF FillEnd
    <3>2. /\ phase' = phase /\ capacityWords' = capacityWords /\ left' = left
          /\ fed' = fed /\ saved' = ZeroLane
          /\ pc' = "words" /\ todo' = left \div W
      BY <1>4 DEF FillEnd, Loop
    <3> QED BY <2>2, <2>3, <3>1, <3>2, LaneXorFacts DEF TypeOK
  <2>5. LoopsInStep'
    BY <1>4 DEF FillEnd, Loop, LoopsInStep
  <2> QED BY <2>4, <2>5
<1>5. CASE DirectWord
  <2>1. left \in Nat /\ todo = left \div W /\ todo > 0
    BY <1>5 DEF DirectWord, LoopsInStep, TypeOK
  <2>2. left >= W /\ (left - W) \div W = todo - 1
    BY <1>0, <2>1, DivStep
  <2>3. [i \in 0 .. W - 1 |-> Buf(i)] \in Lane
    <3>1. \A i \in 0 .. W - 1 : Buf(i) \in Byte
      BY <1>0, <2>1, <2>2, BufType
    <3> QED BY <3>1 DEF Lane
  <2>4. blocks' \in Seq(State) /\ block' \in State
        /\ wordIndex' \in 0 .. Rate(capacityWords) - 1
    BY <1>5, <2>3, AbsorbType DEF DirectWord
  <2>5. TypeOK'
    <3>1. left' = left - W /\ todo' = todo - 1
      BY <1>5 DEF DirectWord
    <3>2. left' \in 0 .. Len(fed) /\ todo' \in Nat
      BY <1>0, <2>1, <2>2, <3>1 DEF TypeOK
    <3>3. /\ phase' = phase /\ capacityWords' = capacityWords /\ saved' = saved
          /\ byteIndex' = byteIndex /\ pc' = pc /\ fed' = fed
      BY <1>5 DEF DirectWord
    <3> QED BY <2>4, <3>2, <3>3 DEF TypeOK
  <2>6. LoopsInStep'
    BY <1>5, <2>1, <2>2 DEF DirectWord, LoopsInStep
  <2> QED BY <2>5, <2>6
<1>6. CASE WordsEnd
  <2>1. left < W
    BY <1>0, <1>6, DivBounds DEF WordsEnd, LoopsInStep, TypeOK
  <2>2. TypeOK'
    BY <1>6 DEF WordsEnd, Loop, TypeOK, ctxVars
  <2>3. LoopsInStep'
    BY <1>0, <1>6, <2>1 DEF WordsEnd, Loop, LoopsInStep, TypeOK, ctxVars
  <2> QED BY <2>2, <2>3
<1>7. CASE UpdateReturns
  <2>1. TypeOK'
    BY <1>7 DEF UpdateReturns, TypeOK, ctxVars
  <2>2. LoopsInStep'
    BY <1>0, <1>7 DEF UpdateReturns, LoopsInStep, TypeOK, ctxVars
  <2> QED BY <2>1, <2>2
<1>8. CASE Sha3Finalize
  <2>1. blocks' \in Seq(State) /\ block' \in State
    <3> DEFINE last   == Rate(capacityWords) - 1
               padded == [block EXCEPT ![wordIndex] =
                            LaneXor(@, LaneXor(saved, LaneAt(byteIndex, Suffix)))]
               closed == [padded EXCEPT ![last] =
                            LaneXor(@, LaneAt(W - 1, {7}))]
    <3>1. /\ wordIndex \in 0 .. SpongeWords - 1
          /\ last \in 0 .. SpongeWords - 1
      BY <1>0, RateBounds DEF TypeOK
    <3>2. LaneAt(byteIndex, Suffix) \in Lane /\ LaneAt(W - 1, {7}) \in Lane
      BY DEF LaneAt, Lane, Byte, Suffix
    <3>3. padded \in State
      <4>1. LaneXor(block[wordIndex], LaneXor(saved, LaneAt(byteIndex, Suffix))) \in Lane
        BY <3>1, <3>2, LaneXorFacts DEF TypeOK, State
      <4> QED BY <3>1, <4>1 DEF TypeOK, State
    <3>4. closed \in State
      <4> HIDE DEF padded
      <4>1. LaneXor(padded[last], LaneAt(W - 1, {7})) \in Lane
        BY <3>1, <3>2, <3>3, LaneXorFacts DEF State
      <4> QED BY <3>1, <3>3, <4>1 DEF State
    <3>5. blocks' = Append(blocks, closed) /\ block' = ZeroState
      BY <1>8 DEF Sha3Finalize
    <3>6. ZeroState \in State
      BY LaneXorFacts DEF ZeroState, State
    <3> HIDE DEF closed
    <3> QED BY <3>4, <3>5, <3>6 DEF TypeOK
  <2>2. TypeOK'
    BY <1>8, <2>1 DEF Sha3Finalize, TypeOK
  <2>3. LoopsInStep'
    BY <1>8 DEF Sha3Finalize, LoopsInStep
  <2> QED BY <2>2, <2>3
<1>9. CASE UNCHANGED vars
  BY <1>9 DEF vars, ctxVars, TypeOK, LoopsInStep
<1> QED
  BY <1>1, <1>2, <1>3, <1>4, <1>5, <1>6, <1>7, <1>8, <1>9 DEF Next

-----------------------------------------------------------------------------
\* The word WordAt(n, wordIndex) absorbed: the blocks follow the stream and the
\* cursor is one word further.
LEMMA AbsorbFollows ==
  ASSUME TypeOK, BlocksFollow, BlockFollows,
         WordAt(Len(blocks), wordIndex) \in Lane,
         Absorb(WordAt(Len(blocks), wordIndex)),
         fed' = fed, capacityWords' = capacityWords
  PROVE  /\ BlocksFollow' /\ BlockFollows'
         /\ Position(capacityWords, Len(blocks'), wordIndex', 0) =
              Position(capacityWords, Len(blocks), wordIndex, 0) + BytesPerWord
<1> DEFINE n == Len(blocks)
           word == WordAt(n, wordIndex)
           s == [block EXCEPT ![wordIndex] = LaneXor(@, word)]
           rate == Rate(capacityWords)
<1>0. /\ capacityWords \in Capacities /\ rate \in Nat \ {0} /\ rate < SpongeWords
      /\ SpongeWords \in Nat /\ n \in Nat
      /\ wordIndex \in 0 .. rate - 1 /\ wordIndex \in 0 .. SpongeWords - 1
      /\ blocks \in Seq(State)
  <2>1. capacityWords \in Capacities /\ blocks \in Seq(State)
        /\ wordIndex \in 0 .. rate - 1
    BY DEF TypeOK
  <2> QED BY <2>1, RateBounds
<1>1. \A j \in 0 .. SpongeWords - 1 :
        s[j] = IF j <= wordIndex THEN WordAt(n, j) ELSE ZeroLane
  <2>1. block[wordIndex] = ZeroLane
    BY <1>0 DEF BlockFollows
  <2>2. LaneXor(block[wordIndex], word) = word
    BY <2>1, LaneXorFacts
  <2>3. block \in State
    BY DEF TypeOK
  <2>4. s[wordIndex] = word
    BY <1>0, <2>2, <2>3 DEF State
  <2>5. \A j \in 0 .. SpongeWords - 1 : j # wordIndex => s[j] = block[j]
    BY <1>0, <2>3 DEF State
  <2> HIDE DEF s
  <2> QED BY <1>0, <2>4, <2>5 DEF BlockFollows
<1>2. \A b, j : WordAt(b, j)' = WordAt(b, j)
  BY DEF WordAt, At
<1>3. Position(capacityWords, n, wordIndex + 1, 0)
        = Position(capacityWords, n, wordIndex, 0) + BytesPerWord
  BY <1>0, PositionSteps
<1>4. CASE wordIndex + 1 = rate
  <2>1. blocks' = Append(blocks, s) /\ block' = ZeroState /\ wordIndex' = 0
    BY <1>4 DEF Absorb
  <2>2. Len(blocks') = n + 1 /\ blocks'[n + 1] = s
        /\ \A b \in 1 .. n : blocks'[b] = blocks[b]
    <3> HIDE DEF s
    <3> QED BY <1>0, <2>1
  <2>3. BlocksFollow'
    <3> SUFFICES ASSUME NEW b \in 1 .. n + 1, NEW j \in 0 .. SpongeWords - 1
                 PROVE  blocks'[b][j] = IF j < rate THEN WordAt(b - 1, j) ELSE ZeroLane
      BY <1>2, <2>2 DEF BlocksFollow
    <3>1. CASE b \in 1 .. n
      BY <2>2, <3>1 DEF BlocksFollow
    <3>2. CASE b = n + 1
      <4>1. b - 1 = n /\ (j < rate <=> j <= wordIndex)
        BY <1>0, <1>4, <3>2
      <4> HIDE DEF s
      <4> QED BY <1>1, <2>2, <3>2, <4>1
    <3> QED BY <1>0, <3>1, <3>2
  <2>4. BlockFollows'
    BY <2>1 DEF BlockFollows, ZeroState
  <2>5. Position(capacityWords, n + 1, 0, 0) = Position(capacityWords, n, rate, 0)
    BY <1>0, PositionSteps
  <2> QED BY <1>3, <1>4, <2>1, <2>2, <2>3, <2>4, <2>5
<1>5. CASE wordIndex + 1 # rate
  <2>1. blocks' = blocks /\ block' = s /\ wordIndex' = wordIndex + 1
    BY <1>5 DEF Absorb
  <2>2. BlocksFollow'
    BY <1>2, <2>1 DEF BlocksFollow
  <2>3. BlockFollows'
    <3> SUFFICES ASSUME NEW j \in 0 .. SpongeWords - 1
                 PROVE  block'[j] = IF j < wordIndex + 1 THEN WordAt(n, j) ELSE ZeroLane
      BY <1>2, <2>1 DEF BlockFollows
    <3>1. j < wordIndex + 1 <=> j <= wordIndex
      BY <1>0
    <3> HIDE DEF s
    <3> QED BY <1>1, <2>1, <3>1
  <2> QED BY <1>3, <2>1, <2>2, <2>3
<1> QED BY <1>4, <1>5

\* More input behind the bytes consumed does not move them.
LEMMA MoreInput ==
  ASSUME TypeOK, CursorFollows, BlocksFollow, BlockFollows, SavedFollows,
         byteIndex < BytesPerWord, left = 0,
         NEW chunk \in Seq(ByteValues), fed' = fed \o chunk,
         UNCHANGED ctxVars
  PROVE  BlocksFollow' /\ BlockFollows' /\ SavedFollows'
<1> DEFINE cap == capacityWords
           n == Len(blocks)
           W == BytesPerWord
<1>0. /\ cap \in Capacities /\ n \in Nat /\ W \in Nat \ {0}
      /\ Rate(cap) \in Nat \ {0} /\ Rate(cap) < SpongeWords /\ SpongeWords \in Nat
      /\ wordIndex \in 0 .. Rate(cap) - 1 /\ byteIndex \in 0 .. W - 1
  <2>1. cap \in Capacities /\ n \in Nat /\ wordIndex \in 0 .. Rate(cap) - 1
        /\ byteIndex \in 0 .. W
    BY DEF TypeOK
  <2> QED BY <2>1, RateBounds
<1>1. \A k \in Nat : k < Len(fed) => fed'[k + 1] = fed[k + 1]
  BY ConcatProperties DEF TypeOK
<1>2. Len(fed) = Position(cap, n, wordIndex, byteIndex)
  BY DEF CursorFollows, TypeOK
<1> DEFINE NewWord(b, j) == [i \in 0 .. W - 1 |-> fed'[Position(cap, b, j, i) + 1]]
<1>3. ASSUME NEW b \in Nat, NEW j \in 0 .. Rate(cap) - 1, NEW i \in 0 .. W - 1,
             b < n \/ (b = n /\ j < wordIndex)
                   \/ (b = n /\ j = wordIndex /\ i < byteIndex)
      PROVE  fed'[Position(cap, b, j, i) + 1] = At(b, j, i)
  <2>1. Position(cap, b, j, i) < Len(fed)
    BY <1>0, <1>2, <1>3, PositionOrder
  <2>2. Position(cap, b, j, i) \in Nat
    <3>1. j \in Nat /\ i \in Nat
      BY <1>0
    <3> QED BY <1>0, <3>1, PositionSteps
  <2> QED BY <1>1, <2>1, <2>2 DEF At
<1>4. ASSUME NEW b \in Nat, NEW j \in 0 .. Rate(cap) - 1,
             b < n \/ (b = n /\ j < wordIndex)
      PROVE  NewWord(b, j) = WordAt(b, j)
  BY <1>3, <1>4 DEF WordAt
<1>5. BlocksFollow'
  <2> SUFFICES ASSUME NEW b \in 1 .. n, NEW j \in 0 .. SpongeWords - 1
               PROVE  blocks[b][j] = IF j < Rate(cap) THEN NewWord(b - 1, j) ELSE ZeroLane
    BY DEF BlocksFollow, WordAt, At, ctxVars
  <2>1. b - 1 \in Nat /\ b - 1 < n
    BY <1>0
  <2>2. ASSUME j < Rate(cap) PROVE NewWord(b - 1, j) = WordAt(b - 1, j)
    <3>1. j \in 0 .. Rate(cap) - 1
      BY <1>0, <2>2
    <3> QED BY <1>4, <2>1, <3>1
  <2> QED BY <2>2 DEF BlocksFollow
<1>6. BlockFollows'
  <2> SUFFICES ASSUME NEW j \in 0 .. SpongeWords - 1
               PROVE  block[j] = IF j < wordIndex THEN NewWord(n, j) ELSE ZeroLane
    BY DEF BlockFollows, WordAt, At, ctxVars
  <2>1. ASSUME j < wordIndex PROVE NewWord(n, j) = WordAt(n, j)
    <3>1. j \in 0 .. Rate(cap) - 1
      BY <1>0, <2>1
    <3> QED BY <1>0, <1>4, <2>1, <3>1
  <2> QED BY <2>1 DEF BlockFollows
<1>7. SavedFollows'
  <2>1. ASSUME NEW i \in 0 .. W - 1, i < byteIndex
        PROVE  NewWord(n, wordIndex)[i] = At(n, wordIndex, i)
    BY <1>0, <1>3, <2>1
  <2>2. saved = [i \in 0 .. W - 1 |-> IF i < byteIndex THEN At(n, wordIndex, i) ELSE {}]
    BY DEF SavedFollows
  <2>3. saved = [i \in 0 .. W - 1 |-> IF i < byteIndex THEN NewWord(n, wordIndex)[i] ELSE {}]
    BY <2>1, <2>2
  <2> QED BY <2>3 DEF SavedFollows, At, ctxVars
<1> QED BY <1>5, <1>6, <1>7

\* Every step keeps the context a function of the bytes consumed.
LEMMA FollowStep ==
  TypeOK /\ LoopsInStep /\ ContextFollowsStream /\ [Next]_vars => ContextFollowsStream'
<1> SUFFICES ASSUME TypeOK, LoopsInStep, ContextFollowsStream, [Next]_vars,
                    phase' = "open"
             PROVE  CursorFollows' /\ BlocksFollow' /\ BlockFollows' /\ SavedFollows'
  BY DEF ContextFollowsStream
<1> DEFINE cap == capacityWords
           n == Len(blocks)
           W == BytesPerWord
<1>0. /\ cap \in Capacities /\ n \in Nat /\ W \in Nat \ {0}
      /\ wordIndex \in Nat /\ byteIndex \in 0 .. W
      /\ left \in 0 .. Len(fed) /\ Len(fed) \in Nat /\ todo \in Nat
      /\ Rate(cap) \in Nat
  <2>1. /\ cap \in Capacities /\ n \in Nat /\ wordIndex \in 0 .. Rate(cap) - 1
        /\ byteIndex \in 0 .. W
        /\ left \in 0 .. Len(fed) /\ Len(fed) \in Nat /\ todo \in Nat
    BY DEF TypeOK
  <2> QED BY <2>1, RateBounds
<1>1. CASE Sha3Init
  <2>1. /\ fed' = <<>> /\ left' = 0 /\ blocks' = <<>> /\ wordIndex' = 0 /\ byteIndex' = 0
        /\ saved' = ZeroLane /\ block' = ZeroState /\ capacityWords' \in Capacities
    BY <1>1 DEF Sha3Init, LoopsInStep
  <2>2. Position(capacityWords', 0, 0, 0) = 0
    BY <2>1, PositionSteps
  <2>3. CursorFollows'
    BY <2>1, <2>2 DEF CursorFollows
  <2>4. BlocksFollow' /\ BlockFollows'
    BY <2>1 DEF BlocksFollow, BlockFollows, ZeroState
  <2>5. SavedFollows'
    BY <1>0, <2>1 DEF SavedFollows, ZeroLane
  <2> QED BY <2>3, <2>4, <2>5
<1> USE DEF ContextFollowsStream
<1>2. ASSUME NEW chunk \in Chunks, Update(chunk)
      PROVE  CursorFollows' /\ BlocksFollow' /\ BlockFollows' /\ SavedFollows'
  <2>1. chunk \in Seq(ByteValues) /\ Len(chunk) \in Nat
    BY ChunkType
  <2>2. /\ phase = "open" /\ byteIndex < W /\ left = 0
        /\ fed' = fed \o chunk /\ left' = Len(chunk)
    BY <1>2 DEF Update, LoopsInStep
  <2>3. UNCHANGED ctxVars
    BY <1>2 DEF Update
  <2>4. BlocksFollow' /\ BlockFollows' /\ SavedFollows'
    BY <2>1, <2>2, <2>3, MoreInput
  <2>5. Len(fed') = Len(fed) + Len(chunk)
    BY <2>1, <2>2, ConcatProperties DEF TypeOK
  <2>6. CursorFollows'
    BY <1>0, <2>1, <2>2, <2>3, <2>5 DEF CursorFollows, ctxVars
  <2> QED BY <2>4, <2>6
<1>3. CASE SaveByte
  <2>1. /\ phase = "open" /\ byteIndex < W /\ left > 0
        /\ saved' = [saved EXCEPT ![byteIndex] = @ \cup Buf(0)]
        /\ byteIndex' = byteIndex + 1 /\ left' = left - 1
        /\ UNCHANGED <<capacityWords, wordIndex, blocks, block, fed>>
    BY <1>0, <1>3 DEF SaveByte, LoopsInStep
  <2>2. /\ Position(cap, n, wordIndex, byteIndex + 1)
              = Position(cap, n, wordIndex, byteIndex) + 1
        /\ Position(cap, n, wordIndex, byteIndex) \in Nat
    <3>1. byteIndex \in Nat /\ byteIndex + 1 \in Nat
      BY <1>0
    <3>2. Position(cap, n, wordIndex, byteIndex)
                = Position(cap, n, wordIndex, 0) + byteIndex
      BY <1>0, <3>1, PositionByte
    <3>4. Position(cap, n, wordIndex, 0) \in Nat
      BY <1>0, PositionNat
    <3>3. Position(cap, n, wordIndex, byteIndex + 1)
                = Position(cap, n, wordIndex, 0) + (byteIndex + 1)
      BY <1>0, <3>1, PositionByte
    <3> QED BY <3>1, <3>2, <3>3, <3>4
  <2>3. CursorFollows'
    BY <1>0, <2>1, <2>2 DEF CursorFollows
  <2>4. BlocksFollow' /\ BlockFollows'
    BY <2>1 DEF BlocksFollow, BlockFollows, WordAt, At
  <2>5. SavedFollows'
    <3>1. Buf(0) = At(n, wordIndex, byteIndex)
      BY <1>0, <2>1, <2>2 DEF Buf, At, CursorFollows
    <3>2. saved = [i \in 0 .. W - 1 |-> IF i < byteIndex THEN At(n, wordIndex, i) ELSE {}]
      BY <2>1 DEF SavedFollows
    <3>3. saved' = [i \in 0 .. W - 1 |->
                      IF i < byteIndex + 1 THEN At(n, wordIndex, i) ELSE {}]
      <4>1. byteIndex \in 0 .. W - 1
        BY <1>0, <2>1
      <4>2. saved[byteIndex] = {}
        BY <3>2, <4>1
      <4>3. saved' = [i \in 0 .. W - 1 |->
                        IF i = byteIndex THEN At(n, wordIndex, byteIndex) ELSE saved[i]]
        BY <2>1, <3>1, <3>2, <4>1, <4>2
      <4>4. ASSUME NEW i \in 0 .. W - 1
            PROVE  (IF i = byteIndex THEN At(n, wordIndex, byteIndex) ELSE saved[i])
                     = IF i < byteIndex + 1 THEN At(n, wordIndex, i) ELSE {}
        <5>1. saved[i] = IF i < byteIndex THEN At(n, wordIndex, i) ELSE {}
          BY <3>2
        <5>2. i < byteIndex + 1 <=> (i = byteIndex \/ i < byteIndex)
          BY <1>0
        <5>3. ~(byteIndex < byteIndex)
          BY <1>0
        <5> QED BY <5>1, <5>2, <5>3
      <4> QED BY <4>3, <4>4
    <3> QED BY <2>1, <3>3 DEF SavedFollows, At
  <2> QED BY <2>3, <2>4, <2>5
<1>4. CASE FillEnd
  <2>1. /\ phase = "open" /\ byteIndex = W
        /\ Absorb(saved) /\ saved' = ZeroLane /\ byteIndex' = 0
        /\ UNCHANGED <<capacityWords, left, fed>>
    BY <1>0, <1>4 DEF FillEnd, LoopsInStep
  <2>2. saved = WordAt(n, wordIndex)
    BY <1>0, <2>1 DEF SavedFollows, WordAt
  <2>3. WordAt(n, wordIndex) \in Lane /\ Absorb(WordAt(n, wordIndex))
    BY <2>1, <2>2 DEF TypeOK
  <2>4. /\ BlocksFollow' /\ BlockFollows'
        /\ Position(cap, Len(blocks'), wordIndex', 0) = Position(cap, n, wordIndex, 0) + W
    BY <2>1, <2>3, AbsorbFollows
  <2>5. Position(cap, n, wordIndex, W) = Position(cap, n, wordIndex, 0) + W
    BY <1>0, PositionSteps
  <2>6. CursorFollows'
    BY <2>1, <2>4, <2>5 DEF CursorFollows
  <2>7. SavedFollows'
    BY <1>0, <2>1 DEF SavedFollows, ZeroLane
  <2> QED BY <2>4, <2>6, <2>7
<1>5. CASE DirectWord
  <2>1. /\ phase = "open" /\ byteIndex = 0 /\ left \div W > 0
        /\ Absorb([i \in 0 .. W - 1 |-> Buf(i)])
        /\ left' = left - W
        /\ UNCHANGED <<capacityWords, saved, byteIndex, fed>>
    BY <1>0, <1>5 DEF DirectWord, LoopsInStep
  <2>2. left >= W
    <3>1. left \in Nat
      BY <1>0
    <3> QED BY <1>0, <2>1, <3>1, DivStep
  <2>3. \A i \in 0 .. W - 1 : Buf(i) = At(n, wordIndex, i)
    <3> SUFFICES ASSUME NEW i \in 0 .. W - 1 PROVE Buf(i) = At(n, wordIndex, i)
      OBVIOUS
    <3>1. i \in Nat
      BY <1>0
    <3>2. Position(cap, n, wordIndex, i) = Position(cap, n, wordIndex, 0) + i
      BY <1>0, <3>1, PositionByte
    <3>4. Position(cap, n, wordIndex, 0) \in Nat
      BY <1>0, PositionNat
    <3>3. Len(fed) - left = Position(cap, n, wordIndex, 0)
      BY <2>1 DEF CursorFollows
    <3> QED BY <3>2, <3>3, <3>4 DEF Buf, At
  <2>4. [i \in 0 .. W - 1 |-> Buf(i)] = WordAt(n, wordIndex)
    BY <2>3 DEF WordAt
  <2>5. WordAt(n, wordIndex) \in Lane
    <3>1. \A i \in 0 .. W - 1 : Buf(i) \in Byte
      <4> SUFFICES ASSUME NEW i \in 0 .. W - 1 PROVE Buf(i) \in Byte
        OBVIOUS
      <4>1. i \in Nat /\ i < left
        BY <1>0, <2>2
      <4> QED BY <4>1, BufType
    <3> QED BY <2>4, <3>1 DEF Lane
  <2>6. /\ BlocksFollow' /\ BlockFollows'
        /\ Position(cap, Len(blocks'), wordIndex', 0) = Position(cap, n, wordIndex, 0) + W
    BY <2>1, <2>4, <2>5, AbsorbFollows
  <2>7. CursorFollows'
    <3>1. Position(cap, n, wordIndex, 0) \in Nat
      BY <1>0, PositionSteps
    <3> QED BY <1>0, <2>1, <2>2, <2>6, <3>1 DEF CursorFollows
  <2>8. SavedFollows'
    BY <1>0, <2>1 DEF SavedFollows
  <2> QED BY <2>6, <2>7, <2>8
<1> USE DEF CursorFollows, BlocksFollow, BlockFollows, SavedFollows, WordAt, At
<1>6. CASE WordsEnd
  BY <1>6 DEF WordsEnd, ctxVars
<1>7. CASE UpdateReturns
  BY <1>7 DEF UpdateReturns, ctxVars
<1>8. CASE Sha3Finalize
  BY <1>8 DEF Sha3Finalize
<1>9. CASE UNCHANGED vars
  BY <1>9 DEF vars, ctxVars
<1> QED
  BY <1>1, <1>2, <1>3, <1>4, <1>5, <1>6, <1>7, <1>8, <1>9 DEF Next

-----------------------------------------------------------------------------
\* Where a message that ends at byte x of word w of block n is padded: it has
\* n + 1 blocks, and the last bit goes into the last byte of the last word.
LEMMA PaddingPlace ==
  ASSUME NEW cap \in Capacities, NEW m, Len(m) \in Nat, NEW n \in Nat,
         NEW w \in 0 .. Rate(cap) - 1, NEW x \in 0 .. BytesPerWord - 1,
         Len(m) = Position(cap, n, w, x)
  PROVE  /\ BlockCount(cap, m) = n + 1
         /\ Position(cap, n, Rate(cap) - 1, BytesPerWord - 1)
              = BlockCount(cap, m) * BlockBytes(cap) - 1
         /\ Len(m) < BlockCount(cap, m) * BlockBytes(cap)
<1> DEFINE R == BlockBytes(cap)
           W == BytesPerWord
           rate == Rate(cap)
<1>0. /\ R \in Nat \ {0} /\ W \in Nat \ {0} /\ rate \in Nat \ {0}
      /\ n + 1 \in Nat /\ rate - 1 \in Nat /\ W - 1 \in Nat
      /\ w \in Nat /\ x \in Nat
  BY RateBounds
<1>1. \A b \in Nat : Position(cap, b, 0, 0) = b * R
  <2> SUFFICES ASSUME NEW b \in Nat PROVE Position(cap, b, 0, 0) = b * R
    OBVIOUS
  <2>1. b * R \in Nat /\ 0 * W = 0
    BY <1>0, MulNext
  <2> QED BY <2>1 DEF Position
<1>2. Len(m) < (n + 1) * R
  <2>1. 0 \in 0 .. rate - 1
    BY <1>0
  <2>2. Position(cap, n, w, x) < Position(cap, n + 1, 0, 0)
    BY <1>0, <2>1, PositionOrder
  <2> QED BY <1>0, <1>1, <2>2
<1>3. n * R <= Len(m)
  <2>1. 0 \in 0 .. rate - 1 /\ 0 \in 0 .. W - 1
    BY <1>0
  <2>2. CASE w = 0 /\ x = 0
    <3>1. n * R \in Nat
      BY <1>0, MulNext
    <3> QED BY <1>1, <2>2, <3>1
  <2>3. CASE w # 0 \/ x # 0
    <3>1. 0 < w \/ (0 = w /\ 0 < x)
      BY <1>0, <2>3
    <3>2. Position(cap, n, 0, 0) < Position(cap, n, w, x)
      BY <1>0, <2>1, <3>1, PositionOrder
    <3>3. n * R \in Nat
      BY <1>0, MulNext
    <3> QED BY <1>1, <3>2, <3>3
  <2> QED BY <2>2, <2>3
<1>4. (n + 1) * R = n * R + R
  BY <1>0, MulNext
<1>5. Len(m) \div R = n
  <2>1. Len(m) < n * R + R
    BY <1>2, <1>4
  <2> QED BY <1>0, <1>3, <2>1, DivUnique
<1>6. BlockCount(cap, m) = n + 1
  BY <1>5 DEF BlockCount
<1>7. Position(cap, n, rate - 1, W - 1) + 1 = (n + 1) * R
  <2>1. Position(cap, n, rate - 1, W - 1) = Position(cap, n, rate - 1, 0) + (W - 1)
    BY <1>0, PositionByte
  <2>2. Position(cap, n, (rate - 1) + 1, 0) = Position(cap, n, rate - 1, 0) + W
    BY <1>0, PositionSteps
  <2>3. Position(cap, n + 1, 0, 0) = Position(cap, n, rate, 0)
    BY PositionSteps, <1>0
  <2>4. Position(cap, n, rate - 1, 0) \in Nat
    BY <1>0, PositionNat
  <2>5. (rate - 1) + 1 = rate
    BY <1>0
  <2>6. Position(cap, n + 1, 0, 0) = (n + 1) * R
    BY <1>0, <1>1
  <2> HIDE DEF R, W, rate
  <2> QED BY <1>0, <2>1, <2>2, <2>3, <2>4, <2>5, <2>6
<1>8. Position(cap, n, rate - 1, W - 1) \in Nat
  BY <1>0, PositionNat
<1> HIDE DEF R, W, rate
<1>9. Position(cap, n, rate - 1, W - 1) = (n + 1) * R - 1
  <2>1. (n + 1) * R \in Nat
    BY <1>0, MulNext
  <2> QED BY <1>7, <1>8, <2>1
<1> QED
  BY <1>2, <1>6, <1>9 DEF R, W, rate

LEMMA SeqIsFunction ==
  ASSUME NEW S, NEW q \in Seq(S)
  PROVE  q = [b \in 1 .. Len(q) |-> q[b]]
OBVIOUS

\* sha3_Finalize absorbs exactly the padded message of FIPS 202.
LEMMA FinalDigest ==
  ASSUME TypeOK, LoopsInStep, ContextFollowsStream, Sha3Finalize
  PROVE  out' = Sha3(capacityWords, fed)
<1> DEFINE cap == capacityWords
           n == Len(blocks)
           w == wordIndex
           x == byteIndex
           W == BytesPerWord
           rate == Rate(cap)
           L == Len(fed)
           P(b, j, i) == Position(cap, b, j, i)
           padded == [block EXCEPT ![w] =
                        LaneXor(@, LaneXor(saved, LaneAt(x, Suffix)))]
           closed == [padded EXCEPT ![rate - 1] = LaneXor(@, LaneAt(W - 1, {7}))]
           last == BlockCount(cap, fed) * BlockBytes(cap) - 1
           Data(k) == IF k < L THEN fed[k + 1] ELSE IF k = L THEN Suffix ELSE {}
<1>0. /\ cap \in Capacities /\ n \in Nat /\ W \in Nat \ {0} /\ SpongeWords \in Nat
      /\ rate \in Nat \ {0} /\ rate < SpongeWords
      /\ w \in 0 .. rate - 1 /\ x \in 0 .. W - 1 /\ L \in Nat
      /\ block \in State /\ saved \in Lane /\ blocks \in Seq(State)
  <2>1. cap \in Capacities /\ n \in Nat /\ w \in 0 .. rate - 1 /\ x \in 0 .. W /\ L \in Nat
        /\ block \in State /\ saved \in Lane /\ blocks \in Seq(State)
    BY DEF TypeOK
  <2>2. x < W
    BY DEF Sha3Finalize, LoopsInStep
  <2> QED BY <2>1, <2>2, RateBounds
<1>1. CursorFollows /\ BlocksFollow /\ BlockFollows /\ SavedFollows /\ left = 0
  BY DEF ContextFollowsStream, Sha3Finalize, LoopsInStep
<1>2. L = P(n, w, x)
  BY <1>0, <1>1 DEF CursorFollows
<1>3. /\ BlockCount(cap, fed) = n + 1
      /\ P(n, rate - 1, W - 1) = last
      /\ L <= last /\ last \in Nat
  <2>1. /\ BlockCount(cap, fed) = n + 1
        /\ P(n, rate - 1, W - 1) = last
        /\ L < BlockCount(cap, fed) * BlockBytes(cap)
    BY <1>0, <1>2, PaddingPlace
  <2>2. last + 1 = BlockCount(cap, fed) * BlockBytes(cap) /\ last \in Nat
    <3>1. (n + 1) * BlockBytes(cap) \in Nat
      BY <1>0, RateBounds, MulNext
    <3>2. rate - 1 \in Nat /\ W - 1 \in Nat
      BY <1>0
    <3>3. P(n, rate - 1, W - 1) \in Nat
      BY <1>0, <3>2, PositionNat
    <3> QED BY <2>1, <3>1, <3>3
  <2>3. L <= last
    BY <1>0, <2>1, <2>2
  <2> QED BY <2>1, <2>2, <2>3
<1>4. \A k : PaddedByte(cap, fed, k) = Data(k) \cup (IF k = last THEN {7} ELSE {})
  BY DEF PaddedByte
<1>5. \A b \in Nat, j \in 0 .. rate - 1, i \in 0 .. W - 1 : P(b, j, i) \in Nat
  <2> SUFFICES ASSUME NEW b \in Nat, NEW j \in 0 .. rate - 1, NEW i \in 0 .. W - 1
               PROVE  P(b, j, i) \in Nat
    OBVIOUS
  <2>1. j \in Nat /\ i \in Nat
    BY <1>0
  <2> QED BY <1>0, <2>1, PositionNat
<1>6. ASSUME NEW b \in Nat, NEW j \in 0 .. rate - 1, NEW i \in 0 .. W - 1, b < n
      PROVE  PaddedByte(cap, fed, P(b, j, i)) = At(b, j, i)
  <2>1. P(b, j, i) < L
    BY <1>0, <1>2, <1>6, PositionOrder
  <2>2. P(b, j, i) # last
    BY <1>0, <1>3, <1>5, <2>1
  <2> QED BY <1>4, <2>1, <2>2 DEF At
\* The last block before the final bit: the data, the suffix, zeros.
<1>7. ASSUME NEW j \in 0 .. rate - 1, NEW i \in 0 .. W - 1
      PROVE  padded[j][i] = Data(P(n, j, i))
  <2>0. P(n, j, i) \in Nat /\ j \in 0 .. SpongeWords - 1 /\ w \in 0 .. SpongeWords - 1
    <3>1. P(n, j, i) \in Nat
      BY <1>0, <1>5
    <3>2. j \in 0 .. SpongeWords - 1 /\ w \in 0 .. SpongeWords - 1
      BY <1>0
    <3> QED BY <3>1, <3>2
  <2>1. CASE j < w
    <3>1. P(n, j, i) < L
      BY <1>0, <1>2, <2>1, PositionOrder
    <3>2. padded[j] = block[j]
      BY <1>0, <2>0, <2>1 DEF State
    <3>3. block[j] = WordAt(n, j)
      BY <1>1, <2>0, <2>1 DEF BlockFollows
    <3>4. Data(P(n, j, i)) = At(n, j, i)
      BY <3>1 DEF At
    <3> HIDE DEF padded, Data
    <3> QED BY <3>2, <3>3, <3>4 DEF WordAt
  <2>2. CASE j = w
    <3>1. padded[j] = LaneXor(block[w], LaneXor(saved, LaneAt(x, Suffix)))
      BY <1>0, <2>0, <2>2 DEF State
    <3>2. block[w] = ZeroLane
      BY <1>0, <1>1, <2>0 DEF BlockFollows
    <3>3. LaneXor(saved, LaneAt(x, Suffix)) \in Lane
      <4>1. LaneAt(x, Suffix) \in Lane
        BY DEF LaneAt, Lane, Byte, Suffix
      <4> QED BY <1>0, <4>1, LaneXorFacts
    <3>4. padded[j] = LaneXor(saved, LaneAt(x, Suffix))
      BY <3>1, <3>2, <3>3, LaneXorFacts
    <3>5. padded[j][i] = Xor(saved[i], IF i = x THEN Suffix ELSE {})
      BY <3>4 DEF LaneXor, LaneAt
    <3>6. saved[i] = IF i < x THEN At(n, w, i) ELSE {}
      BY <1>1 DEF SavedFollows
    <3>7. CASE i < x
      <4>1. P(n, j, i) < L
        BY <1>0, <1>2, <2>2, <3>7, PositionOrder
      <4>2. i # x
        BY <1>0, <3>7
      <4> QED BY <2>2, <3>5, <3>6, <3>7, <4>1, <4>2 DEF Xor, At
    <3>8. CASE i = x
      <4>1. P(n, j, i) = L
        BY <1>2, <2>2, <3>8
      <4>2. ~(i < x) /\ ~(L < L)
        BY <1>0, <3>8
      <4> QED BY <3>5, <3>6, <3>8, <4>1, <4>2 DEF Xor
    <3>9. CASE x < i
      <4>0. i \in Nat
        BY <1>0
      <4>1. L < P(n, j, i)
        BY <1>0, <1>2, <2>2, <3>9, <4>0, PositionOrder
      <4>2. ~(i < x) /\ i # x /\ ~(P(n, j, i) < L) /\ P(n, j, i) # L
        BY <1>0, <2>0, <3>9, <4>1
      <4> QED BY <3>5, <3>6, <4>2 DEF Xor
    <3> QED BY <1>0, <3>7, <3>8, <3>9
  <2>3. CASE w < j
    <3>0. i \in Nat
      BY <1>0
    <3>1. L < P(n, j, i)
      BY <1>0, <1>2, <2>3, <3>0, PositionOrder
    <3>2. ~(P(n, j, i) < L) /\ P(n, j, i) # L
      BY <1>0, <2>0, <3>1
    <3>3. padded[j] = block[j]
      BY <1>0, <2>0, <2>3 DEF State
    <3>4. block[j] = ZeroLane
      BY <1>0, <1>1, <2>0, <2>3 DEF BlockFollows
    <3> QED BY <3>2, <3>3, <3>4 DEF ZeroLane
  <2> QED BY <1>0, <2>1, <2>2, <2>3
<1>8. padded \in State /\ \A j \in rate .. SpongeWords - 1 : padded[j] = ZeroLane
  <2>1. w \in 0 .. SpongeWords - 1
    BY <1>0
  <2>2. LaneAt(x, Suffix) \in Lane
    BY DEF LaneAt, Lane, Byte, Suffix
  <2>3. LaneXor(block[w], LaneXor(saved, LaneAt(x, Suffix))) \in Lane
    BY <1>0, <2>1, <2>2, LaneXorFacts DEF State
  <2>4. padded \in State
    BY <1>0, <2>1, <2>3 DEF State
  <2>5. ASSUME NEW j \in rate .. SpongeWords - 1 PROVE padded[j] = ZeroLane
    <3>1. j \in 0 .. SpongeWords - 1 /\ j # w /\ ~(j < w)
      BY <1>0
    <3>2. padded[j] = block[j]
      BY <1>0, <3>1 DEF State
    <3> QED BY <1>1, <3>1, <3>2 DEF BlockFollows
  <2> QED BY <2>4, <2>5
<1>9. closed = PaddedBlock(cap, fed, n)
  <2> HIDE DEF padded
  <2>0. rate - 1 \in 0 .. SpongeWords - 1 /\ rate - 1 \in 0 .. rate - 1
        /\ W - 1 \in 0 .. W - 1
    BY <1>0
  <2>1. DOMAIN closed = 0 .. SpongeWords - 1
    BY <1>8 DEF State
  <2>2. \A j \in 0 .. SpongeWords - 1 :
          closed[j] = IF j = rate - 1 THEN LaneXor(padded[j], LaneAt(W - 1, {7}))
                                      ELSE padded[j]
    BY <1>8, <2>0 DEF State
  <2> HIDE DEF closed
  <2>3. ASSUME NEW j \in 0 .. rate - 1
        PROVE  closed[j] = [i \in 0 .. W - 1 |-> PaddedByte(cap, fed, P(n, j, i))]
    <3>0. j \in 0 .. SpongeWords - 1
      BY <1>0
    <3>1. CASE j # rate - 1
      <4>1. closed[j] = padded[j] /\ padded[j] \in Lane
        BY <1>8, <2>2, <3>0, <3>1 DEF State
      <4>2. ASSUME NEW i \in 0 .. W - 1
            PROVE  padded[j][i] = PaddedByte(cap, fed, P(n, j, i))
        <5>1. j < rate - 1
          BY <1>0, <3>1
        <5>2. W - 1 \in Nat
          BY <1>0
        <5>3. P(n, j, i) < P(n, rate - 1, W - 1)
          BY <1>0, <2>0, <5>1, <5>2, PositionOrder
        <5>4. P(n, j, i) # last
          <6>1. P(n, j, i) \in Nat
            BY <1>0, <1>5
          <6> QED BY <1>3, <5>3, <6>1
        <5> QED BY <1>4, <1>7, <5>4
      <4> QED BY <4>1, <4>2 DEF Lane
    <3>2. CASE j = rate - 1
      <4>1. closed[j] = LaneXor(padded[j], LaneAt(W - 1, {7}))
        BY <2>2, <3>0, <3>2
      <4>2. ASSUME NEW i \in 0 .. W - 1
            PROVE  Xor(padded[j][i], IF i = W - 1 THEN {7} ELSE {})
                     = PaddedByte(cap, fed, P(n, j, i))
        <5>1. padded[j][i] = Data(P(n, j, i))
          BY <1>7
        <5>2. CASE i = W - 1
          <6>1. P(n, j, i) = last
            BY <1>3, <3>2, <5>2
          <6>2. ~(last < L)
            BY <1>0, <1>3
          <6>3. padded[j][i] \in {Suffix, {}}
            BY <5>1, <6>1, <6>2
          <6>4. Xor(padded[j][i], {7}) = padded[j][i] \cup {7}
            BY <6>3 DEF Xor, Suffix
          <6> QED BY <1>4, <5>1, <5>2, <6>1, <6>4
        <5>3. CASE i # W - 1
          <6>1. i < W - 1 /\ W - 1 \in Nat
            BY <1>0, <5>3
          <6>2. P(n, j, i) < P(n, rate - 1, W - 1)
            BY <1>0, <2>0, <3>2, <6>1, PositionOrder
          <6>3. P(n, j, i) # last
            <7>1. P(n, j, i) \in Nat
              BY <1>0, <1>5
            <7> QED BY <1>3, <6>2, <7>1
          <6>4. PaddedByte(cap, fed, P(n, j, i)) = Data(P(n, j, i))
            BY <1>4, <6>3
          <6> HIDE DEF Data
          <6> QED BY <5>1, <5>3, <6>4 DEF Xor
        <5> QED BY <5>2, <5>3
      <4> QED BY <4>1, <4>2 DEF LaneXor, LaneAt
    <3> QED BY <3>1, <3>2
  <2>4. ASSUME NEW j \in 0 .. SpongeWords - 1, ~(j < rate) PROVE closed[j] = ZeroLane
    <3>1. j # rate - 1 /\ j \in rate .. SpongeWords - 1
      BY <1>0, <2>4
    <3> QED BY <1>8, <2>2, <3>1
  <2>5. closed = [j \in 0 .. SpongeWords - 1 |-> closed[j]]
    BY <1>8, <2>1 DEF closed
  <2>6. ASSUME NEW j \in 0 .. SpongeWords - 1
        PROVE  closed[j] = PaddedBlock(cap, fed, n)[j]
    <3>1. CASE j < rate
      <4>1. j \in 0 .. rate - 1
        BY <1>0, <3>1
      <4> QED BY <2>3, <3>1, <4>1 DEF PaddedBlock
    <3>2. CASE ~(j < rate)
      BY <2>4, <3>2 DEF PaddedBlock
    <3> QED BY <3>1, <3>2
  <2> QED BY <2>5, <2>6 DEF PaddedBlock
<1>10. ASSUME NEW b \in 1 .. n PROVE blocks[b] = PaddedBlock(cap, fed, b - 1)
  <2>0. b - 1 \in Nat /\ b - 1 < n /\ blocks[b] \in State
    BY <1>0
  <2>1. ASSUME NEW j \in 0 .. SpongeWords - 1
        PROVE  blocks[b][j] = PaddedBlock(cap, fed, b - 1)[j]
    <3>1. blocks[b][j] = IF j < rate THEN WordAt(b - 1, j) ELSE ZeroLane
      BY <1>1 DEF BlocksFollow
    <3>2. CASE j < rate
      <4>1. j \in 0 .. rate - 1
        BY <1>0, <3>2
      <4>2. \A i \in 0 .. W - 1 : PaddedByte(cap, fed, P(b - 1, j, i)) = At(b - 1, j, i)
        BY <1>6, <2>0, <4>1
      <4> QED BY <3>1, <3>2, <4>2 DEF PaddedBlock, WordAt
    <3>3. CASE ~(j < rate)
      BY <3>1, <3>3 DEF PaddedBlock
    <3> QED BY <3>2, <3>3
  <2> QED BY <2>0, <2>1 DEF PaddedBlock, State
<1>11. blocks' = [b \in 1 .. n + 1 |-> PaddedBlock(cap, fed, b - 1)]
  <2>1. blocks' = Append(blocks, closed)
    BY DEF Sha3Finalize
  <2> HIDE DEF closed
  <2>2. /\ Len(blocks') = n + 1 /\ blocks'[n + 1] = closed
        /\ \A b \in 1 .. n : blocks'[b] = blocks[b]
        /\ blocks' = [b \in 1 .. n + 1 |-> blocks'[b]]
    <3>1. blocks \in Seq(State) /\ Len(blocks) = n
      BY <1>0
    <3>2. DOMAIN Append(blocks, closed) = 1 .. n + 1
      BY <3>1
    <3>3. \A b \in 1 .. n : Append(blocks, closed)[b] = blocks[b]
      BY <3>1
    <3>4. Append(blocks, closed)[n + 1] = closed
      BY <3>1
    <3>5. Append(blocks, closed) = [b \in 1 .. n + 1 |-> Append(blocks, closed)[b]]
      <4> DEFINE S == State \cup {closed}
      <4>1. blocks \in Seq(S) /\ closed \in S
        BY <3>1
      <4>2. Append(blocks, closed) \in Seq(S) /\ Len(Append(blocks, closed)) = n + 1
        BY <3>1, <4>1, AppendProperties
      <4> DEFINE q == Append(blocks, closed)
      <4>3. q \in Seq(S) /\ Len(q) = n + 1
        BY <4>2
      <4> HIDE DEF S, q
      <4>4. q = [b \in 1 .. n + 1 |-> q[b]]
        BY <4>3, SeqIsFunction
      <4> QED BY <4>4 DEF q
    <3>6. Len(Append(blocks, closed)) = n + 1
      BY <3>1
    <3> DEFINE more == Append(blocks, closed)
    <3>7. /\ Len(more) = n + 1 /\ more[n + 1] = closed
          /\ \A b \in 1 .. n : more[b] = blocks[b]
          /\ more = [b \in 1 .. n + 1 |-> more[b]]
          /\ blocks' = more
      BY <2>1, <3>3, <3>4, <3>5, <3>6
    <3> HIDE DEF more
    <3> QED BY <3>7
  <2>3. ASSUME NEW b \in 1 .. n + 1 PROVE blocks'[b] = PaddedBlock(cap, fed, b - 1)
    <3>1. CASE b \in 1 .. n
      BY <1>10, <2>2, <3>1
    <3>2. CASE b = n + 1
      <4>1. b - 1 = n
        BY <1>0, <3>2
      <4> QED BY <1>9, <2>2, <3>2, <4>1
    <3> QED BY <1>0, <3>1, <3>2
  <2> QED BY <2>2, <2>3
<1>12. out' = Squeeze(cap, blocks')
  BY DEF Sha3Finalize
<1> QED
  BY <1>3, <1>11, <1>12 DEF Sha3

-----------------------------------------------------------------------------
\* Every byte of n blocks has a block, a word and a byte of its word.
LEMMA PositionOnto ==
  ASSUME NEW cap \in Capacities, NEW n \in Nat, NEW k \in Nat, k < n * BlockBytes(cap)
  PROVE  \E b \in 0 .. n - 1, j \in 0 .. Rate(cap) - 1, i \in 0 .. BytesPerWord - 1 :
           Position(cap, b, j, i) = k
<1> DEFINE R == BlockBytes(cap)
           W == BytesPerWord
           b == k \div R
           r == k - b * R
           j == r \div W
           i == r - j * W
<1>0. /\ R \in Nat \ {0} /\ W \in Nat \ {0} /\ Rate(cap) \in Nat \ {0}
      /\ R = Rate(cap) * W
  BY RateBounds DEF BlockBytes
<1>1. b \in Nat /\ b * R <= k /\ k < b * R + R /\ b * R \in Nat
  BY <1>0, DivBounds, MulNext
<1>2. r \in Nat /\ r < R
  BY <1>0, <1>1
<1> HIDE DEF b, r
<1>3. j \in Nat /\ j * W <= r /\ r < j * W + W /\ j * W \in Nat
  BY <1>0, <1>2, DivBounds, MulNext
<1>4. i \in 0 .. W - 1
  <2> HIDE DEF j
  <2> QED BY <1>0, <1>2, <1>3
<1> HIDE DEF j
<1>5. b \in 0 .. n - 1
  <2>1. ~(n <= b)
    <3>1. n <= b => n * R <= b * R
      BY <1>0, <1>1, MulMono
    <3>2. n * R \in Nat
      BY <1>0, MulNext
    <3> QED BY <1>1, <3>1, <3>2
  <2> QED BY <1>1, <2>1
<1>6. j \in 0 .. Rate(cap) - 1
  <2>1. ~(Rate(cap) <= j)
    <3>1. Rate(cap) <= j => R <= j * W
      BY <1>0, <1>3, MulMono
    <3> QED BY <1>0, <1>2, <1>3, <3>1
  <2> QED BY <1>0, <1>3, <2>1
<1>7. Position(cap, b, j, i) = k
  <2>1. Position(cap, b, j, i) = b * R + j * W + i
    BY DEF Position
  <2>2. k = b * R + r
    BY <1>1 DEF r
  <2>3. r = j * W + i
    BY <1>2, <1>3
  <2> DEFINE x == b * R  y == j * W
  <2>4. x \in Nat /\ y \in Nat /\ Position(cap, b, j, i) = x + y + i /\ k = x + r /\ r = y + i
    BY <1>1, <1>3, <2>1, <2>2, <2>3
  <2> HIDE DEF x, y, i
  <2> QED BY <1>4, <2>4
<1> HIDE DEF i
<1> QED BY <1>4, <1>5, <1>6, <1>7

\* Two messages padded to the same blocks have the same bytes at every position.
LEMMA SamePadding ==
  ASSUME NEW cap \in Capacities,
         NEW m \in Seq(ByteValues), NEW q \in Seq(ByteValues),
         Sha3(cap, m) = Sha3(cap, q)
  PROVE  /\ BlockCount(cap, m) = BlockCount(cap, q)
         /\ \A k \in Nat : k < BlockCount(cap, m) * BlockBytes(cap) =>
              PaddedByte(cap, m, k) = PaddedByte(cap, q, k)
<1> DEFINE n == BlockCount(cap, m)
<1>0. \A p \in Seq(ByteValues) : BlockCount(cap, p) \in Nat \ {0}
  <2> SUFFICES ASSUME NEW p \in Seq(ByteValues) PROVE BlockCount(cap, p) \in Nat \ {0}
    OBVIOUS
  <2>1. Len(p) \in Nat /\ BlockBytes(cap) \in Nat \ {0}
    BY RateBounds
  <2>2. Len(p) \div BlockBytes(cap) \in Nat
    BY <2>1, DivBounds
  <2> QED BY <2>2 DEF BlockCount
<1>1. [b \in 1 .. n |-> PaddedBlock(cap, m, b - 1)]
        = [b \in 1 .. BlockCount(cap, q) |-> PaddedBlock(cap, q, b - 1)]
  BY DEF Sha3, Squeeze
<1>2. 1 .. n = 1 .. BlockCount(cap, q)
  BY <1>1
<1>3. n = BlockCount(cap, q)
  BY <1>0, <1>2
<1>4. ASSUME NEW k \in Nat, k < n * BlockBytes(cap)
      PROVE  PaddedByte(cap, m, k) = PaddedByte(cap, q, k)
  <2>1. n \in Nat
    BY <1>0
  <2>2. PICK b \in 0 .. n - 1, j \in 0 .. Rate(cap) - 1, i \in 0 .. BytesPerWord - 1 :
          Position(cap, b, j, i) = k
    BY <1>4, <2>1, PositionOnto
  <2>3. b + 1 \in 1 .. n /\ (b + 1) - 1 = b
    BY <2>1
  <2>4. PaddedBlock(cap, m, b) = PaddedBlock(cap, q, b)
    BY <1>1, <1>3, <2>3
  <2>5. j \in 0 .. SpongeWords - 1 /\ j < Rate(cap)
    BY RateBounds
  <2>6. PaddedBlock(cap, m, b)[j][i] = PaddedByte(cap, m, k)
    BY <2>2, <2>5 DEF PaddedBlock
  <2>7. PaddedBlock(cap, q, b)[j][i] = PaddedByte(cap, q, k)
    BY <2>2, <2>5 DEF PaddedBlock
  <2> QED BY <2>4, <2>6, <2>7
<1> QED BY <1>3, <1>4

\* There is room for the suffix: a message ends before its last padded byte does.
LEMMA MessageFits ==
  ASSUME NEW cap \in Capacities, NEW m \in Seq(ByteValues)
  PROVE  /\ BlockCount(cap, m) * BlockBytes(cap) \in Nat
         /\ Len(m) < BlockCount(cap, m) * BlockBytes(cap)
<1> DEFINE R == BlockBytes(cap)
           q == Len(m) \div R
<1>1. R \in Nat \ {0} /\ Len(m) \in Nat
  BY RateBounds
<1>2. q \in Nat /\ Len(m) < q * R + R
  BY <1>1, DivBounds
<1>3. (q + 1) * R = q * R + R /\ (q + 1) * R \in Nat
  <2> HIDE DEF q, R
  <2> QED BY <1>1, <1>2, MulNext
<1>4. BlockCount(cap, m) = q + 1
  BY DEF BlockCount
<1> QED BY <1>2, <1>3, <1>4

\* The shorter of two messages has no suffix where the longer one ends.
LEMMA LengthsAgree ==
  ASSUME NEW cap \in Capacities,
         NEW m \in Seq(ByteValues), NEW q \in Seq(ByteValues),
         Sha3(cap, m) = Sha3(cap, q)
  PROVE  ~(Len(m) < Len(q))
<1> SUFFICES ASSUME Len(m) < Len(q) PROVE FALSE
  OBVIOUS
<1> DEFINE k == Len(q)
<1>1. k \in Nat /\ Len(m) \in Nat /\ Len(m) < k
  OBVIOUS
<1>2. k < BlockCount(cap, m) * BlockBytes(cap)
  BY SamePadding, MessageFits
<1>3. PaddedByte(cap, m, k) = PaddedByte(cap, q, k)
  BY <1>1, <1>2, SamePadding
<1>4. 1 \in PaddedByte(cap, q, k)
  BY <1>1 DEF PaddedByte, Suffix
<1>5. ~(k < Len(m)) /\ k # Len(m)
  BY <1>1
<1>6. 1 \notin PaddedByte(cap, m, k)
  BY <1>5 DEF PaddedByte
<1> QED BY <1>3, <1>4, <1>6

\* Padding is injective (over an ideal keccakf and an untruncated digest): two
\* messages that sha3_Finalize closes to the same blocks are the same message.
THEOREM PaddingInjective ==
  ASSUME NEW cap \in Capacities,
         NEW m \in Seq(ByteValues), NEW q \in Seq(ByteValues),
         Sha3(cap, m) = Sha3(cap, q)
  PROVE  m = q
<1>1. Len(m) = Len(q) /\ Len(m) \in Nat
  <2>1. ~(Len(m) < Len(q)) /\ ~(Len(q) < Len(m))
    BY LengthsAgree
  <2> QED BY <2>1
<1>2. ASSUME NEW i \in 1 .. Len(m) PROVE m[i] = q[i]
  <2> DEFINE k == i - 1
             N == BlockCount(cap, m) * BlockBytes(cap)
  <2>1. N \in Nat /\ Len(m) < N /\ BlockCount(cap, q) * BlockBytes(cap) = N
    BY MessageFits, SamePadding
  <2>2. k \in Nat /\ k < Len(m) /\ k < N /\ k # N - 1 /\ k + 1 = i
    <3> HIDE DEF N
    <3> QED BY <1>1, <2>1
  <2>3. PaddedByte(cap, m, k) = PaddedByte(cap, q, k)
    BY <2>2, SamePadding
  <2>4. PaddedByte(cap, m, k) = m[i]
    <3> HIDE DEF k
    <3> QED BY <2>2 DEF PaddedByte
  <2>5. PaddedByte(cap, q, k) = q[i]
    <3>1. k # BlockCount(cap, q) * BlockBytes(cap) - 1 /\ k < Len(q)
      BY <1>1, <2>1, <2>2
    <3> HIDE DEF k
    <3> QED BY <2>2, <3>1 DEF PaddedByte
  <2> QED BY <2>3, <2>4, <2>5
<1>3. m = [i \in 1 .. Len(m) |-> m[i]] /\ q = [i \in 1 .. Len(q) |-> q[i]]
  BY SeqIsFunction
<1> QED BY <1>1, <1>2, <1>3

-----------------------------------------------------------------------------
\* The inductive invariant.  ContextFollowsStream needs the loop counters of
\* LoopsInStep (no byte is saved past its word), and the digest needs both.
IInv == TypeOK /\ LoopsInStep /\ ContextFollowsStream /\ DigestIsSha3

LEMMA InitIInv == Init => IInv
<1> SUFFICES ASSUME Init PROVE IInv
  OBVIOUS
<1>1. capacityWords \in Capacities
  BY DEF Init
<1>2. BytesPerWord \in Nat \ {0} /\ Rate(capacityWords) \in Nat \ {0}
  BY <1>1, RateBounds
<1>3. ZeroState \in State
  BY LaneXorFacts DEF ZeroState, State
<1>4. TypeOK
  BY <1>2, <1>3, LaneXorFacts DEF Init, TypeOK
<1>5. LoopsInStep
  BY <1>2 DEF Init, LoopsInStep
<1> QED BY <1>4, <1>5 DEF Init, IInv, ContextFollowsStream, DigestIsSha3

LEMMA StepIInv == IInv /\ [Next]_vars => IInv'
<1> SUFFICES ASSUME IInv, [Next]_vars PROVE IInv'
  OBVIOUS
<1>1. TypeOK' /\ LoopsInStep'
  BY LoopStep DEF IInv
<1>2. ContextFollowsStream'
  BY FollowStep DEF IInv
<1>3. DigestIsSha3'
  <2>1. CASE Sha3Finalize
    <3>1. out' = Sha3(capacityWords, fed)
      BY <2>1, FinalDigest DEF IInv
    <3>2. capacityWords' = capacityWords /\ fed' = fed
      BY <2>1 DEF Sha3Finalize
    <3> QED BY <3>1, <3>2 DEF DigestIsSha3
  <2>2. CASE Sha3Init
    BY <2>2 DEF Sha3Init, DigestIsSha3
  <2>3. ASSUME NEW chunk \in Chunks, Update(chunk) PROVE DigestIsSha3'
    BY <2>3 DEF Update, DigestIsSha3
  <2> USE DEF IInv, LoopsInStep, DigestIsSha3
  <2>4. CASE SaveByte
    BY <2>4 DEF SaveByte
  <2>5. CASE FillEnd
    BY <2>5 DEF FillEnd
  <2>6. CASE DirectWord
    BY <2>6 DEF DirectWord
  <2>7. CASE WordsEnd
    BY <2>7 DEF WordsEnd
  <2>8. CASE UpdateReturns
    BY <2>8 DEF UpdateReturns
  <2>9. CASE UNCHANGED vars
    BY <2>9 DEF vars, ctxVars
  <2> QED
    BY <2>1, <2>2, <2>3, <2>4, <2>5, <2>6, <2>7, <2>8, <2>9 DEF Next
<1> QED BY <1>1, <1>2, <1>3 DEF IInv

THEOREM Invariance == Spec => []IInv
BY InitIInv, StepIInv, PTL DEF Spec

\* The fields of sha3_context stay in range, wordIndex below the rate in particular.
THEOREM TypeCorrect == Spec => []TypeOK
<1>1. IInv => TypeOK
  BY DEF IInv
<1> QED BY Invariance, <1>1, PTL

\* The SHA3_ASSERTs of sha3_Update hold (sha3.c:166-236).
THEOREM AssertsHold == Spec => []LoopsInStep
<1>1. IInv => LoopsInStep
  BY DEF IInv
<1> QED BY Invariance, <1>1, PTL

\* The context depends on the bytes fed, not on how they were cut into calls.
THEOREM ContextCorrect == Spec => []ContextFollowsStream
<1>1. IInv => ContextFollowsStream
  BY DEF IInv
<1> QED BY Invariance, <1>1, PTL

\* No other message has the digest that sha3_Finalize returned.
THEOREM DigestSeparates == Spec => []DigestTellsMessages
<1>1. IInv => DigestTellsMessages
  <2> SUFFICES ASSUME IInv, phase = "closed", NEW m \in Chunks,
                      out = Sha3(capacityWords, m)
               PROVE  m = fed
    BY DEF DigestTellsMessages
  <2>1. m \in Seq(ByteValues) /\ fed \in Seq(ByteValues) /\ capacityWords \in Capacities
    BY ChunkType DEF IInv, TypeOK
  <2>2. Sha3(capacityWords, m) = Sha3(capacityWords, fed)
    BY DEF IInv, DigestIsSha3
  <2> QED BY <2>1, <2>2, PaddingInjective
<1> QED BY Invariance, <1>1, PTL

\* sha3.c implements init, update, ..., update, final of sha256.h and sha512.h.
THEOREM ImplementsStream == Spec => StreamSpec
<1>1. Init => Stream!Init
  BY DEF Init, Stream!Init
<1>2. IInv /\ [Next]_vars => [Stream!Next]_(Stream!vars)
  <2> SUFFICES ASSUME IInv, [Next]_vars PROVE [Stream!Next]_(Stream!vars)
    OBVIOUS
  <2> USE DEF Stream!vars
  <2>1. CASE Sha3Init
    BY <2>1 DEF Sha3Init, Stream!Next, Stream!HashInit
  <2>2. ASSUME NEW chunk \in Chunks, Update(chunk) PROVE Stream!Next
    BY <2>2 DEF Update, ctxVars, Stream!Next, Stream!HashUpdate
  <2>3. CASE SaveByte
    BY <2>3 DEF SaveByte
  <2>4. CASE FillEnd
    BY <2>4 DEF FillEnd
  <2>5. CASE DirectWord
    BY <2>5 DEF DirectWord
  <2>6. CASE WordsEnd
    BY <2>6 DEF WordsEnd, ctxVars
  <2>7. CASE UpdateReturns
    BY <2>7 DEF UpdateReturns, ctxVars
  <2>8. CASE Sha3Finalize
    <3>1. out' = Sha3(capacityWords, fed)
      BY <2>8, FinalDigest DEF IInv
    <3> QED BY <2>8, <3>1 DEF Sha3Finalize, Stream!Next, Stream!HashFinal
  <2>9. CASE UNCHANGED vars
    BY <2>9 DEF vars, ctxVars
  <2> QED
    BY <2>1, <2>2, <2>3, <2>4, <2>5, <2>6, <2>7, <2>8, <2>9 DEF Next
<1> QED
  BY Invariance, <1>1, <1>2, PTL DEF Spec, StreamSpec, Stream!Spec
-----------------------------------------------------------------------------
\* What the sponge takes as unknown: keccakf, in KeccakF, on any state.
CONSTANT States
VARIABLES lanes, rounds, stage, place, hand, before
Perm == INSTANCE KeccakF WITH
          Starts <- States, s <- lanes, round <- rounds, loop <- stage, i <- place,
          t <- hand, start <- before

Lane64 == SUBSET (0 .. 63)

\* The lane in hand before turn j of the loop rho-pi, and where a lane is in keccakf_piln.
Src(j) == IF j = 1 THEN 1 ELSE Perm!keccakf_piln[j - 1]
Turn == <<24, 18, 6, 12, 7, 23, 2, 9, 22, 1, 3, 17, 16, 20, 13, 8, 4, 5, 15, 19, 10, 21, 14, 11>>

LEMMA Path ==
  /\ \A j \in 1 .. 24 : Perm!keccakf_piln[j] \in 1 .. 24 /\ Turn[Perm!keccakf_piln[j]] = j
  /\ \A k \in 1 .. 24 : Turn[k] \in 1 .. 24 /\ Perm!keccakf_piln[Turn[k]] = k
<1>1. \A j \in 1 .. 24 : Perm!keccakf_piln[j] \in 1 .. 24 /\ Turn[Perm!keccakf_piln[j]] = j
  BY SMT DEF Perm!keccakf_piln, Turn
<1>2. \A k \in 1 .. 24 : Turn[k] \in 1 .. 24 /\ Perm!keccakf_piln[Turn[k]] = k
  BY SMT DEF Perm!keccakf_piln, Turn
<1> QED
  BY <1>1, <1>2

\* The lane pi moves to a place is the one in hand, and the table has its rotation.
LEMMA PathIs ==
  \A j \in 1 .. 24 :
    LET k == Perm!keccakf_piln[j]
    IN /\ Src(j) \in 1 .. 24
       /\ (((k % 5) + 3 * (k \div 5)) % 5) + 5 * ((k % 5) % 5) = Src(j)
       /\ ((j * (j + 1)) \div 2) % 64 = Perm!keccakf_rotc[j]
       /\ <<k % 5, k \div 5>> = <<Src(j) \div 5, (2 * (Src(j) % 5) + 3 * (Src(j) \div 5)) % 5>>
  BY SMT DEF Src, Perm!keccakf_piln, Perm!keccakf_rotc

\* The walk over the lanes.
LEMMA VisitStep ==
  /\ Perm!Visit[0] = <<1, 0>>
  /\ \A n \in 1 .. 23 : Perm!Visit[n] = <<Perm!Visit[n - 1][2],
                                         (2 * Perm!Visit[n - 1][1] + 3 * Perm!Visit[n - 1][2]) % 5>>
<1> DEFINE S == (0 .. 4) \X (0 .. 4)
           f == [xy \in S |-> <<xy[2], (2 * xy[1] + 3 * xy[2]) % 5>>]
           Is(at) == at = [n \in 0 .. 23 |->
                            IF n = 0 THEN <<1, 0>>
                            ELSE LET xy == at[n - 1] IN <<xy[2], (2 * xy[1] + 3 * xy[2]) % 5>>]
<1>1. \E at : Is(at)
  <2>1. \A y \in S : f[y] \in S
    OBVIOUS
  <2>2. <<1, 0>> \in S
    OBVIOUS
  <2> HIDE DEF S, f
  <2>3. PICK c : Iterates(S, f, <<1, 0>>, 23, c)
    BY <2>1, <2>2, IteratesExist
  <2>4. c \in [0 .. 23 -> S] /\ c[0] = <<1, 0>> /\ \A k \in 0 .. 22 : c[k + 1] = f[c[k]]
    BY <2>3 DEF Iterates
  <2>5. \A n \in 1 .. 23 : c[n] = f[c[n - 1]] /\ c[n - 1] \in S
    <3> TAKE n \in 1 .. 23
    <3>1. n - 1 \in 0 .. 22 /\ (n - 1) + 1 = n
      OBVIOUS
    <3> QED
      BY <2>4, <3>1
  <2>6. \A y \in S : f[y] = <<y[2], (2 * y[1] + 3 * y[2]) % 5>>
    BY DEF f
  <2>7. \A n \in 0 .. 23 : n = 0 \/ n \in 1 .. 23
    OBVIOUS
  <2>8. \A n \in 0 .. 23 : c[n] = IF n = 0 THEN <<1, 0>>
                                 ELSE LET xy == c[n - 1] IN <<xy[2], (2 * xy[1] + 3 * xy[2]) % 5>>
    BY <2>4, <2>5, <2>6, <2>7
  <2>9. DOMAIN c = 0 .. 23 /\ c = [n \in DOMAIN c |-> c[n]]
    BY <2>4
  <2> QED
    BY <2>8, <2>9
<1>2. Perm!Visit = CHOOSE at : Is(at)
  BY Zenon DEF Perm!Visit
<1>3. Is(Perm!Visit)
  <2> HIDE DEF Is
  <2> QED
    BY <1>1, <1>2, Zenon
<1>4. \A n \in 0 .. 23 : Perm!Visit[n] =
        IF n = 0 THEN <<1, 0>>
        ELSE <<Perm!Visit[n - 1][2], (2 * Perm!Visit[n - 1][1] + 3 * Perm!Visit[n - 1][2]) % 5>>
  BY <1>3, Zenon
<1>5. Perm!Visit[0] = <<1, 0>>
  BY <1>4, 0 \in 0 .. 23
<1>6. \A n \in 1 .. 23 : n \in 0 .. 23 /\ n # 0
  OBVIOUS
<1> QED
  BY <1>4, <1>5, <1>6, Zenon

LEMMA VisitIs == \A n \in 0 .. 23 : Perm!Visit[n] = <<Src(n + 1) % 5, Src(n + 1) \div 5>>
<1> DEFINE T == {n \in 0 .. 23 : Perm!Visit[n] = <<Src(n + 1) % 5, Src(n + 1) \div 5>>}
<1>1. 0 \in T
  <2>1. Src(0 + 1) = 1 /\ 1 % 5 = 1 /\ 1 \div 5 = 0
    BY SMT DEF Src
  <2> QED
    BY <2>1, VisitStep
<1>2. ASSUME NEW n \in 0 .. 22, n \in T
      PROVE  n + 1 \in T
  <2> DEFINE a == Src(n + 1) % 5
             b == Src(n + 1) \div 5
             k == Src((n + 1) + 1)
  <2>1. n + 1 \in 1 .. 23 /\ n + 1 \in 1 .. 24 /\ n + 1 \in 0 .. 23 /\ (n + 1) - 1 = n
    OBVIOUS
  <2>2. k = Perm!keccakf_piln[n + 1]
    <3>1. (n + 1) + 1 # 1 /\ ((n + 1) + 1) - 1 = n + 1
      OBVIOUS
    <3> QED
      BY <3>1 DEF Src
  <2>3. <<k % 5, k \div 5>> = <<b, (2 * a + 3 * b) % 5>>
    BY <2>1, <2>2, PathIs
  <2>4. Perm!Visit[n] = <<a, b>>
    BY <1>2
  <2> HIDE DEF a, b, k
  <2>5. Perm!Visit[n + 1] = <<b, (2 * a + 3 * b) % 5>>
    <3>1. Perm!Visit[n + 1] = <<Perm!Visit[n][2], (2 * Perm!Visit[n][1] + 3 * Perm!Visit[n][2]) % 5>>
      BY <2>1, VisitStep, Zenon
    <3>2. Perm!Visit[n][1] = a /\ Perm!Visit[n][2] = b
      BY <2>4
    <3> QED
      BY <3>1, <3>2
  <2> QED
    BY <2>1, <2>3, <2>5 DEF k
<1> HIDE DEF T
<1>3. \A n \in 0 .. 23 : n \in T
  BY <1>1, <1>2, InductionTo
<1> QED
  BY <1>3 DEF T

\* The lane visited n-th is rotated as far as keccakf_rotc says.
LEMMA OffsetIs ==
  /\ Perm!Offset[0] = 0
  /\ \A j \in 1 .. 24 : Perm!Offset[Src(j)] = Perm!keccakf_rotc[j]
<1>1. Perm!Offset[0] = 0
  BY DEF Perm!Offset, Perm!Lanes
<1>2. ASSUME NEW j \in 1 .. 24
      PROVE  Perm!Offset[Src(j)] = Perm!keccakf_rotc[j]
  <2> DEFINE k == Src(j)
             Here(n) == Perm!Visit[n] = <<k % 5, k \div 5>>
  <2>1. k \in 1 .. 24
    BY PathIs
  <2>2. \A m \in 0 .. 23 : Here(m) => m = j - 1
    <3> SUFFICES ASSUME NEW m \in 0 .. 23, Here(m) PROVE m = j - 1
      OBVIOUS
    <3>1. m + 1 \in 1 .. 24 /\ Src(m + 1) \in 1 .. 24
      BY PathIs
    <3>2. Src(m + 1) % 5 = k % 5 /\ Src(m + 1) \div 5 = k \div 5
      BY VisitIs
    <3>3. Src(m + 1) = k
      <4>1. \A c, d \in 1 .. 24 : c % 5 = d % 5 /\ c \div 5 = d \div 5 => c = d
        BY SMT
      <4> QED
        BY <2>1, <3>1, <3>2, <4>1
    <3>4. \A c, d \in 1 .. 24 : Src(c) = Src(d) => c = d
      <4> SUFFICES ASSUME NEW c \in 1 .. 24, NEW d \in 1 .. 24, Src(c) = Src(d) PROVE c = d
        OBVIOUS
      <4> DEFINE p == Perm!keccakf_piln
      <4>1. \A e \in 2 .. 24 : e - 1 \in 1 .. 23 /\ Src(e) = p[e - 1] /\ Turn[p[e - 1]] = e - 1
        <5>1. \A e \in 2 .. 24 : e - 1 \in 1 .. 23 /\ e - 1 \in 1 .. 24 /\ e # 1
          OBVIOUS
        <5> QED
          BY <5>1, Path DEF Src
      <4>2. Turn[1] = 24 /\ Src(1) = 1
        BY DEF Turn, Src
      <4>3. c = 1 \/ c \in 2 .. 24
        OBVIOUS
      <4>4. d = 1 \/ d \in 2 .. 24
        OBVIOUS
      <4> HIDE DEF p
      <4> QED
        BY <4>1, <4>2, <4>3, <4>4, SMT
    <3> QED
      BY <3>1, <3>3, <3>4, SMT
  <2>3. j - 1 \in 0 .. 23 /\ (j - 1) + 1 = j
    OBVIOUS
  <2>4. Here(j - 1)
    BY <2>3, VisitIs
  <2> DEFINE n == CHOOSE m \in 0 .. 23 : Here(m)
  <2>5. n = j - 1
    <3> HIDE DEF Here
    <3> QED
      BY <2>2, <2>3, <2>4
  <2>6. Perm!Offset[k] = (((n + 1) * (n + 2)) \div 2) % 64
    <3>1. k \in 0 .. 24 /\ k # 0
      BY <2>1
    <3> HIDE DEF k
    <3> QED
      BY <3>1, Zenon DEF Perm!Offset, Perm!Lanes
  <2> HIDE DEF n
  <2>7. n + 1 = j /\ n + 2 = j + 1
    BY <2>5
  <2> QED
    BY <2>6, <2>7, PathIs
<1> QED
  BY <1>1, <1>2

-----------------------------------------------------------------------------
\* The shift register of the round constants.
Shifted(R) ==
  LET T == {b + 1 : b \in R}
  IN IF 8 \in T THEN Perm!Xor(T \ {8}, {0, 4, 5, 6}) ELSE T

\* Every place after a step, in terms of those before it.
Moved1(R, T) ==
  /\ R \subseteq 0 .. 7 /\ T \subseteq 0 .. 7
  /\ 0 \in T <=> 7 \in R
  /\ 1 \in T <=> 0 \in R
  /\ 2 \in T <=> 1 \in R
  /\ 3 \in T <=> 2 \in R
  /\ 4 \in T <=> ~(3 \in R <=> 7 \in R)
  /\ 5 \in T <=> ~(4 \in R <=> 7 \in R)
  /\ 6 \in T <=> ~(5 \in R <=> 7 \in R)
  /\ 7 \in T <=> 6 \in R

LEMMA ShiftedIs == \A R \in SUBSET (0 .. 7) : Moved1(R, Shifted(R))
<1> TAKE R \in SUBSET (0 .. 7)
<1> DEFINE T == {b + 1 : b \in R}
<1>1. /\ T \subseteq 1 .. 8
      /\ \A b \in 1 .. 8 : b \in T <=> b - 1 \in R
  OBVIOUS
<1> HIDE DEF T
<1>2. Shifted(R) = IF 8 \in T THEN Perm!Xor(T \ {8}, {0, 4, 5, 6}) ELSE T
  BY DEF Shifted, T
<1>3. /\ 1 \in T <=> 0 \in R
      /\ 2 \in T <=> 1 \in R
      /\ 3 \in T <=> 2 \in R
      /\ 4 \in T <=> 3 \in R
      /\ 5 \in T <=> 4 \in R
      /\ 6 \in T <=> 5 \in R
      /\ 7 \in T <=> 6 \in R
      /\ 8 \in T <=> 7 \in R
      /\ 0 \notin T
  BY <1>1
<1>4. CASE 7 \in R
  <2>1. Shifted(R) = ((T \ {8}) \ {0, 4, 5, 6}) \cup ({0, 4, 5, 6} \ (T \ {8}))
    BY <1>2, <1>3, <1>4 DEF Perm!Xor
  <2>2. Shifted(R) \subseteq 0 .. 7
    BY <2>1, <1>1
  <2> QED
    BY <2>1, <2>2, <1>3, <1>4 DEF Moved1
<1>5. CASE 7 \notin R
  <2>1. Shifted(R) = T
    BY <1>2, <1>3, <1>5
  <2>2. T \subseteq 0 .. 7
    BY <1>1, <1>3, <1>5
  <2> QED
    BY <2>1, <2>2, <1>3, <1>5 DEF Moved1
<1> QED
  BY <1>4, <1>5

LEMMA RegisterStep ==
  /\ Perm!Register[0] = {0}
  /\ \A n \in 0 .. 253 : /\ Perm!Register[n] \in SUBSET (0 .. 7)
                         /\ Perm!Register[n + 1] = Shifted(Perm!Register[n])
<1> DEFINE S == SUBSET (0 .. 7)
           f == [R \in S |-> Shifted(R)]
           Is(reg) == reg = [n \in 0 .. 254 |->
                              IF n = 0 THEN {0}
                              ELSE LET T == {b + 1 : b \in reg[n - 1]}
                                   IN IF 8 \in T THEN Perm!Xor(T \ {8}, {0, 4, 5, 6}) ELSE T]
<1>1. PICK c : Is(c) /\ \A n \in 0 .. 254 : c[n] \in S
  <2>1. \A R \in S : f[R] \in S /\ f[R] = Shifted(R)
    BY ShiftedIs DEF Moved1
  <2>2. {0} \in S
    OBVIOUS
  <2> HIDE DEF S, f
  <2>3. PICK c : Iterates(S, f, {0}, 254, c)
    BY <2>1, <2>2, IteratesExist
  <2>4. c \in [0 .. 254 -> S] /\ c[0] = {0} /\ \A k \in 0 .. 253 : c[k + 1] = f[c[k]]
    BY <2>3 DEF Iterates
  <2>5. \A n \in 1 .. 254 : c[n] = f[c[n - 1]] /\ c[n - 1] \in S
    <3> TAKE n \in 1 .. 254
    <3>1. n - 1 \in 0 .. 253 /\ (n - 1) + 1 = n /\ n - 1 \in 0 .. 254
      OBVIOUS
    <3> QED
      BY <2>4, <3>1
  <2>6. \A n \in 0 .. 254 : n = 0 \/ n \in 1 .. 254
    OBVIOUS
  <2>7. \A n \in 0 .. 254 : c[n] = IF n = 0 THEN {0} ELSE Shifted(c[n - 1])
    BY <2>1, <2>4, <2>5, <2>6
  <2>8. DOMAIN c = 0 .. 254 /\ c = [n \in DOMAIN c |-> c[n]]
    BY <2>4
  <2>9. c = [n \in 0 .. 254 |-> IF n = 0 THEN {0} ELSE Shifted(c[n - 1])]
    BY <2>7, <2>8
  <2>10. Is(c)
    BY <2>9, Zenon DEF Shifted
  <2> QED
    BY <2>4, <2>10
<1>2. Perm!Register = CHOOSE reg : Is(reg)
  BY Zenon DEF Perm!Register
<1>3. Is(Perm!Register)
  <2> HIDE DEF Is
  <2> QED
    BY <1>1, <1>2, Zenon
<1>4. \A n \in 0 .. 254 : Perm!Register[n] = IF n = 0 THEN {0} ELSE Shifted(Perm!Register[n - 1])
  BY <1>3, Zenon DEF Shifted
<1>5. Perm!Register[0] = {0}
  BY <1>4, 0 \in 0 .. 254
<1>6. \A n \in 0 .. 253 : Perm!Register[n + 1] = Shifted(Perm!Register[n])
  <2> TAKE n \in 0 .. 253
  <2>1. n + 1 \in 0 .. 254 /\ n + 1 # 0 /\ (n + 1) - 1 = n
    OBVIOUS
  <2> QED
    BY <2>1, <1>4
<1>7. \A n \in 0 .. 253 : Perm!Register[n] \in S
  <2> DEFINE X == {n \in 0 .. 253 : Perm!Register[n] \in S}
  <2>1. 0 \in X
    BY <1>5
  <2>2. ASSUME NEW n \in 0 .. 252, n \in X PROVE n + 1 \in X
    <3>1. Shifted(Perm!Register[n]) \in S
      BY <2>2, ShiftedIs DEF Moved1
    <3>2. n + 1 \in 0 .. 253 /\ n \in 0 .. 253
      OBVIOUS
    <3> QED
      BY <3>1, <3>2, <1>6
  <2> HIDE DEF X
  <2>3. \A n \in 0 .. 253 : n \in X
    BY <2>1, <2>2, InductionTo
  <2> QED
    BY <2>3 DEF X
<1> QED
  BY <1>5, <1>6, <1>7

\* A round constant takes seven bits; the register at the first of each.
Moved7(R, T) ==
  /\ R \subseteq 0 .. 7 /\ T \subseteq 0 .. 7
  /\ 0 \in T <=> ~(1 \in R <=> ~(3 \in R <=> 4 \in R))
  /\ 1 \in T <=> ~(2 \in R <=> ~(4 \in R <=> 5 \in R))
  /\ 2 \in T <=> ~(3 \in R <=> ~(5 \in R <=> 6 \in R))
  /\ 3 \in T <=> ~(4 \in R <=> ~(6 \in R <=> 7 \in R))
  /\ 4 \in T <=> ~(1 \in R <=> ~(3 \in R <=> ~(4 \in R <=> ~(5 \in R <=> 7 \in R))))
  /\ 5 \in T <=> ~(1 \in R <=> ~(2 \in R <=> ~(3 \in R <=> ~(5 \in R <=> 6 \in R))))
  /\ 6 \in T <=> ~(1 \in R <=> ~(2 \in R <=> ~(6 \in R <=> 7 \in R)))
  /\ 7 \in T <=> ~(0 \in R <=> ~(2 \in R <=> ~(3 \in R <=> 7 \in R)))

Bits7(R, q) ==
  /\ 0 \in q <=> 0 \in R
  /\ 1 \in q <=> 7 \in R
  /\ 2 \in q <=> 6 \in R
  /\ 3 \in q <=> ~(5 \in R <=> 7 \in R)
  /\ 4 \in q <=> ~(4 \in R <=> ~(6 \in R <=> 7 \in R))
  /\ 5 \in q <=> ~(3 \in R <=> ~(5 \in R <=> 6 \in R))
  /\ 6 \in q <=> ~(2 \in R <=> ~(4 \in R <=> 5 \in R))

RegisterRows == <<
  {0}, {7}, {3, 4, 6, 7}, {1, 3, 4}, {0, 1, 2, 3, 4, 6, 7}, {0, 3}, {0, 2, 4, 5},
  {0, 1, 2, 3, 6}, {1, 3, 6, 7}, {4, 5, 6}, {0, 6}, {2, 3, 5, 6, 7}, {0, 2, 4, 6, 7},
  {0, 2, 3, 6, 7}, {0, 1, 5, 6}, {0, 1, 3, 5, 7}, {1, 3, 5, 7}, {1, 3, 5},
  {1, 4, 5, 6, 7}, {3, 5, 6, 7}, {0, 1, 2, 4, 5}, {1, 2, 3, 4, 5}, {0, 1, 3}, {2, 6}>>

LEMMA SevenSteps ==
  ASSUME NEW n \in 0 .. 247
  PROVE  /\ Moved7(Perm!Register[n], Perm!Register[n + 7])
         /\ Bits7(Perm!Register[n], {j \in 0 .. 6 : 0 \in Perm!Register[n + j]})
<1> DEFINE r(j) == Perm!Register[n + j]
<1>1. \A j \in 0 .. 6 : Moved1(r(j), r(j + 1))
  <2> TAKE j \in 0 .. 6
  <2>1. n + j \in 0 .. 253 /\ (n + j) + 1 = n + (j + 1)
    OBVIOUS
  <2>2. Moved1(Perm!Register[n + j], Perm!Register[(n + j) + 1])
    BY <2>1, RegisterStep, ShiftedIs
  <2> QED
    BY <2>1, <2>2
<1>2. r(0) = Perm!Register[n]
  BY n + 0 = n
<1> HIDE DEF r
<1>3. /\ Moved1(r(0), r(1)) /\ Moved1(r(1), r(2)) /\ Moved1(r(2), r(3)) /\ Moved1(r(3), r(4))
      /\ Moved1(r(4), r(5)) /\ Moved1(r(5), r(6)) /\ Moved1(r(6), r(7))
  BY <1>1
<1>4. Moved7(r(0), r(7))
  BY <1>3, SMT DEF Moved1, Moved7
<1>5. Bits7(r(0), {j \in 0 .. 6 : 0 \in r(j)})
  BY <1>3, SMT DEF Moved1, Bits7
<1> QED
  BY <1>2, <1>4, <1>5 DEF r

LEMMA RowsFollow ==
  /\ \A m \in 1 .. 23 : Moved7(RegisterRows[m], RegisterRows[m + 1])
  /\ \A m \in 1 .. 24 : RegisterRows[m] \subseteq 0 .. 7
  BY SMT DEF Moved7, RegisterRows

\* So the constants of the standard are those of the table.
BitPlaces == <<0, 1, 3, 7, 15, 31, 63>>

LEMMA ConstantsFollow ==
  \A m \in 1 .. 24 :
    /\ Perm!keccakf_rndc[m] \subseteq {0, 1, 3, 7, 15, 31, 63}
    /\ Bits7(RegisterRows[m], {j \in 0 .. 6 : BitPlaces[j + 1] \in Perm!keccakf_rndc[m]})
<1> SUFFICES ASSUME NEW m \in 1 .. 24
             PROVE  /\ Perm!keccakf_rndc[m] \subseteq {0, 1, 3, 7, 15, 31, 63}
                    /\ Bits7(RegisterRows[m], {j \in 0 .. 6 : BitPlaces[j + 1] \in Perm!keccakf_rndc[m]})
  OBVIOUS
<1> DEFINE c == Perm!keccakf_rndc[m]
           q == {j \in 0 .. 6 : BitPlaces[j + 1] \in c}
<1>1. /\ 0 \in q <=> 0 \in c
      /\ 1 \in q <=> 1 \in c
      /\ 2 \in q <=> 3 \in c
      /\ 3 \in q <=> 7 \in c
      /\ 4 \in q <=> 15 \in c
      /\ 5 \in q <=> 31 \in c
      /\ 6 \in q <=> 63 \in c
  BY SMT DEF BitPlaces
<1> HIDE DEF q
<1>2. c \subseteq {0, 1, 3, 7, 15, 31, 63}
  BY SMT DEF Perm!keccakf_rndc
<1>3. Bits7(RegisterRows[m], q)
  BY <1>1, SMT DEF Perm!keccakf_rndc, RegisterRows, Bits7
<1> QED
  BY <1>2, <1>3 DEF q

LEMMA PlacesArePowers == \A j \in 0 .. 6 : 2^j - 1 = BitPlaces[j + 1] /\ 2^j - 1 \in 0 .. 63
<1>1. 2^0 = 1 /\ 2^1 = 2 /\ 2^2 = 4 /\ 2^3 = 8 /\ 2^4 = 16 /\ 2^5 = 32 /\ 2^6 = 64
  BY SMT
<1>2. \A j \in 0 .. 6 : j = 0 \/ j = 1 \/ j = 2 \/ j = 3 \/ j = 4 \/ j = 5 \/ j = 6
  OBVIOUS
<1>3. /\ BitPlaces[1] = 0 /\ BitPlaces[2] = 1 /\ BitPlaces[3] = 3 /\ BitPlaces[4] = 7
      /\ BitPlaces[5] = 15 /\ BitPlaces[6] = 31 /\ BitPlaces[7] = 63
  BY DEF BitPlaces
<1> SUFFICES ASSUME NEW j \in 0 .. 6 PROVE 2^j - 1 = BitPlaces[j + 1] /\ 2^j - 1 \in 0 .. 63
  OBVIOUS
<1>4. CASE j = 0
  BY <1>1, <1>3, <1>4
<1>5. CASE j = 1
  BY <1>1, <1>3, <1>5
<1>6. CASE j = 2
  BY <1>1, <1>3, <1>6
<1>7. CASE j = 3
  BY <1>1, <1>3, <1>7
<1>8. CASE j = 4
  BY <1>1, <1>3, <1>8
<1>9. CASE j = 5
  BY <1>1, <1>3, <1>9
<1>10. CASE j = 6
  BY <1>1, <1>3, <1>10
<1> QED
  BY <1>2, <1>4, <1>5, <1>6, <1>7, <1>8, <1>9, <1>10

LEMMA RegisterAtRows == \A m \in 0 .. 23 : Perm!Register[7 * m] = RegisterRows[m + 1]
<1> DEFINE X == {m \in 0 .. 23 : Perm!Register[7 * m] = RegisterRows[m + 1]}
<1>1. 0 \in X
  <2>1. RegisterRows[0 + 1] = {0} /\ 7 * 0 = 0 /\ 0 \in 0 .. 23
    BY SMT DEF RegisterRows
  <2>2. Perm!Register[7 * 0] = {0}
    BY <2>1, RegisterStep
  <2>3. Perm!Register[7 * 0] = RegisterRows[0 + 1]
    BY <2>1, <2>2
  <2> QED
    BY <2>1, <2>3
<1>2. ASSUME NEW m \in 0 .. 22, m \in X PROVE m + 1 \in X
  <2>1. 7 * m \in 0 .. 247 /\ 7 * (m + 1) = 7 * m + 7 /\ m + 1 \in 1 .. 23 /\ m + 1 \in 0 .. 23
    BY SMT
  <2> DEFINE R == Perm!Register[7 * m]
             S == Perm!Register[7 * (m + 1)]
             T == RegisterRows[(m + 1) + 1]
  <2>2. Moved7(R, S)
    BY <2>1, SevenSteps
  <2>3. Moved7(R, T)
    BY <2>1, <1>2, RowsFollow
  <2> HIDE DEF R, S, T
  <2>4. S \subseteq 0 .. 7 /\ T \subseteq 0 .. 7
    BY <2>2, <2>3 DEF Moved7
  <2>5. \A b \in 0 .. 7 : b \in S <=> b \in T
    <3>1. \A b \in 0 .. 7 : b = 0 \/ b = 1 \/ b = 2 \/ b = 3 \/ b = 4 \/ b = 5 \/ b = 6 \/ b = 7
      OBVIOUS
    <3>2. /\ 0 \in S <=> 0 \in T
          /\ 1 \in S <=> 1 \in T
          /\ 2 \in S <=> 2 \in T
          /\ 3 \in S <=> 3 \in T
          /\ 4 \in S <=> 4 \in T
          /\ 5 \in S <=> 5 \in T
          /\ 6 \in S <=> 6 \in T
          /\ 7 \in S <=> 7 \in T
      BY <2>2, <2>3, SMT DEF Moved7
    <3> QED
      BY <3>1, <3>2
  <2>6. S = T
    BY <2>4, <2>5
  <2> QED
    BY <2>1, <2>6 DEF S, T
<1> HIDE DEF X
<1>3. \A m \in 0 .. 23 : m \in X
  BY <1>1, <1>2, InductionTo
<1> QED
  BY <1>3 DEF X

LEMMA ConstantIs == \A ir \in 0 .. 23 : Perm!Rc(ir) = Perm!keccakf_rndc[ir + 1]
<1> SUFFICES ASSUME NEW ir \in 0 .. 23 PROVE Perm!Rc(ir) = Perm!keccakf_rndc[ir + 1]
  OBVIOUS
<1> DEFINE c == Perm!keccakf_rndc[ir + 1]
           R == Perm!Register[7 * ir]
           q == {j \in 0 .. 6 : 0 \in Perm!Register[7 * ir + j]}
           p == {j \in 0 .. 6 : BitPlaces[j + 1] \in c}
<1>1. 7 * ir \in 0 .. 247 /\ ir + 1 \in 1 .. 24
  BY SMT
<1>2. Bits7(R, q)
  BY <1>1, SevenSteps
<1>3. R = RegisterRows[ir + 1]
  BY RegisterAtRows
<1>4. c \subseteq {0, 1, 3, 7, 15, 31, 63} /\ Bits7(R, p)
  BY <1>1, <1>3, ConstantsFollow
<1>5. \A j \in 0 .. 6 : j \in q <=> j \in p
  <2> HIDE DEF R, q, p
  <2>1. \A j \in 0 .. 6 : j = 0 \/ j = 1 \/ j = 2 \/ j = 3 \/ j = 4 \/ j = 5 \/ j = 6
    OBVIOUS
  <2>2. /\ 0 \in q <=> 0 \in p
        /\ 1 \in q <=> 1 \in p
        /\ 2 \in q <=> 2 \in p
        /\ 3 \in q <=> 3 \in p
        /\ 4 \in q <=> 4 \in p
        /\ 5 \in q <=> 5 \in p
        /\ 6 \in q <=> 6 \in p
    BY <1>2, <1>4, SMT DEF Bits7
  <2> QED
    BY <2>1, <2>2
<1>6. \A j \in 0 .. 6 : 0 \in Perm!Register[(j + 7 * ir) % 255] <=> BitPlaces[j + 1] \in c
  <2> TAKE j \in 0 .. 6
  <2>1. (j + 7 * ir) % 255 = 7 * ir + j
    BY SMT
  <2> QED
    BY <1>5, <2>1
<1>7. \A b \in {0, 1, 3, 7, 15, 31, 63} : \E j \in 0 .. 6 : b = BitPlaces[j + 1]
  <2>1. /\ BitPlaces[0 + 1] = 0 /\ BitPlaces[1 + 1] = 1 /\ BitPlaces[2 + 1] = 3 /\ BitPlaces[3 + 1] = 7
        /\ BitPlaces[4 + 1] = 15 /\ BitPlaces[5 + 1] = 31 /\ BitPlaces[6 + 1] = 63
    BY DEF BitPlaces
  <2>2. 0 \in 0 .. 6 /\ 1 \in 0 .. 6 /\ 2 \in 0 .. 6 /\ 3 \in 0 .. 6 /\ 4 \in 0 .. 6 /\ 5 \in 0 .. 6 /\ 6 \in 0 .. 6
    OBVIOUS
  <2> QED
    BY <2>1, <2>2
<1>8. c \subseteq 0 .. 63
  BY <1>4
<1> HIDE DEF c
<1>9. \A b \in 0 .. 63 : (\E j \in 0 .. 6 : b = 2^j - 1 /\ 0 \in Perm!Register[(j + 7 * ir) % 255]) <=> b \in c
  <2> TAKE b \in 0 .. 63
  <2>1. ASSUME NEW j \in 0 .. 6, b = 2^j - 1, 0 \in Perm!Register[(j + 7 * ir) % 255]
        PROVE  b \in c
    BY <2>1, <1>6, PlacesArePowers, Zenon
  <2>2. ASSUME b \in c
        PROVE  \E j \in 0 .. 6 : b = 2^j - 1 /\ 0 \in Perm!Register[(j + 7 * ir) % 255]
    <3>1. PICK j \in 0 .. 6 : b = BitPlaces[j + 1]
      BY <2>2, <1>4, <1>7
    <3>2. b = 2^j - 1 /\ 0 \in Perm!Register[(j + 7 * ir) % 255]
      BY <2>2, <3>1, <1>6, PlacesArePowers, Zenon
    <3> QED
      BY <3>2
  <2> QED
    BY <2>1, <2>2
<1>10. Perm!Rc(ir) = {b \in 0 .. 63 : \E j \in 0 .. 6 : b = 2^j - 1 /\ 0 \in Perm!Register[(j + 7 * ir) % 255]}
  BY Zenon DEF Perm!Rc, Perm!Word
<1>11. Perm!Rc(ir) = c
  BY <1>8, <1>9, <1>10, Zenon
<1> QED
  BY <1>11 DEF c
-----------------------------------------------------------------------------
LaneStates == [0 .. 24 -> Lane64]

\* A call finds 25 lanes of 64 bits.
StatesFit == States \subseteq LaneStates

LEMMA XorTwo == \A S, T : Perm!Xor(S, T) = (S \ T) \cup (T \ S)
  BY DEF Perm!Xor

\* Whether a number of things is odd.
LEMMA OneMore ==
  ASSUME NEW k \in Nat, NEW S \in SUBSET (0 .. k - 1)
  PROVE  Cardinality(S \cup {k}) % 2 = 1 <=> ~(Cardinality(S) % 2 = 1)
<1>1. IsFiniteSet(S) /\ Cardinality(S) \in Nat
  <2>1. IsFiniteSet(0 .. k - 1)
    BY FS_Interval
  <2> QED
    BY <2>1, FS_Subset, FS_CardinalityType
<1>2. k \notin S
  OBVIOUS
<1>3. Cardinality(S \cup {k}) = Cardinality(S) + 1
  BY <1>1, <1>2, FS_AddElement
<1>4. \A c \in Nat : (c + 1) % 2 = 1 <=> ~(c % 2 = 1)
  OBVIOUS
<1> QED
  BY <1>1, <1>3, <1>4

\* A column of five lanes has an odd number of 1 bits where their sum has one.
LEMMA ParityIs ==
  ASSUME NEW A \in LaneStates, NEW x \in 0 .. 4
  PROVE  Perm!Parity(A, x) = Perm!Xor(A[x], Perm!Xor(A[x + 5], Perm!Xor(A[x + 10],
                                        Perm!Xor(A[x + 15], A[x + 20]))))
<1> DEFINE R == Perm!Xor(A[x], Perm!Xor(A[x + 5], Perm!Xor(A[x + 10], Perm!Xor(A[x + 15], A[x + 20]))))
<1>1. /\ A[x] \subseteq 0 .. 63 /\ A[x + 5] \subseteq 0 .. 63 /\ A[x + 10] \subseteq 0 .. 63
      /\ A[x + 15] \subseteq 0 .. 63 /\ A[x + 20] \subseteq 0 .. 63
  BY DEF LaneStates, Lane64
<1>2. R \subseteq 0 .. 63
  BY <1>1, XorTwo
<1>3. ASSUME NEW b \in 0 .. 63
      PROVE  b \in Perm!Parity(A, x) <=> b \in R
  <2> DEFINE q(y) == b \in Perm!At(A, x, y)
             U(k) == {y \in 0 .. k : q(y)}
             o(k) == Cardinality(U(k)) % 2 = 1
  <2>1. /\ q(0) <=> b \in A[x]
        /\ q(1) <=> b \in A[x + 5]
        /\ q(2) <=> b \in A[x + 10]
        /\ q(3) <=> b \in A[x + 15]
        /\ q(4) <=> b \in A[x + 20]
    BY DEF Perm!At
  <2> HIDE DEF q
  <2>2. o(0) <=> q(0)
    <3>1. CASE q(0)
      <4>1. U(0) = {0} /\ Cardinality({0}) = 1
        BY <3>1, FS_Singleton
      <4> QED
        BY <3>1, <4>1
    <3>2. CASE ~q(0)
      <4>1. U(0) = {} /\ Cardinality({}) = 0
        BY <3>2, FS_EmptySet
      <4> QED
        BY <3>2, <4>1
    <3> QED
      BY <3>1, <3>2
  <2>3. \A k \in 1 .. 4 : o(k) <=> ~(o(k - 1) <=> q(k))
    <3> TAKE k \in 1 .. 4
    <3>1. U(k - 1) \in SUBSET (0 .. k - 1) /\ k \in Nat
      OBVIOUS
    <3>2. CASE q(k)
      <4>1. U(k) = U(k - 1) \cup {k}
        BY <3>2
      <4>2. o(k) <=> ~o(k - 1)
        <5> HIDE DEF U
        <5> QED
          BY <3>1, <4>1, OneMore
      <4> QED
        BY <3>2, <4>2
    <3>3. CASE ~q(k)
      <4>1. U(k) = U(k - 1)
        BY <3>3
      <4> QED
        BY <3>3, <4>1
    <3> QED
      BY <3>2, <3>3
  <2>4. b \in Perm!Parity(A, x) <=> o(4)
    <3>1. Perm!Parity(A, x) = {c \in 0 .. 63 : Cardinality({y \in 0 .. 4 : c \in Perm!At(A, x, y)}) % 2 = 1}
      BY Zenon DEF Perm!Parity, Perm!Word, Perm!Cardinality, Cardinality
    <3> QED
      BY <3>1 DEF q
  <2> HIDE DEF o
  <2>5. /\ o(1) <=> ~(o(0) <=> q(1))
        /\ o(2) <=> ~(o(1) <=> q(2))
        /\ o(3) <=> ~(o(2) <=> q(3))
        /\ o(4) <=> ~(o(3) <=> q(4))
    <3>1. 1 - 1 = 0 /\ 2 - 1 = 1 /\ 3 - 1 = 2 /\ 4 - 1 = 3
      OBVIOUS
    <3>2. 1 \in 1 .. 4 /\ 2 \in 1 .. 4 /\ 3 \in 1 .. 4 /\ 4 \in 1 .. 4
      OBVIOUS
    <3> QED
      BY <2>3, <3>1, <3>2
  <2>6. b \in R <=> ~(b \in A[x] <=> ~(b \in A[x + 5] <=> ~(b \in A[x + 10]
                        <=> ~(b \in A[x + 15] <=> b \in A[x + 20]))))
    BY XorTwo, Zenon
  <2> QED
    BY <2>1, <2>2, <2>4, <2>5, <2>6
<1>4. Perm!Parity(A, x) \subseteq 0 .. 63
  BY Zenon DEF Perm!Parity, Perm!Word
<1> HIDE DEF R
<1>5. Perm!Parity(A, x) = R
  BY <1>2, <1>3, <1>4, Zenon
<1> QED
  BY <1>5 DEF R
-----------------------------------------------------------------------------
LEMMA RotlFits == \A S \in Lane64, n \in Nat : Perm!Rotl(64, S, n) \in Lane64
  BY SMT DEF Perm!Rotl, Lane64

LEMMA XorFits == \A S, T \in Lane64 : Perm!Xor(S, T) \in Lane64
  BY XorTwo DEF Lane64

\* The two loops of theta.
Bc(A) == [x \in 0 .. 4 |-> Perm!Xor(A[x], Perm!Xor(A[x + 5], Perm!Xor(A[x + 10],
                                      Perm!Xor(A[x + 15], A[x + 20]))))]

LEMMA ThetaIs ==
  ASSUME NEW A \in LaneStates
  PROVE  /\ Perm!ThetaOf(A) = [k \in 0 .. 24 |-> Perm!Xor(A[k], Perm!Xor(Bc(A)[(k + 4) % 5],
                                                  Perm!Rotl(64, Bc(A)[(k + 1) % 5], 1)))]
         /\ Perm!ThetaOf(A) \in LaneStates
<1> DEFINE C == [x \in 0 .. 4 |-> Perm!Parity(A, x)]
<1>1. C = Bc(A)
  BY ParityIs DEF Bc
<1>2. \A k \in 0 .. 24 : /\ ((k % 5) + 4) % 5 = (k + 4) % 5 /\ ((k % 5) + 1) % 5 = (k + 1) % 5
                         /\ (k + 4) % 5 \in 0 .. 4 /\ (k + 1) % 5 \in 0 .. 4
  BY SMT
<1>3. Perm!ThetaOf(A) = [k \in 0 .. 24 |-> Perm!Xor(A[k], Perm!Xor(C[((k % 5) + 4) % 5],
                                             Perm!Rotl(64, C[((k % 5) + 1) % 5], 1)))]
  BY Zenon DEF Perm!ThetaOf, Perm!Lanes
<1>4. \A x \in 0 .. 4 : Bc(A)[x] \in Lane64
  <2> TAKE x \in 0 .. 4
  <2>1. A[x] \in Lane64 /\ A[x + 5] \in Lane64 /\ A[x + 10] \in Lane64 /\ A[x + 15] \in Lane64 /\ A[x + 20] \in Lane64
    BY DEF LaneStates
  <2> QED
    BY <2>1, XorFits DEF Bc
<1> HIDE DEF C
<1>5. Perm!ThetaOf(A) = [k \in 0 .. 24 |-> Perm!Xor(A[k], Perm!Xor(Bc(A)[(k + 4) % 5],
                                             Perm!Rotl(64, Bc(A)[(k + 1) % 5], 1)))]
  BY <1>1, <1>2, <1>3
<1>6. ASSUME NEW k \in 0 .. 24
      PROVE  Perm!Xor(A[k], Perm!Xor(Bc(A)[(k + 4) % 5], Perm!Rotl(64, Bc(A)[(k + 1) % 5], 1))) \in Lane64
  <2>1. A[k] \in Lane64 /\ Bc(A)[(k + 4) % 5] \in Lane64 /\ Bc(A)[(k + 1) % 5] \in Lane64
    BY <1>2, <1>4 DEF LaneStates
  <2>2. Perm!Rotl(64, Bc(A)[(k + 1) % 5], 1) \in Lane64
    BY <2>1, RotlFits
  <2> QED
    BY <2>1, <2>2, XorFits
<1> QED
  BY <1>5, <1>6 DEF LaneStates

\* Where a turn of rho-pi puts the lane in hand, rho and pi put it.
LEMMA RhoPiIs ==
  ASSUME NEW A \in LaneStates
  PROVE  /\ \A j \in 1 .. 24 : Perm!PiOf(Perm!RhoOf(A))[Perm!keccakf_piln[j]]
                                 = Perm!Rotl(64, A[Src(j)], Perm!keccakf_rotc[j])
         /\ Perm!PiOf(Perm!RhoOf(A))[0] = A[0]
         /\ Perm!PiOf(Perm!RhoOf(A)) \in LaneStates
<1> DEFINE B == Perm!RhoOf(A)
           from(k) == (((k % 5) + 3 * (k \div 5)) % 5) + 5 * ((k % 5) % 5)
<1>1. \A k \in 0 .. 24 : B[k] = Perm!Rotl(64, A[k], Perm!Offset[k])
  BY Zenon DEF Perm!RhoOf, Perm!Lanes
<1>2. /\ Perm!PiOf(B) = [k \in 0 .. 24 |-> B[from(k)]]
      /\ \A k \in 0 .. 24 : Perm!PiOf(B)[k] = B[from(k)]
  BY Zenon DEF Perm!PiOf, Perm!Lanes, Perm!At
<1>3. \A j \in 1 .. 24 : /\ Perm!keccakf_piln[j] \in 0 .. 24 /\ Src(j) \in 0 .. 24
                         /\ from(Perm!keccakf_piln[j]) = Src(j)
  <2>1. \A k \in 1 .. 24 : k \in 0 .. 24
    OBVIOUS
  <2> QED
    BY <2>1, Path, PathIs
<1>4. from(0) = 0 /\ \A k \in 0 .. 24 : from(k) \in 0 .. 24
  BY SMT
<1> HIDE DEF B, from
<1>5. \A j \in 1 .. 24 : Perm!PiOf(B)[Perm!keccakf_piln[j]]
                           = Perm!Rotl(64, A[Src(j)], Perm!keccakf_rotc[j])
  BY <1>1, <1>2, <1>3, OffsetIs
<1>6. Perm!PiOf(B)[0] = A[0]
  <2>1. A[0] \in Lane64 /\ 0 \in 0 .. 24
    BY DEF LaneStates
  <2>2. Perm!Rotl(64, A[0], 0) = A[0]
    BY <2>1, SMT DEF Perm!Rotl, Lane64
  <2> QED
    BY <1>1, <1>2, <1>4, <2>1, <2>2, OffsetIs
<1>7. \A k \in 0 .. 24 : B[k] \in Lane64
  <2>1. \A j \in 1 .. 24 : Perm!keccakf_rotc[j] \in Nat
    BY SMT DEF Perm!keccakf_rotc
  <2>2. \A k \in 0 .. 24 : k = 0 \/ \E j \in 1 .. 24 : k = Src(j)
    <3> TAKE k \in 0 .. 24
    <3>1. k = 0 \/ k = 1 \/ k \in 2 .. 24
      OBVIOUS
    <3>2. ASSUME k \in 2 .. 24 PROVE \E j \in 1 .. 24 : k = Src(j)
      <4>1. k \in 1 .. 24 /\ Turn[k] \in 1 .. 24 /\ Perm!keccakf_piln[Turn[k]] = k
        BY <3>2, Path
      <4>2. Turn[k] # 24
        <5>1. Perm!keccakf_piln[24] = 1
          BY DEF Perm!keccakf_piln
        <5> QED
          BY <3>2, <4>1, <5>1
      <4>3. Turn[k] + 1 \in 1 .. 24 /\ Turn[k] + 1 # 1 /\ (Turn[k] + 1) - 1 = Turn[k]
        BY <4>1, <4>2
      <4>4. Src(Turn[k] + 1) = k
        BY <4>1, <4>3 DEF Src
      <4> QED
        BY <4>3, <4>4
    <3>3. Src(1) = 1 /\ 1 \in 1 .. 24
      BY DEF Src
    <3> QED
      BY <3>1, <3>2, <3>3
  <2> TAKE k \in 0 .. 24
  <2>3. Perm!Offset[k] \in Nat
    <3>1. CASE k = 0
      BY <3>1, OffsetIs
    <3>2. CASE \E j \in 1 .. 24 : k = Src(j)
      BY <3>2, <2>1, OffsetIs
    <3> QED
      BY <2>2, <3>1, <3>2
  <2>4. A[k] \in Lane64
    BY DEF LaneStates
  <2> QED
    BY <1>1, <2>3, <2>4, RotlFits
<1>8. Perm!PiOf(B) \in LaneStates
  BY <1>2, <1>4, <1>7 DEF LaneStates
<1> QED
  BY <1>5, <1>6, <1>8 DEF B

\* A lane of chi, by the row it is in.
LEMMA ChiIs ==
  ASSUME NEW A \in LaneStates
  PROVE  /\ \A i5 \in {0, 5, 10, 15, 20}, k \in 0 .. 24 : k \in i5 .. i5 + 4 =>
              Perm!ChiOf(A)[k] = Perm!Xor(A[k], Perm!Not(64, A[i5 + ((k - i5 + 1) % 5)])
                                                  \cap A[i5 + ((k - i5 + 2) % 5)])
         /\ Perm!ChiOf(A) \in LaneStates
<1> DEFINE P(k, d) == A[(((k % 5) + d) % 5) + 5 * ((k \div 5) % 5)]
<1>1. /\ Perm!ChiOf(A) = [k \in 0 .. 24 |-> Perm!Xor(P(k, 0), Perm!Not(64, P(k, 1)) \cap P(k, 2))]
      /\ \A k \in 0 .. 24 : Perm!ChiOf(A)[k] = Perm!Xor(P(k, 0), Perm!Not(64, P(k, 1)) \cap P(k, 2))
  BY Zenon DEF Perm!ChiOf, Perm!Lanes, Perm!At
<1>2. \A k \in 0 .. 24, d \in 0 .. 2 : P(k, d) \in Lane64
  <2>1. \A k \in 0 .. 24, d \in 0 .. 2 : (((k % 5) + d) % 5) + 5 * ((k \div 5) % 5) \in 0 .. 24
    BY SMT
  <2> QED
    BY <2>1 DEF LaneStates
<1>3. \A i5 \in {0, 5, 10, 15, 20}, k \in 0 .. 24 : k \in i5 .. i5 + 4 =>
         /\ (((k % 5) + 0) % 5) + 5 * ((k \div 5) % 5) = k
         /\ (((k % 5) + 1) % 5) + 5 * ((k \div 5) % 5) = i5 + ((k - i5 + 1) % 5)
         /\ (((k % 5) + 2) % 5) + 5 * ((k \div 5) % 5) = i5 + ((k - i5 + 2) % 5)
  BY SMT
<1>4. \A i5 \in {0, 5, 10, 15, 20}, k \in 0 .. 24 : k \in i5 .. i5 + 4 =>
         P(k, 0) = A[k] /\ P(k, 1) = A[i5 + ((k - i5 + 1) % 5)] /\ P(k, 2) = A[i5 + ((k - i5 + 2) % 5)]
  <2> SUFFICES ASSUME NEW i5 \in {0, 5, 10, 15, 20}, NEW k \in 0 .. 24, k \in i5 .. i5 + 4
               PROVE  /\ P(k, 0) = A[k] /\ P(k, 1) = A[i5 + ((k - i5 + 1) % 5)]
                      /\ P(k, 2) = A[i5 + ((k - i5 + 2) % 5)]
    BY Zenon
  <2>1. /\ (((k % 5) + 0) % 5) + 5 * ((k \div 5) % 5) = k
        /\ (((k % 5) + 1) % 5) + 5 * ((k \div 5) % 5) = i5 + ((k - i5 + 1) % 5)
        /\ (((k % 5) + 2) % 5) + 5 * ((k \div 5) % 5) = i5 + ((k - i5 + 2) % 5)
    BY <1>3
  <2> QED
    BY <2>1, Zenon
<1> HIDE DEF P
<1>5. \A k \in 0 .. 24 : Perm!Xor(P(k, 0), Perm!Not(64, P(k, 1)) \cap P(k, 2)) \in Lane64
  <2> TAKE k \in 0 .. 24
  <2>1. P(k, 0) \in Lane64 /\ P(k, 2) \in Lane64
    BY <1>2
  <2>2. Perm!Not(64, P(k, 1)) \cap P(k, 2) \in Lane64
    BY <2>1 DEF Lane64
  <2> QED
    BY <2>1, <2>2, XorFits
<1>6. Perm!ChiOf(A) \in LaneStates
  BY <1>1, <1>5 DEF LaneStates
<1>7. ASSUME NEW i5 \in {0, 5, 10, 15, 20}, NEW k \in 0 .. 24, k \in i5 .. i5 + 4
      PROVE  Perm!ChiOf(A)[k] = Perm!Xor(A[k], Perm!Not(64, A[i5 + ((k - i5 + 1) % 5)])
                                                 \cap A[i5 + ((k - i5 + 2) % 5)])
  <2>1. /\ P(k, 0) = A[k] /\ P(k, 1) = A[i5 + ((k - i5 + 1) % 5)]
        /\ P(k, 2) = A[i5 + ((k - i5 + 2) % 5)]
    BY <1>4, <1>7
  <2>2. Perm!ChiOf(A)[k] = Perm!Xor(P(k, 0), Perm!Not(64, P(k, 1)) \cap P(k, 2))
    BY <1>1
  <2> QED
    BY <2>1, <2>2, Zenon
<1> QED
  BY <1>6, <1>7, Zenon
-----------------------------------------------------------------------------
AfterTheta == Perm!ThetaOf(before)
AfterPi    == Perm!PiOf(Perm!RhoOf(AfterTheta))
AfterChi   == Perm!ChiOf(AfterPi)

\* Where a round is: rho-pi has put a lane at each place it has visited and has the lane of
\* the next in hand, which is still as theta left it; chi has done the rows before place.
PermInv ==
  /\ rounds \in 0 .. 24 /\ before \in LaneStates
  /\ \/ stage = "theta" /\ lanes = before
     \/ /\ stage = "rhopi" /\ place \in 0 .. 24 /\ hand = AfterTheta[Src(place + 1)]
        /\ lanes = [k \in 0 .. 24 |->
                      IF k # 0 /\ Turn[k] <= place THEN AfterPi[k] ELSE AfterTheta[k]]
     \/ /\ stage = "chi" /\ place \in {0, 5, 10, 15, 20, 25}
        /\ lanes = [k \in 0 .. 24 |-> IF k < place THEN AfterChi[k] ELSE AfterPi[k]]

LEMMA AfterFits ==
  ASSUME before \in LaneStates
  PROVE  AfterTheta \in LaneStates /\ AfterPi \in LaneStates /\ AfterChi \in LaneStates
<1>1. AfterTheta \in LaneStates
  BY ThetaIs DEF AfterTheta
<1>2. AfterPi \in LaneStates
  BY <1>1, RhoPiIs DEF AfterPi
<1> QED
  BY <1>1, <1>2, ChiIs DEF AfterChi

LEMMA ThetaKeeps == PermInv /\ Perm!Theta => PermInv'
<1> SUFFICES ASSUME PermInv, Perm!Theta PROVE PermInv'
  OBVIOUS
<1>1. /\ rounds \in 0 .. 24 /\ before \in LaneStates /\ stage = "theta" /\ lanes = before
      /\ rounds' = rounds /\ before' = before /\ stage' = "rhopi" /\ place' = 0
      /\ hand' = lanes'[1]
  BY DEF PermInv, Perm!Theta
<1>2. lanes' = [k \in 0 .. 24 |-> Perm!Xor(lanes[k], Perm!Xor(Bc(lanes)[(k + 4) % 5],
                                     Perm!Rotl(64, Bc(lanes)[(k + 1) % 5], 1)))]
  BY Zenon DEF Perm!Theta, Perm!Lanes, Bc
<1>3. lanes' = AfterTheta
  BY <1>1, <1>2, ThetaIs DEF AfterTheta
<1>4. AfterTheta' = AfterTheta /\ AfterPi' = AfterPi
  BY <1>1 DEF AfterTheta, AfterPi
<1>5. AfterTheta \in LaneStates
  BY <1>1, AfterFits
<1>6. \A k \in 0 .. 24 : ~(k # 0 /\ Turn[k] <= 0)
  <2>1. \A k \in 0 .. 24 : k # 0 => k \in 1 .. 24
    OBVIOUS
  <2> QED
    BY <2>1, Path
<1>7. lanes' = [k \in 0 .. 24 |->
                  IF k # 0 /\ Turn[k] <= place' THEN AfterPi'[k] ELSE AfterTheta'[k]]
  <2>1. AfterTheta = [k \in 0 .. 24 |-> AfterTheta[k]]
    BY <1>5 DEF LaneStates
  <2>2. \A k \in 0 .. 24 :
          (IF k # 0 /\ Turn[k] <= place' THEN AfterPi'[k] ELSE AfterTheta'[k]) = AfterTheta[k]
    BY <1>1, <1>4, <1>6
  <2> QED
    BY <1>3, <2>1, <2>2
<1>8. hand' = AfterTheta'[Src(place' + 1)]
  <2>1. place' + 1 = 1 /\ Src(1) = 1
    BY <1>1 DEF Src
  <2> QED
    BY <1>1, <1>3, <1>4, <2>1
<1>9. rounds' \in 0 .. 24 /\ before' \in LaneStates /\ stage' = "rhopi" /\ place' \in 0 .. 24
  BY <1>1
<1> QED
  BY <1>7, <1>8, <1>9 DEF PermInv

LEMMA RhoPiKeeps == PermInv /\ Perm!RhoPi => PermInv'
<1> SUFFICES ASSUME PermInv, Perm!RhoPi PROVE PermInv'
  OBVIOUS
<1> DEFINE j == Perm!keccakf_piln[place + 1]
<1>1. /\ rounds \in 0 .. 24 /\ before \in LaneStates /\ stage = "rhopi" /\ place \in 0 .. 23
      /\ hand = AfterTheta[Src(place + 1)]
      /\ lanes = [k \in 0 .. 24 |->
                    IF k # 0 /\ Turn[k] <= place THEN AfterPi[k] ELSE AfterTheta[k]]
      /\ rounds' = rounds /\ before' = before /\ stage' = "rhopi" /\ place' = place + 1
  BY DEF PermInv, Perm!RhoPi
<1>2. lanes' = [lanes EXCEPT ![j] = Perm!Rotl(64, hand, Perm!keccakf_rotc[place + 1])]
      /\ hand' = lanes[j]
  BY Zenon DEF Perm!RhoPi
<1>3. /\ place + 1 \in 1 .. 24 /\ j \in 1 .. 24 /\ j \in 0 .. 24 /\ Turn[j] = place + 1
      /\ \A k \in 1 .. 24 : Turn[k] \in 1 .. 24 /\ (Turn[k] = place + 1 => k = j)
  <2>1. place + 1 \in 1 .. 24
    BY <1>1
  <2>2. j \in 1 .. 24 /\ Turn[j] = place + 1
    BY <2>1, Path
  <2>3. \A k \in 1 .. 24 : Turn[k] \in 1 .. 24 /\ (Turn[k] = place + 1 => k = j)
    BY Path
  <2> QED
    BY <2>1, <2>2, <2>3
<1>4. AfterTheta' = AfterTheta /\ AfterPi' = AfterPi
  BY <1>1 DEF AfterTheta, AfterPi
<1>5. AfterPi[j] = Perm!Rotl(64, hand, Perm!keccakf_rotc[place + 1])
  <2>1. AfterTheta \in LaneStates
    BY <1>1, AfterFits
  <2> QED
    BY <2>1, <1>1, <1>3, RhoPiIs DEF AfterPi
<1> HIDE DEF j
<1>6. lanes[j] = AfterTheta[j]
  BY <1>1, <1>3
<1>7. hand' = AfterTheta'[Src(place' + 1)]
  <2>1. place' + 1 # 1 /\ (place' + 1) - 1 = place + 1
    BY <1>1
  <2>2. Src(place' + 1) = j
    BY <2>1 DEF Src, j
  <2> QED
    BY <1>2, <1>4, <1>6, <2>2
<1>8. lanes' = [k \in 0 .. 24 |->
                  IF k # 0 /\ Turn[k] <= place' THEN AfterPi'[k] ELSE AfterTheta'[k]]
  <2>1. lanes' = [k \in 0 .. 24 |-> IF k = j THEN AfterPi[j] ELSE lanes[k]]
    BY <1>1, <1>2, <1>3, <1>5
  <2>2. ASSUME NEW k \in 0 .. 24
        PROVE  (IF k = j THEN AfterPi[j] ELSE lanes[k])
                 = (IF k # 0 /\ Turn[k] <= place' THEN AfterPi'[k] ELSE AfterTheta'[k])
    <3>1. lanes[k] = IF k # 0 /\ Turn[k] <= place THEN AfterPi[k] ELSE AfterTheta[k]
      BY <1>1
    <3>2. k # j /\ k # 0 => (Turn[k] <= place' <=> Turn[k] <= place)
      <4>1. ASSUME k # j, k # 0 PROVE Turn[k] <= place' <=> Turn[k] <= place
        <5>1. k \in 1 .. 24
          BY <4>1
        <5>2. Turn[k] \in 1 .. 24 /\ Turn[k] # place + 1
          BY <4>1, <5>1, <1>3
        <5> QED
          BY <5>2, <1>1
      <4> QED
        BY <4>1
    <3>3. k = j => k # 0 /\ Turn[k] <= place'
      BY <1>1, <1>3
    <3> QED
      BY <1>4, <3>1, <3>2, <3>3
  <2> QED
    BY <2>1, <2>2
<1>9. rounds' \in 0 .. 24 /\ before' \in LaneStates /\ stage' = "rhopi" /\ place' \in 0 .. 24
  BY <1>1
<1> QED
  BY <1>7, <1>8, <1>9 DEF PermInv

LEMMA RhoPiEndsKeeps == PermInv /\ Perm!RhoPiEnds => PermInv'
<1> SUFFICES ASSUME PermInv, Perm!RhoPiEnds PROVE PermInv'
  OBVIOUS
<1>1. /\ rounds \in 0 .. 24 /\ before \in LaneStates /\ stage = "rhopi" /\ place = 24
      /\ lanes = [k \in 0 .. 24 |->
                    IF k # 0 /\ Turn[k] <= place THEN AfterPi[k] ELSE AfterTheta[k]]
      /\ lanes' = lanes /\ rounds' = rounds /\ before' = before /\ stage' = "chi" /\ place' = 0
  BY DEF PermInv, Perm!RhoPiEnds
<1>2. AfterPi' = AfterPi /\ AfterChi' = AfterChi
  BY <1>1 DEF AfterTheta, AfterPi, AfterChi
<1>3. AfterPi[0] = AfterTheta[0]
  <2>1. AfterTheta \in LaneStates
    BY <1>1, AfterFits
  <2> QED
    BY <2>1, RhoPiIs DEF AfterPi
<1>4. ASSUME NEW k \in 0 .. 24
      PROVE  (IF k # 0 /\ Turn[k] <= place THEN AfterPi[k] ELSE AfterTheta[k])
               = (IF k < place' THEN AfterChi'[k] ELSE AfterPi'[k])
  <2>1. ~(k < place')
    BY <1>1
  <2>2. k # 0 => Turn[k] <= place
    <3>1. k # 0 => k \in 1 .. 24
      OBVIOUS
    <3> QED
      BY <3>1, <1>1, Path
  <2> QED
    BY <1>2, <1>3, <2>1, <2>2
<1>5. lanes' = [k \in 0 .. 24 |-> IF k < place' THEN AfterChi'[k] ELSE AfterPi'[k]]
  BY <1>1, <1>4
<1>6. rounds' \in 0 .. 24 /\ before' \in LaneStates /\ stage' = "chi"
      /\ place' \in {0, 5, 10, 15, 20, 25}
  BY <1>1
<1> QED
  BY <1>5, <1>6 DEF PermInv

\* A row does not read what the rows before it became.
LEMMA ChiKeeps == PermInv /\ Perm!Chi => PermInv'
<1> SUFFICES ASSUME PermInv, Perm!Chi PROVE PermInv'
  OBVIOUS
<1>1. /\ rounds \in 0 .. 24 /\ before \in LaneStates /\ stage = "chi"
      /\ place \in {0, 5, 10, 15, 20}
      /\ lanes = [k \in 0 .. 24 |-> IF k < place THEN AfterChi[k] ELSE AfterPi[k]]
      /\ rounds' = rounds /\ before' = before /\ stage' = "chi" /\ place' = place + 5
  BY DEF PermInv, Perm!Chi
<1>2. AfterPi' = AfterPi /\ AfterChi' = AfterChi
  BY <1>1 DEF AfterTheta, AfterPi, AfterChi
<1> DEFINE New(k) == Perm!Xor(lanes[k], Perm!Not(64, lanes[place + ((k - place + 1) % 5)])
                                          \cap lanes[place + ((k - place + 2) % 5)])
<1>3. lanes' = [k \in 0 .. 24 |-> IF k \in place .. place + 4 THEN New(k) ELSE lanes[k]]
  BY Zenon DEF Perm!Chi, Perm!Lanes
<1>4. ASSUME NEW k \in 0 .. 24, k \in place .. place + 4
      PROVE  New(k) = AfterChi[k]
  <2> DEFINE a == place + ((k - place + 1) % 5)
             b == place + ((k - place + 2) % 5)
  <2>1. a \in 0 .. 24 /\ b \in 0 .. 24 /\ ~(a < place) /\ ~(b < place) /\ ~(k < place)
    BY <1>1, <1>4, SMT
  <2>2. AfterPi \in LaneStates
    BY <1>1, AfterFits
  <2>3. AfterChi[k] = Perm!Xor(AfterPi[k], Perm!Not(64, AfterPi[a]) \cap AfterPi[b])
    <3>1. \A i5 \in {0, 5, 10, 15, 20}, m \in 0 .. 24 : m \in i5 .. i5 + 4 =>
            Perm!ChiOf(AfterPi)[m]
              = Perm!Xor(AfterPi[m], Perm!Not(64, AfterPi[i5 + ((m - i5 + 1) % 5)])
                                       \cap AfterPi[i5 + ((m - i5 + 2) % 5)])
      BY <2>2, ChiIs, Zenon
    <3> QED
      BY <1>1, <1>4, <3>1, Zenon DEF AfterChi
  <2>4. New(k) = Perm!Xor(lanes[k], Perm!Not(64, lanes[a]) \cap lanes[b])
    OBVIOUS
  <2> HIDE DEF New, a, b
  <2>5. lanes[k] = AfterPi[k] /\ lanes[a] = AfterPi[a] /\ lanes[b] = AfterPi[b]
    BY <1>1, <2>1
  <2> QED
    BY <2>3, <2>4, <2>5
<1> HIDE DEF New
<1>5. ASSUME NEW k \in 0 .. 24
      PROVE  (IF k \in place .. place + 4 THEN New(k) ELSE lanes[k])
               = (IF k < place' THEN AfterChi'[k] ELSE AfterPi'[k])
  <2>1. lanes[k] = IF k < place THEN AfterChi[k] ELSE AfterPi[k]
    BY <1>1
  <2>2. k < place' <=> k < place \/ k \in place .. place + 4
    BY <1>1, SMT
  <2>3. k \in place .. place + 4 => ~(k < place)
    BY <1>1, SMT
  <2> QED
    BY <1>2, <1>4, <2>1, <2>2, <2>3
<1>6. lanes' = [k \in 0 .. 24 |-> IF k < place' THEN AfterChi'[k] ELSE AfterPi'[k]]
  BY <1>3, <1>5
<1>7. rounds' \in 0 .. 24 /\ before' \in LaneStates /\ stage' = "chi"
      /\ place' \in {0, 5, 10, 15, 20, 25}
  BY <1>1
<1> QED
  BY <1>6, <1>7 DEF PermInv

LEMMA IotaKeeps ==
  PermInv /\ Perm!Iota => PermInv' /\ lanes' = Perm!Round(before, rounds)
<1> SUFFICES ASSUME PermInv, Perm!Iota
             PROVE  PermInv' /\ lanes' = Perm!Round(before, rounds)
  OBVIOUS
<1>1. /\ rounds \in 0 .. 23 /\ before \in LaneStates /\ place = 25
      /\ lanes = [k \in 0 .. 24 |-> IF k < place THEN AfterChi[k] ELSE AfterPi[k]]
      /\ lanes' = [lanes EXCEPT ![0] = Perm!Xor(@, Perm!keccakf_rndc[rounds + 1])]
      /\ rounds' = rounds + 1 /\ before' = lanes' /\ stage' = "theta"
  BY DEF PermInv, Perm!Iota
<1>2. AfterChi \in LaneStates
  BY <1>1, AfterFits
<1>3. lanes = AfterChi
  <2>1. \A k \in 0 .. 24 : k < place
    BY <1>1
  <2>2. lanes = [k \in 0 .. 24 |-> AfterChi[k]]
    BY <1>1, <2>1
  <2> QED
    BY <2>2, <1>2 DEF LaneStates
<1> DEFINE c == Perm!keccakf_rndc[rounds + 1]
<1>4. Perm!Rc(rounds) = c /\ c \in Lane64
  <2>1. rounds + 1 \in 1 .. 24
    BY <1>1
  <2>2. c \subseteq {0, 1, 3, 7, 15, 31, 63}
    BY <2>1, ConstantsFollow
  <2> HIDE DEF c
  <2>3. c \in Lane64
    BY <2>2 DEF Lane64
  <2> QED
    BY <1>1, <2>3, ConstantIs DEF c
<1> HIDE DEF c
<1>5. lanes' = [AfterChi EXCEPT ![0] = Perm!Xor(@, c)]
  BY <1>1, <1>3 DEF c
<1>6. lanes' = Perm!Round(before, rounds)
  BY <1>4, <1>5, Zenon DEF Perm!Round, Perm!IotaOf, AfterChi, AfterPi, AfterTheta
<1>7. lanes' \in LaneStates
  <2>1. Perm!Xor(AfterChi[0], c) \in Lane64
    BY <1>2, <1>4, XorFits DEF LaneStates
  <2> QED
    BY <1>2, <1>5, <2>1 DEF LaneStates
<1>8. rounds' \in 0 .. 24
  BY <1>1
<1> QED
  BY <1>1, <1>6, <1>7, <1>8 DEF PermInv

\* Whatever the 25 lanes hold, each round of keccakf, with the lanes in one array, one in hand
\* along keccakf_piln and the rows of chi one after another, is the round FIPS 202 defines,
\* with the rotations and constants it defines.
THEOREM KeccakCorrect ==
  ASSUME StatesFit
  PROVE  Perm!Spec => Perm!RoundIsKeccak
<1>1. Perm!Init => PermInv
  <2> SUFFICES ASSUME Perm!Init PROVE PermInv
    OBVIOUS
  <2>1. lanes \in States /\ before = lanes /\ rounds = 0 /\ stage = "theta"
    BY DEF Perm!Init
  <2>2. lanes \in LaneStates
    BY <2>1 DEF StatesFit
  <2> QED
    BY <2>1, <2>2 DEF PermInv
<1>2. PermInv /\ [Perm!Next]_(Perm!vars) =>
        PermInv' /\ (rounds' = rounds + 1 => lanes' = Perm!Round(before, rounds))
  <2> SUFFICES ASSUME PermInv, [Perm!Next]_(Perm!vars)
               PROVE  PermInv' /\ (rounds' = rounds + 1 => lanes' = Perm!Round(before, rounds))
    OBVIOUS
  <2>1. rounds' = rounds => rounds' # rounds + 1
    BY DEF PermInv
  <2>2. CASE Perm!Theta
    BY <2>1, <2>2, ThetaKeeps DEF Perm!Theta
  <2>3. CASE Perm!RhoPi
    BY <2>1, <2>3, RhoPiKeeps DEF Perm!RhoPi
  <2>4. CASE Perm!RhoPiEnds
    BY <2>1, <2>4, RhoPiEndsKeeps DEF Perm!RhoPiEnds
  <2>5. CASE Perm!Chi
    BY <2>1, <2>5, ChiKeeps DEF Perm!Chi
  <2>6. CASE Perm!Iota
    BY <2>6, IotaKeeps
  <2>7. CASE UNCHANGED Perm!vars
    <3>1. UNCHANGED <<lanes, rounds, stage, place, hand, before>>
      BY <2>7 DEF Perm!vars
    <3>2. AfterTheta' = AfterTheta /\ AfterPi' = AfterPi /\ AfterChi' = AfterChi
      BY <3>1 DEF AfterTheta, AfterPi, AfterChi
    <3>3. PermInv'
      BY <3>1, <3>2 DEF PermInv
    <3> QED
      BY <2>1, <3>1, <3>3
  <2> QED
    BY <2>2, <2>3, <2>4, <2>5, <2>6, <2>7 DEF Perm!Next, Perm!Return
<1>3. PermInv /\ [Perm!Next]_(Perm!vars) =>
        [rounds' = rounds + 1 => lanes' = Perm!Round(before, rounds)]_(Perm!vars)
  BY <1>2
<1>4. PermInv /\ [Perm!Next]_(Perm!vars) => PermInv'
  BY <1>2
<1> QED
  BY <1>1, <1>3, <1>4, PTL DEF Perm!Spec, Perm!RoundIsKeccak
=============================================================================
