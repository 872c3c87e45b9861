---------------------------- MODULE ShaMdProofs ----------------------------
(***************************************************************************)
(* The SHA-2 context of md_helper.i follows the stream of bytes, on both   *)
(* of its paths, and implements HashStream: for blocks and words of any    *)
(* size and messages of any length that the closing field can hold.        *)
(***************************************************************************)
EXTENDS ShaMd, SequenceTheorems, NumberTheorems

LEMMA MulNext == \A a, b \in Nat : a * b \in Nat /\ (a + 1) * b = a * b + b
  BY SMT

LEMMA MulMono == \A a, b, c \in Nat : a <= b => a * c <= b * c
  BY SMT

\* The quotient and the remainder of a division are determined by what they add up to.
LEMMA DivUnique ==
  ASSUME NEW d \in Nat \ {0}, NEW q \in Nat, NEW r \in 0 .. d - 1
  PROVE  (q * d + r) \div d = q /\ (q * d + r) % d = r
  BY SMT

LEMMA DivSum ==
  ASSUME NEW d \in Nat \ {0}, NEW x \in Nat
  PROVE  /\ x = (x \div d) * d + (x % d) /\ x \div d \in Nat /\ x % d \in 0 .. d - 1
  BY SMT

LEMMA Sizes ==
  /\ BlockLen \in Nat \ {0} /\ WordLen \in Nat \ {0} /\ 2 * WordLen < BlockLen
  /\ \A i : i \in Offsets <=> i \in Nat /\ i < BlockLen
  /\ Block = [Offsets -> 0 .. 255]
<1>1. BlockLen \in Nat \ {0} /\ WordLen \in Nat \ {0} /\ 2 * WordLen < BlockLen
  BY BlockAssumption, SMT
<1> QED
  BY <1>1, SMT DEF Offsets, Block

\* The blocks and the beginning of the buffer are the first x bytes of f.
Holds(bl, bu, f, x) ==
  \E n \in Offsets :
    /\ x = Len(bl) * BlockLen + n /\ x <= Len(f)
    /\ \A b \in 1 .. Len(bl) : \A i \in Offsets : bl[b][i] = f[(b - 1) * BlockLen + i + 1]
    /\ \A i \in 0 .. n - 1 : bu[i] = f[Len(bl) * BlockLen + i + 1]

\* A byte of a complete block lies before the bytes of the next.
LEMMA InsideBlocks ==
  ASSUME NEW B \in Nat, NEW b \in 1 .. B, NEW i \in Offsets
  PROVE  (b - 1) * BlockLen + i + 1 \in 1 .. B * BlockLen
<1>1. BlockLen \in Nat /\ i \in Nat /\ i < BlockLen
  BY Sizes
<1>2. b - 1 \in Nat /\ b <= B /\ b \in Nat
  BY SMT
<1>3. (b - 1) * BlockLen \in Nat /\ b * BlockLen = (b - 1) * BlockLen + BlockLen
  <2>1. ((b - 1) + 1) * BlockLen = (b - 1) * BlockLen + BlockLen /\ (b - 1) * BlockLen \in Nat
    BY <1>1, <1>2, MulNext
  <2> QED
    BY <2>1, <1>2, SMT
<1>4. b * BlockLen <= B * BlockLen /\ B * BlockLen \in Nat
  BY <1>1, <1>2, MulMono, MulNext
<1> QED
  BY <1>1, <1>3, <1>4, SMT

LEMMA HoldsMore ==
  ASSUME NEW bl \in Seq(Block), NEW bu \in Block, NEW f \in Seq(0 .. 255), NEW c \in Seq(0 .. 255),
         NEW x \in Nat, Holds(bl, bu, f, x)
  PROVE  Holds(bl, bu, f \o c, x)
<1>1. PICK n \in Offsets :
        /\ x = Len(bl) * BlockLen + n /\ x <= Len(f)
        /\ \A b \in 1 .. Len(bl) : \A i \in Offsets : bl[b][i] = f[(b - 1) * BlockLen + i + 1]
        /\ \A i \in 0 .. n - 1 : bu[i] = f[Len(bl) * BlockLen + i + 1]
  BY DEF Holds
<1>2. /\ Len(f) \in Nat /\ Len(bl) \in Nat /\ n \in Nat /\ Len(f \o c) \in Nat
      /\ Len(f) <= Len(f \o c) /\ Len(bl) * BlockLen \in Nat
      /\ \A k \in 1 .. Len(f) : (f \o c)[k] = f[k]
  <2>1. Len(bl) * BlockLen \in Nat
    BY Sizes, MulNext
  <2> QED
    BY <2>1, Sizes, SMT
<1>3. ASSUME NEW b \in 1 .. Len(bl), NEW i \in Offsets
      PROVE  bl[b][i] = (f \o c)[(b - 1) * BlockLen + i + 1]
  <2> DEFINE k == (b - 1) * BlockLen + i + 1
  <2>1. k \in 1 .. Len(bl) * BlockLen
    BY <1>2, InsideBlocks
  <2>2. bl[b][i] = f[k]
    BY <1>1
  <2> HIDE DEF k
  <2>3. k \in 1 .. Len(f)
    BY <1>1, <1>2, <2>1, SMT
  <2> QED
    BY <1>2, <2>2, <2>3 DEF k
<1>4. ASSUME NEW i \in 0 .. n - 1
      PROVE  bu[i] = (f \o c)[Len(bl) * BlockLen + i + 1]
  <2> DEFINE k == Len(bl) * BlockLen + i + 1
  <2>1. bu[i] = f[k]
    BY <1>1
  <2>2. k \in 1 .. Len(f)
    BY <1>1, <1>2, SMT
  <2> HIDE DEF k
  <2> QED
    BY <1>2, <2>1, <2>2 DEF k
<1>5. x <= Len(f \o c)
  BY <1>1, <1>2, SMT
<1> QED
  BY <1>1, <1>3, <1>4, <1>5 DEF Holds

\* memcpy of at most what is missing in the buffer.
LEMMA HoldsCopy ==
  ASSUME NEW bl \in Seq(Block), NEW bu \in Block, NEW f \in Seq(0 .. 255), NEW x \in Nat,
         Holds(bl, bu, f, x), NEW n \in Nat, n = x % BlockLen, NEW len \in Nat,
         x + len <= Len(f), n + len <= BlockLen,
         NEW new \in Block,
         \A i \in Offsets : new[i] = IF i \in n .. n + len - 1 THEN f[x + (i - n) + 1] ELSE bu[i]
  PROVE  /\ n + len < BlockLen => Holds(bl, new, f, x + len)
         /\ n + len = BlockLen => Holds(Append(bl, new), new, f, x + len)
<1>1. /\ BlockLen \in Nat \ {0} /\ Len(bl) \in Nat /\ Len(bl) * BlockLen \in Nat /\ Len(f) \in Nat
      /\ (Len(bl) + 1) * BlockLen = Len(bl) * BlockLen + BlockLen
  BY Sizes, MulNext
<1> DEFINE base == Len(bl) * BlockLen
<1>2. /\ x = base + n /\ n < BlockLen
      /\ \A b \in 1 .. Len(bl) : \A i \in Offsets : bl[b][i] = f[(b - 1) * BlockLen + i + 1]
      /\ \A i \in 0 .. n - 1 : bu[i] = f[base + i + 1]
  <2>1. PICK m \in Offsets :
          /\ x = Len(bl) * BlockLen + m /\ x <= Len(f)
          /\ \A b \in 1 .. Len(bl) : \A i \in Offsets : bl[b][i] = f[(b - 1) * BlockLen + i + 1]
          /\ \A i \in 0 .. m - 1 : bu[i] = f[Len(bl) * BlockLen + i + 1]
    BY DEF Holds
  <2>2. m \in 0 .. BlockLen - 1
    BY DEF Offsets
  <2>3. n = m
    BY <1>1, <2>1, <2>2, DivUnique
  <2>4. n < BlockLen
    BY <1>1, <2>2, <2>3, SMT
  <2> QED
    BY <2>1, <2>3, <2>4
<1> HIDE DEF base
<1>3. base \in Nat
  BY <1>1 DEF base
<1>4. ASSUME NEW i \in 0 .. n + len - 1
      PROVE  new[i] = f[base + i + 1]
  <2>1. i \in Offsets /\ i \in Nat
    BY <1>1, SMT DEF Offsets
  <2>2. CASE i < n
    <3>1. i \in 0 .. n - 1 /\ i \notin n .. n + len - 1
      BY <2>1, <2>2, SMT
    <3> QED
      BY <1>2, <2>1, <3>1
  <2>3. CASE i >= n
    <3>1. i \in n .. n + len - 1 /\ x + (i - n) + 1 = base + i + 1
      BY <1>2, <1>3, <2>1, <2>3, SMT
    <3> QED
      BY <2>1, <3>1
  <2> QED
    BY <2>1, <2>2, <2>3, SMT
<1>5. CASE n + len < BlockLen
  <2>1. n + len \in Nat /\ x + len = base + (n + len)
    BY <1>2, <1>3, SMT
  <2>2. n + len \in Offsets
    BY <1>5, <2>1, Sizes
  <2>3. ~(n + len = BlockLen)
    BY <1>1, <1>5, <2>1, SMT
  <2> QED
    BY <1>2, <1>4, <2>1, <2>2, <2>3 DEF Holds, base
<1>6. CASE n + len = BlockLen
  <2> DEFINE al == Append(bl, new)
  <2>1. /\ Len(al) = Len(bl) + 1 /\ al[Len(bl) + 1] = new
        /\ \A b \in 1 .. Len(bl) : al[b] = bl[b]
    BY SMT
  <2> HIDE DEF al
  <2>2. 0 \in Offsets /\ x + len = Len(al) * BlockLen + 0
    <3>1. Len(al) * BlockLen = base + BlockLen
      BY <1>1, <2>1 DEF base
    <3>2. x + len = (base + BlockLen) + 0
      <4>1. x = base + n /\ n \in Nat /\ len \in Nat /\ n + len = BlockLen /\ BlockLen \in Nat
        BY <1>1, <1>2, <1>6
      <4> QED
        BY <1>3, <4>1, SMT
    <3>3. 0 \in Offsets
      BY <1>1, SMT DEF Offsets
    <3> QED
      BY <3>1, <3>2, <3>3
  <2>3. ASSUME NEW b \in 1 .. Len(al), NEW i \in Offsets
        PROVE  al[b][i] = f[(b - 1) * BlockLen + i + 1]
    <3>1. CASE b \in 1 .. Len(bl)
      BY <1>2, <2>1, <3>1
    <3>2. CASE b = Len(bl) + 1
      <4>1. (b - 1) * BlockLen = base
        <5>1. b - 1 = Len(bl)
          BY <1>1, <3>2, SMT
        <5> QED
          BY <5>1 DEF base
      <4>2. i \in 0 .. n + len - 1
        BY <1>6, Sizes, SMT
      <4> QED
        BY <1>4, <2>1, <3>2, <4>1, <4>2
    <3> QED
      BY <1>1, <2>1, <3>1, <3>2, SMT
  <2>4. \A i \in 0 .. 0 - 1 : new[i] = f[Len(al) * BlockLen + i + 1]
    BY SMT
  <2>5. Holds(al, new, f, x + len)
    BY <2>2, <2>3, <2>4 DEF Holds
  <2> QED
    BY <1>1, <1>6, <2>5, SMT DEF al
<1> QED
  BY <1>5, <1>6

\* A block straight from the data, when there is nothing in the buffer.
LEMMA HoldsDirect ==
  ASSUME NEW bl \in Seq(Block), NEW bu \in Block, NEW f \in Seq(0 .. 255), NEW x \in Nat,
         Holds(bl, bu, f, x), x % BlockLen = 0, x + BlockLen <= Len(f),
         NEW new \in Block, \A i \in Offsets : new[i] = f[x + i + 1]
  PROVE  Holds(Append(bl, new), bu, f, x + BlockLen)
<1>1. BlockLen \in Nat /\ \A i \in Offsets : i \in Nat /\ i < BlockLen
  BY Sizes
<1>2. \A i \in Offsets : new[i] = IF i \in 0 .. 0 + BlockLen - 1 THEN f[x + (i - 0) + 1] ELSE bu[i]
  BY <1>1, SMT
<1>3. Holds(Append(bl, new), new, f, x + BlockLen)
  <2>1. 0 \in Nat /\ 0 = x % BlockLen /\ 0 + BlockLen <= BlockLen /\ 0 + BlockLen = BlockLen
    BY <1>1, SMT
  <2> QED
    BY <1>1, <1>2, <2>1, HoldsCopy, Zenon
<1>4. PICK n \in Offsets :
        /\ x + BlockLen = Len(Append(bl, new)) * BlockLen + n /\ x + BlockLen <= Len(f)
        /\ \A b \in 1 .. Len(Append(bl, new)) : \A i \in Offsets :
             Append(bl, new)[b][i] = f[(b - 1) * BlockLen + i + 1]
  BY <1>3 DEF Holds
<1>5. n = 0
  <2>1. Len(Append(bl, new)) \in Nat /\ n \in 0 .. BlockLen - 1 /\ BlockLen \in Nat \ {0}
    BY Sizes, SMT DEF Offsets
  <2> DEFINE B == Len(Append(bl, new))
  <2>2. (x + BlockLen) % BlockLen = n
    <3>1. (B * BlockLen + n) % BlockLen = n
      <4>1. B \in Nat
        BY <2>1
      <4> HIDE DEF B
      <4> QED
        BY <2>1, <4>1, DivUnique
    <3> QED
      BY <1>4, <3>1
  <2>3. (x + BlockLen) % BlockLen = 0
    <3>1. x = (x \div BlockLen) * BlockLen + 0 /\ x \div BlockLen \in Nat
      BY <2>1, DivSum
    <3> DEFINE k == x \div BlockLen
    <3> HIDE DEF k
    <3>2. x = k * BlockLen /\ k \in Nat /\ k + 1 \in Nat
      BY <2>1, <3>1, SMT DEF k
    <3>3. x + BlockLen = (k + 1) * BlockLen + 0
      BY <2>1, <3>2, MulNext, SMT
    <3>4. 0 \in 0 .. BlockLen - 1
      BY <2>1, SMT
    <3>5. ((k + 1) * BlockLen + 0) % BlockLen = 0
      BY <2>1, <3>2, <3>4, DivUnique
    <3> QED
      BY <3>3, <3>5
  <2> QED
    BY <2>2, <2>3
<1>6. \A i \in 0 .. n - 1 : bu[i] = f[Len(Append(bl, new)) * BlockLen + i + 1]
  BY <1>5, SMT
<1> QED
  BY <1>4, <1>6 DEF Holds
-----------------------------------------------------------------------------
\* The inductive invariant: the types, the context, both paths, and what they leave to be
\* done.  In _short len is all of the data unless the long path called it; in the long path
\* whole blocks were taken since orig_len was set.
CallsGoOn ==
  /\ phase = "open" => out = <<>> /\ Fits(fed)
  /\ pc # "idle" => phase = "open"
  /\ pc = "short" /\ rest = "return" => todo = left
  /\ pc # "short" => todo = 0
  /\ pc = "blocks" => left <= origLen /\ (origLen - left) % BlockLen = 0

IInv == TypeOK /\ PathsMeet /\ ContextFollowsStream /\ CallsGoOn

\* ContextFollowsStream, said without division.
Follows ==
  phase = "open" => Consumed = Len(fed) - left /\ Holds(blocks, buf, fed, Consumed)

LEMMA ConsumedType ==
  ASSUME TypeOK, CallsGoOn
  PROVE  Consumed \in Nat
  BY SMT DEF TypeOK, CallsGoOn, Consumed

LEMMA FollowsIff ==
  ASSUME TypeOK, CallsGoOn
  PROVE  ContextFollowsStream <=> Follows
<1> DEFINE x == Consumed
<1>1. /\ x \in Nat /\ BlockLen \in Nat \ {0} /\ Len(blocks) \in Nat
      /\ blocks \in Seq(Block) /\ Len(fed) \in Nat /\ left \in Nat /\ left <= Len(fed)
  <2>1. blocks \in Seq(Block) /\ fed \in Seq(0 .. 255) /\ left \in 0 .. Len(fed)
    BY DEF TypeOK
  <2>2. Len(blocks) \in Nat /\ Len(fed) \in Nat
    BY <2>1, SMT
  <2>3. left \in Nat /\ left <= Len(fed)
    BY <2>1, <2>2, SMT
  <2> QED
    BY <2>1, <2>2, <2>3, ConsumedType, Sizes DEF x
<1>2. x = (x \div BlockLen) * BlockLen + (x % BlockLen) /\ x % BlockLen \in 0 .. BlockLen - 1
  BY <1>1, DivSum
<1> HIDE DEF x
<1>3. \A b \in 1 .. Len(blocks) : blocks[b] = [i \in Offsets |-> blocks[b][i]]
  BY <1>1 DEF Block
<1>4. ASSUME phase = "open", ContextFollowsStream
      PROVE  x = Len(fed) - left /\ Holds(blocks, buf, fed, x)
  <2>1. /\ x = Len(fed) - left /\ Len(blocks) = x \div BlockLen
        /\ \A b \in 1 .. Len(blocks) :
             blocks[b] = [i \in Offsets |-> fed[(b - 1) * BlockLen + i + 1]]
        /\ \A i \in 0 .. (x % BlockLen) - 1 : buf[i] = fed[Len(blocks) * BlockLen + i + 1]
    BY <1>4 DEF ContextFollowsStream, x
  <2>2. x <= Len(fed)
    <3>1. x = Len(fed) - left /\ Len(fed) \in Nat /\ left \in Nat
      BY <1>1, <2>1
    <3> QED
      BY <3>1, SMT
  <2>4. x % BlockLen \in Offsets
    BY <1>2 DEF Offsets
  <2>3. x = Len(blocks) * BlockLen + (x % BlockLen)
    BY <1>2, <2>1
  <2>5. ASSUME NEW b \in 1 .. Len(blocks), NEW i \in Offsets
        PROVE  blocks[b][i] = fed[(b - 1) * BlockLen + i + 1]
    <3>1. blocks[b] = [j \in Offsets |-> fed[(b - 1) * BlockLen + j + 1]]
      BY <2>1
    <3> QED
      BY <3>1, Zenon
  <2>6. Holds(blocks, buf, fed, x)
    BY <2>1, <2>2, <2>3, <2>4, <2>5, Zenon DEF Holds
  <2> QED
    BY <2>1, <2>6
<1>5. ASSUME phase = "open", x = Len(fed) - left, Holds(blocks, buf, fed, x)
      PROVE  ContextFollowsStream
  <2>1. PICK n \in Offsets :
          /\ x = Len(blocks) * BlockLen + n
          /\ \A b \in 1 .. Len(blocks) : \A i \in Offsets :
               blocks[b][i] = fed[(b - 1) * BlockLen + i + 1]
          /\ \A i \in 0 .. n - 1 : buf[i] = fed[Len(blocks) * BlockLen + i + 1]
    BY <1>5 DEF Holds
  <2>2. n = x % BlockLen /\ Len(blocks) = x \div BlockLen
    <3>1. n \in 0 .. BlockLen - 1
      BY DEF Offsets
    <3> QED
      BY <1>1, <2>1, <3>1, DivUnique
  <2>3. \A b \in 1 .. Len(blocks) :
          blocks[b] = [i \in Offsets |-> fed[(b - 1) * BlockLen + i + 1]]
    BY <1>3, <2>1
  <2> QED
    BY <1>5, <2>1, <2>2, <2>3 DEF ContextFollowsStream, x
<1>6. phase # "open" => ContextFollowsStream
  BY DEF ContextFollowsStream
<1>7. Follows <=> (phase = "open" => x = Len(fed) - left /\ Holds(blocks, buf, fed, x))
  BY DEF Follows, x
<1> QED
  BY <1>4, <1>5, <1>6, <1>7

LEMMA InitIInv == Init => IInv
<1> SUFFICES ASSUME Init PROVE IInv
  OBVIOUS
<1>1. TypeOK
  BY BlockAssumption, SMT DEF Init, TypeOK, Offsets, Block
<1>2. PathsMeet /\ CallsGoOn /\ ContextFollowsStream
  BY DEF Init, PathsMeet, CallsGoOn, ContextFollowsStream
<1> QED
  BY <1>1, <1>2 DEF IInv

LEMMA BytesPower ==
  ASSUME NEW b \in Nat
  PROVE  2 ^ (8 * b) \in Nat /\ 2 ^ (8 * b) > 0 /\ (b > 0 => (2 ^ (8 * b)) % 8 = 0)
<1>1. 8 * b \in Nat
  BY SMT
<1>2. 2 ^ (8 * b) \in Nat \ {0}
  BY <1>1, PowPositive
<1>3. ASSUME b > 0
      PROVE  (2 ^ (8 * b)) % 8 = 0
  <2>1. 8 * b - 3 \in Nat /\ (8 * b - 3) + 3 = 8 * b
    BY <1>3, SMT
  <2> DEFINE c == 2 ^ (8 * b - 3)
  <2>2. c \in Nat
    BY <2>1, PowPositive
  <2>3. 2 ^ 3 = 8
    BY SMT
  <2>4. 2 ^ (8 * b) = c * 8
    BY <2>1, <2>3, PowSum
  <2> HIDE DEF c
  <2>5. (c * 8) % 8 = 0
    BY <2>2, SMT
  <2> QED
    BY <2>4, <2>5
<1> DEFINE a == 2 ^ (8 * b)
<1> HIDE DEF a
<1>4. a \in Nat /\ a > 0
  BY <1>2, SMT DEF a
<1> QED
  BY <1>3, <1>4 DEF a

LEMMA CountModReal ==
  CountMod \in Nat /\ CountMod > 0 /\ CountMod % 8 = 0
<1> DEFINE b == IF Big(kind) THEN WordLen ELSE 2 * WordLen
<1>1. b \in Nat /\ b > 0
  BY Sizes, SMT
<1>2. CountMod = 2 ^ (8 * b)
  BY DEF CountMod
<1> HIDE DEF b
<1> QED
  BY <1>1, <1>2, BytesPower

LEMMA ShaInitKeeps ==
  ASSUME IInv, ShaInit
  PROVE  IInv'
<1>1. /\ pc = "idle" /\ left = 0 /\ todo = 0
      /\ phase' = "open" /\ kind' \in Kinds /\ blocks' = <<>> /\ count' = 0 /\ fed' = <<>>
      /\ out' = <<>> /\ buf' = buf /\ pc' = pc /\ left' = left /\ todo' = todo
      /\ current' = current /\ rest' = rest /\ origLen' = origLen
  BY DEF IInv, PathsMeet, CallsGoOn, ShaInit, locals
<1>2. Len(fed') = 0 /\ Len(blocks') = 0 /\ fed' \in Seq(0 .. 255) /\ blocks' \in Seq(Block)
  BY <1>1, SMT
<1>3. TypeOK'
  <2>1. 0 \in 0 .. Len(fed') /\ 0 \in Nat
    BY <1>2, SMT
  <2> QED
    BY <1>1, <1>2, <2>1, Zenon DEF IInv, TypeOK
<1>4. PathsMeet'
  BY <1>1 DEF PathsMeet
<1>5. CallsGoOn'
  <2>1. Fits(fed)'
    <3>1. Big(kind') <=> Big(kind)
      BY DEF ShaInit
    <3>2. CountMod' = CountMod
      BY <3>1 DEF CountMod
    <3>3. 0 < CountMod /\ 8 * 0 < CountMod
      BY CountModReal, SMT
    <3> QED
      BY <1>2, <3>2, <3>3, Zenon DEF Fits
  <2> QED
    BY <1>1, <2>1 DEF CallsGoOn
<1>6. ContextFollowsStream'
  <2>1. Consumed' = 0 /\ Len(fed') - left' = 0
    BY <1>1, <1>2, SMT DEF Consumed
  <2>2. 0 \div BlockLen = 0 /\ 0 % BlockLen = 0
    BY Sizes, SMT
  <2>3. 1 .. Len(blocks') = {} /\ 0 .. 0 - 1 = {}
    BY <1>2, SMT
  <2> QED
    BY <1>1, <1>2, <2>1, <2>2, <2>3 DEF ContextFollowsStream
<1> QED
  BY <1>3, <1>4, <1>5, <1>6 DEF IInv
-----------------------------------------------------------------------------
\* A piece of a message is a sequence of bytes.
LEMMA ChunkType == \A chunk \in Chunks : chunk \in Seq(0 .. 255)
<1> SUFFICES ASSUME NEW chunk \in Chunks
             PROVE  chunk \in Seq(0 .. 255)
  OBVIOUS
<1>1. PICK m \in Messages :
        chunk \in {SubSeq(m, a, b) : a \in 1 .. Len(m) + 1, b \in 0 .. Len(m)}
  BY DEF Chunks
<1>2. PICK a \in 1 .. Len(m) + 1, b \in 0 .. Len(m) : chunk = SubSeq(m, a, b)
  BY <1>1
<1>3. m \in Seq(0 .. 255) /\ Len(m) \in Nat
  BY BlockAssumption, SMT
<1>4. a \in Int /\ b \in Int /\ \A i \in a .. b : i \in 1 .. Len(m)
  BY <1>3, SMT
<1>5. \A i \in a .. b : m[i] \in 0 .. 255
  <2>1. \A i \in 1 .. Len(m) : m[i] \in 0 .. 255
    BY <1>3, ElementOfSeq
  <2> QED
    BY <1>4, <2>1
<1> QED
  BY <1>2, <1>4, <1>5, SubSeqProperties

\* The types, apart from one another.
LEMMA Types ==
  ASSUME TypeOK
  PROVE  /\ blocks \in Seq(Block) /\ buf \in Block /\ fed \in Seq(0 .. 255)
         /\ count \in Nat /\ left \in Nat /\ left <= Len(fed) /\ Len(fed) \in Nat
         /\ todo \in Nat /\ current \in Nat /\ current < BlockLen /\ origLen \in Nat
<1>1. /\ blocks \in Seq(Block) /\ buf \in Block /\ fed \in Seq(0 .. 255)
      /\ count \in Nat /\ left \in 0 .. Len(fed) /\ todo \in 0 .. Len(fed)
      /\ current \in Offsets /\ origLen \in Nat
  BY DEF TypeOK
<1>2. Len(fed) \in Nat
  BY <1>1, SMT
<1>3. left \in Nat /\ left <= Len(fed) /\ todo \in Nat
  BY <1>1, <1>2, SMT
<1>4. current \in Nat /\ current < BlockLen
  BY <1>1, Sizes
<1> QED
  BY <1>1, <1>2, <1>3, <1>4

\* While a context is open it follows its stream, and count does not wrap.
LEMMA Open ==
  ASSUME IInv, phase = "open"
  PROVE  /\ Consumed = Len(fed) - left /\ Consumed \in Nat
         /\ Holds(blocks, buf, fed, Consumed)
         /\ Len(fed) < CountMod
<1>1. Consumed = Len(fed) - left /\ Holds(blocks, buf, fed, Consumed)
  BY FollowsIff DEF IInv, Follows
<1>2. Fits(fed) /\ Len(fed) \in Nat
  BY Types DEF IInv, CallsGoOn
<1>3. Len(fed) < CountMod
  BY <1>2, CountModReal, SMT DEF Fits
<1> QED
  BY <1>1, <1>3, ConsumedType DEF IInv

LEMMA UpdateKeeps ==
  ASSUME IInv, NEW chunk \in Chunks, Update(chunk)
  PROVE  IInv'
<1> DEFINE n == count % BlockLen
<1>1. /\ phase = "open" /\ pc = "idle" /\ left = 0 /\ todo = 0 /\ Fits(fed')
      /\ fed' = fed \o chunk /\ left' = Len(chunk)
      /\ phase' = phase /\ kind' = kind /\ blocks' = blocks /\ buf' = buf /\ count' = count
      /\ origLen' = origLen /\ out' = out
  BY DEF IInv, PathsMeet, CallsGoOn, Update, ctxVars
<1>2. chunk \in Seq(0 .. 255) /\ Len(chunk) \in Nat /\ fed' \in Seq(0 .. 255)
  <2>1. chunk \in Seq(0 .. 255) /\ fed \in Seq(0 .. 255)
    BY ChunkType, Types DEF IInv
  <2> QED
    BY <1>1, <2>1, SMT
<1>3. Len(fed') = Len(fed) + Len(chunk) /\ Len(fed) \in Nat
  <2>1. fed \in Seq(0 .. 255)
    BY Types DEF IInv
  <2> QED
    BY <1>1, <1>2, <2>1, SMT
<1>4. BlockLen \in Nat \ {0} /\ count \in Nat /\ n \in 0 .. BlockLen - 1 /\ 0 \in 0 .. BlockLen - 1
  <2>1. BlockLen \in Nat \ {0} /\ count \in Nat
    BY Types, Sizes DEF IInv
  <2> QED
    BY <2>1, SMT
<1> HIDE DEF n
<1>5. \/ /\ pc' = "short" /\ todo' = Len(chunk) /\ current' = n /\ rest' = "return"
      \/ /\ pc' = "short" /\ todo' = BlockLen - n /\ current' = n /\ rest' = "align"
         /\ Len(chunk) >= 2 * BlockLen
      \/ pc' = "align" /\ n = 0 /\ todo' = todo /\ current' = current /\ rest' = rest
  <2>1. CASE Len(chunk) < 2 * BlockLen
    BY <2>1 DEF Update, CallShort, n
  <2>2. CASE ~(Len(chunk) < 2 * BlockLen) /\ n > 0
    <3>1. Len(chunk) >= 2 * BlockLen
      BY <1>2, <1>4, <2>2, SMT
    <3> QED
      BY <2>2, <3>1 DEF Update, CallShort, n
  <2>3. CASE ~(Len(chunk) < 2 * BlockLen) /\ ~(n > 0)
    <3>1. n = 0
      BY <1>4, <2>3, SMT
    <3> QED
      BY <2>3, <3>1 DEF Update, CallShort, n
  <2> QED
    BY <2>1, <2>2, <2>3
<1>6. todo' \in Nat /\ todo' <= left' /\ left' <= Len(fed') /\ left' \in Nat
  BY <1>1, <1>2, <1>3, <1>4, <1>5, SMT
<1>7. TypeOK'
  <2>1. current' \in Offsets /\ rest' \in {"return", "align"} /\ pc' \in {"idle", "short", "align"}
    BY <1>4, <1>5 DEF IInv, TypeOK, Offsets
  <2>2. left' \in 0 .. Len(fed') /\ todo' \in 0 .. Len(fed')
    BY <1>2, <1>3, <1>6, SMT
  <2> QED
    BY <1>1, <1>2, <2>1, <2>2 DEF IInv, TypeOK
<1>8. PathsMeet'
  <2>1. pc' = "short" => current' = count' % BlockLen /\ todo' <= left'
    BY <1>1, <1>5, <1>6 DEF n
  <2>2. pc' \in {"align", "blocks"} => count' % BlockLen = 0
    BY <1>1, <1>5 DEF n
  <2>3. pc' = "short" /\ rest' = "align" => (current' + todo') % BlockLen = 0
    <3>1. n + (BlockLen - n) = BlockLen /\ BlockLen % BlockLen = 0
      <4>1. 1 * BlockLen + 0 = BlockLen
        BY <1>4, SMT
      <4>2. (1 * BlockLen + 0) % BlockLen = 0
        BY <1>4, DivUnique
      <4> QED
        BY <1>4, <4>1, <4>2, SMT
    <3> QED
      BY <1>5, <3>1
  <2>4. pc' # "idle"
    BY <1>5
  <2> QED
    BY <2>1, <2>2, <2>3, <2>4 DEF PathsMeet
<1>9. CallsGoOn'
  <2>1. out = <<>>
    BY <1>1 DEF IInv, CallsGoOn
  <2>2. Fits(fed)'
    BY <1>1 DEF Fits, CountMod
  <2>3. pc' = "short" /\ rest' = "return" => todo' = left'
    BY <1>1, <1>5
  <2>4. (pc' # "short" => todo' = 0) /\ pc' # "blocks" /\ phase' = "open"
    BY <1>1, <1>5
  <2> QED
    BY <1>1, <2>1, <2>2, <2>3, <2>4 DEF CallsGoOn
<1>10. Follows'
  <2>1. Consumed = count /\ Consumed' = count
    BY <1>1, <1>5 DEF Consumed
  <2>2. Holds(blocks, buf, fed, count) /\ count = Len(fed) - left
    BY <1>1, <2>1, Open
  <2>3. Holds(blocks, buf, fed \o chunk, count)
    BY <1>2, <1>4, <2>2, HoldsMore, Types DEF IInv
  <2>4. count = Len(fed') - left'
    BY <1>1, <1>2, <1>3, <2>2, SMT
  <2> QED
    BY <1>1, <2>1, <2>3, <2>4 DEF Follows
<1>11. ContextFollowsStream'
  <2>1. (TypeOK /\ CallsGoOn => (ContextFollowsStream <=> Follows))'
    BY FollowsIff, PTL
  <2> QED
    BY <1>7, <1>9, <1>10, <2>1
<1> QED
  BY <1>7, <1>8, <1>9, <1>11 DEF IInv

LEMMA SmallMod == \A x, d \in Nat : x < d => x % d = x
  BY SMT

\* Remainders when bytes are added to an incomplete block.
LEMMA Remainders ==
  ASSUME NEW x \in Nat, NEW len \in Nat, (x % BlockLen) + len <= BlockLen
  PROVE  /\ (x % BlockLen) + len < BlockLen => (x + len) % BlockLen = (x % BlockLen) + len
         /\ (x % BlockLen) + len = BlockLen => (x + len) % BlockLen = 0
<1> DEFINE k == x \div BlockLen
           n == x % BlockLen
<1>1. BlockLen \in Nat \ {0} /\ x = k * BlockLen + n /\ k \in Nat /\ n \in 0 .. BlockLen - 1
  BY Sizes, DivSum
<1> HIDE DEF k, n
<1>2. (k + 1) * BlockLen = k * BlockLen + BlockLen /\ k * BlockLen \in Nat /\ k + 1 \in Nat
  BY <1>1, MulNext, SMT
<1>3. CASE n + len < BlockLen
  <2>1. n + len \in 0 .. BlockLen - 1 /\ x + len = k * BlockLen + (n + len)
    BY <1>1, <1>2, <1>3, SMT
  <2>2. (k * BlockLen + (n + len)) % BlockLen = n + len
    BY <1>1, <2>1, DivUnique
  <2>3. ~(n + len = BlockLen)
    BY <1>1, <1>3, SMT
  <2> QED
    BY <2>1, <2>2, <2>3 DEF n
<1>4. CASE n + len = BlockLen
  <2>1. 0 \in 0 .. BlockLen - 1 /\ x + len = (k + 1) * BlockLen + 0
    BY <1>1, <1>2, <1>4, SMT
  <2>2. ((k + 1) * BlockLen + 0) % BlockLen = 0
    BY <1>1, <1>2, <2>1, DivUnique
  <2>3. ~(n + len < BlockLen)
    BY <1>1, <1>4, SMT
  <2> QED
    BY <2>1, <2>2, <2>3 DEF n
<1>5. n + len < BlockLen \/ n + len = BlockLen
  <2>1. n + len <= BlockLen
    BY DEF n
  <2> QED
    BY <1>1, <2>1, SMT
<1> QED
  BY <1>3, <1>4, <1>5

\* What memcpy leaves in the buffer.
LEMMA CopiedBytes ==
  ASSUME TypeOK, NEW at \in Nat, NEW n \in Nat, at + n <= BlockLen, n <= left
  PROVE  /\ Copied(at, n) \in Block
         /\ \A i \in Offsets :
              Copied(at, n)[i] = IF i \in at .. at + n - 1 THEN fed[Len(fed) - left + (i - at) + 1]
                                 ELSE buf[i]
<1>1. ASSUME NEW i \in at .. at + n - 1
      PROVE  Data(i - at) \in 0 .. 255
  <2>1. Len(fed) \in Nat /\ left \in Nat /\ left <= Len(fed) /\ fed \in Seq(0 .. 255)
    BY Types
  <2>2. Len(fed) - left + (i - at) + 1 \in 1 .. Len(fed)
    BY <2>1, SMT
  <2> QED
    BY <2>1, <2>2, ElementOfSeq DEF Data
<1>2. \A i \in Offsets : buf[i] \in 0 .. 255
  BY Types DEF Block
<1>3. Copied(at, n) \in Block
  BY <1>1, <1>2, Zenon DEF Copied, Block
<1> QED
  BY <1>3, Zenon DEF Copied, Data

LEMMA ShortCopyKeeps ==
  ASSUME IInv, ShortCopy
  PROVE  IInv'
<1> DEFINE clen == IF BlockLen - current > todo THEN todo ELSE BlockLen - current
<1>1. /\ pc = "short" /\ todo > 0 /\ buf' = Copied(current, clen)
      /\ left' = left - clen /\ todo' = todo - clen /\ count' = (count + clen) % CountMod
      /\ phase' = phase /\ kind' = kind /\ pc' = pc /\ rest' = rest
      /\ origLen' = origLen /\ fed' = fed /\ out' = out
      /\ current = count % BlockLen /\ todo <= left /\ phase = "open"
      /\ out = <<>> /\ Fits(fed)
      /\ rest = "return" => todo = left
  BY DEF IInv, PathsMeet, CallsGoOn, ShortCopy
<1>2. \/ current + clen = BlockLen /\ blocks' = Append(blocks, buf') /\ current' = 0
      \/ current + clen # BlockLen /\ current' = current + clen /\ blocks' = blocks
  BY DEF ShortCopy
<1>3. /\ TypeOK /\ BlockLen \in Nat \ {0}
      /\ blocks \in Seq(Block) /\ buf \in Block /\ fed \in Seq(0 .. 255)
      /\ count \in Nat /\ left \in Nat /\ left <= Len(fed) /\ Len(fed) \in Nat
      /\ todo \in Nat /\ current \in Nat /\ current < BlockLen /\ origLen \in Nat
  BY Sizes, Types DEF IInv
<1>4. clen \in Nat /\ clen > 0 /\ clen <= todo /\ current + clen <= BlockLen
  BY <1>1, <1>3, SMT
<1> HIDE DEF clen
<1>5. Consumed = count /\ count = Len(fed) - left /\ Holds(blocks, buf, fed, count)
      /\ Len(fed) < CountMod
  <2>1. Consumed = count
    BY <1>1 DEF Consumed
  <2> QED
    BY <1>1, <2>1, Open
<1>6. count' = count + clen /\ count + clen <= Len(fed)
  <2> DEFINE m == CountMod
             l == Len(fed)
  <2>1. m \in Nat /\ l \in Nat /\ l < m /\ count = l - left /\ clen <= todo /\ todo <= left
    BY <1>1, <1>3, <1>4, <1>5, CountModReal
  <2> HIDE DEF m, l
  <2>3. count + clen <= l /\ count + clen \in Nat /\ count + clen < m
    BY <1>3, <1>4, <2>1, SMT
  <2> QED
    BY <1>1, <2>1, <2>3, SmallMod DEF m, l
<1>7. /\ buf' \in Block
      /\ \A i \in Offsets :
           buf'[i] = IF i \in current .. current + clen - 1 THEN fed[count + (i - current) + 1]
                     ELSE buf[i]
  <2>1. clen <= left
    BY <1>1, <1>3, <1>4, SMT
  <2> QED
    <3>1. /\ Copied(current, clen) \in Block
          /\ \A i \in Offsets :
               Copied(current, clen)[i] =
                 IF i \in current .. current + clen - 1
                 THEN fed[Len(fed) - left + (i - current) + 1] ELSE buf[i]
      BY <1>3, <1>4, <2>1, CopiedBytes
    <3> QED
      BY <1>1, <1>5, <3>1
<1>8. /\ current + clen < BlockLen => Holds(blocks, buf', fed, count + clen)
      /\ current + clen = BlockLen => Holds(Append(blocks, buf'), buf', fed, count + clen)
  <2>1. /\ current = count % BlockLen /\ Holds(blocks, buf, fed, count)
        /\ count + clen <= Len(fed)
    BY <1>1, <1>5, <1>6
  <2> QED
    BY <1>3, <1>4, <1>7, <2>1, HoldsCopy
<1>9. current + clen < BlockLen \/ current + clen = BlockLen
  BY <1>3, <1>4, SMT
<1>10. /\ current' \in Offsets /\ current' \in Nat /\ blocks' \in Seq(Block)
       /\ Holds(blocks', buf', fed, count + clen)
  <2>1. CASE current + clen = BlockLen
    <3>1. Append(blocks, buf') \in Seq(Block)
      BY <1>3, <1>7, SMT
    <3>2. 0 \in Offsets
      BY <1>3, SMT DEF Offsets
    <3>3. current' = 0 /\ blocks' = Append(blocks, buf') /\ 0 \in Nat
      BY <1>2, <2>1
    <3> QED
      BY <1>8, <2>1, <3>1, <3>2, <3>3
  <2>2. CASE current + clen # BlockLen
    <3>1. current + clen < BlockLen /\ current + clen \in Nat
      BY <1>3, <1>4, <1>9, <2>2, SMT
    <3>2. current + clen \in Offsets
      BY <3>1, Sizes
    <3>3. current' = current + clen /\ blocks' = blocks
      BY <1>2, <2>2
    <3> QED
      BY <1>3, <1>8, <3>1, <3>2, <3>3
  <2> QED
    BY <2>1, <2>2
<1>11. /\ left' \in 0 .. Len(fed) /\ todo' \in 0 .. Len(fed) /\ count' \in Nat
       /\ todo' <= left' /\ (todo = left => todo' = left')
  BY <1>1, <1>3, <1>4, <1>6, SMT
<1>12. TypeOK'
  BY <1>1, <1>3, <1>7, <1>10, <1>11 DEF TypeOK
<1>13. PathsMeet'
  <2>1. current' = count' % BlockLen
    <3>1. /\ current + clen < BlockLen => (count + clen) % BlockLen = current + clen
          /\ current + clen = BlockLen => (count + clen) % BlockLen = 0
      BY <1>1, <1>3, <1>4, Remainders
    <3> QED
      BY <1>2, <1>6, <1>9, <3>1
  <2>2. rest' = "align" => (current' + todo') % BlockLen = 0
    <3>1. SUFFICES ASSUME rest = "align"
                   PROVE  (current' + todo') % BlockLen = 0
      BY <1>1
    <3>2. (current + todo) % BlockLen = 0
      BY <1>1, <3>1 DEF IInv, PathsMeet
    <3>3. CASE current + clen = BlockLen
      <4> DEFINE y == todo - clen
      <4>1. y \in Nat /\ current + todo = y + BlockLen
        BY <1>3, <1>4, <3>3, SMT
      <4>6. current' + todo' = 0 + y
        BY <1>1, <1>2, <3>3
      <4>7. 0 + y = y
        BY <4>1, SMT
      <4> HIDE DEF y
      <4>2. y % BlockLen \in Nat /\ y % BlockLen < BlockLen /\ y % BlockLen >= 0
        BY <1>3, <4>1, SMT
      <4> DEFINE q == y \div BlockLen
                 r == y % BlockLen
      <4>3. y = q * BlockLen + r /\ q \in Nat /\ r \in 0 .. BlockLen - 1
        BY <1>3, <4>1, DivSum
      <4> HIDE DEF q, r
      <4>4. y + BlockLen = (q + 1) * BlockLen + r /\ q + 1 \in Nat
        BY <1>3, <4>3, MulNext, SMT
      <4>5. ((q + 1) * BlockLen + r) % BlockLen = r
        BY <1>3, <4>3, <4>4, DivUnique
      <4> QED
        BY <3>2, <4>1, <4>4, <4>5, <4>6, <4>7 DEF r
    <3>4. CASE current + clen # BlockLen
      <4>1. current' + todo' = current + todo
        BY <1>1, <1>2, <1>3, <1>4, <3>4, SMT
      <4> QED
        BY <3>2, <4>1
    <3> QED
      BY <3>3, <3>4
  <2> QED
    BY <1>1, <1>11, <2>1, <2>2 DEF PathsMeet
<1>14. CallsGoOn'
  <2>1. Fits(fed)'
    BY <1>1 DEF Fits, CountMod
  <2> QED
    BY <1>1, <1>11, <2>1 DEF CallsGoOn
<1>15. Follows'
  <2>1. Consumed' = count + clen
    BY <1>1, <1>6 DEF Consumed
  <2>2. count + clen = Len(fed') - left'
    BY <1>1, <1>3, <1>4, <1>5, SMT
  <2> QED
    BY <1>1, <1>10, <2>1, <2>2 DEF Follows
<1>16. ContextFollowsStream'
  <2>1. (TypeOK /\ CallsGoOn => (ContextFollowsStream <=> Follows))'
    BY FollowsIff, PTL
  <2> QED
    BY <1>12, <1>14, <1>15, <2>1
<1> QED
  BY <1>12, <1>13, <1>14, <1>16 DEF IInv

LEMMA ShortEndsKeeps ==
  ASSUME IInv, ShortEnds
  PROVE  IInv'
<1>1. /\ pc = "short" /\ todo = 0 /\ todo' = 0 /\ current' = 0 /\ rest' = "return"
      /\ phase' = phase /\ kind' = kind /\ blocks' = blocks /\ buf' = buf /\ count' = count
      /\ left' = left /\ origLen' = origLen /\ fed' = fed /\ out' = out
      /\ phase = "open" /\ out = <<>> /\ Fits(fed) /\ current = count % BlockLen
  BY DEF IInv, PathsMeet, CallsGoOn, ShortEnds, Forget, ctxVars
<1>2. /\ TypeOK /\ 0 \in Offsets /\ 0 \in 0 .. Len(fed)
  <2>1. BlockLen \in Nat \ {0} /\ Len(fed) \in Nat /\ TypeOK
    BY Sizes, Types DEF IInv
  <2> QED
    BY <2>1, SMT DEF Offsets
<1>3. \/ rest = "align" /\ pc' = "align" /\ count % BlockLen = 0
      \/ rest = "return" /\ pc' = "idle" /\ left = 0
  <2>1. CASE rest = "align"
    <3>1. (current + todo) % BlockLen = 0
      BY <1>1, <2>1 DEF IInv, PathsMeet
    <3>2. current \in Nat /\ current < BlockLen /\ BlockLen \in Nat /\ current + todo = current
      BY <1>1, <1>2, Types, Sizes, SMT
    <3>3. pc' = "align"
      BY <2>1 DEF ShortEnds
    <3>4. current % BlockLen = current
      BY <3>2, SmallMod
    <3> QED
      BY <1>1, <2>1, <3>1, <3>2, <3>3, <3>4
  <2>2. CASE rest = "return"
    <3>1. left = 0 /\ rest # "align"
      BY <1>1, <2>2 DEF IInv, CallsGoOn
    <3> QED
      BY <2>2, <3>1 DEF ShortEnds
  <2> QED
    BY <1>2, <2>1, <2>2 DEF TypeOK
<1>4. TypeOK'
  BY <1>1, <1>2, <1>3 DEF TypeOK
<1>5. PathsMeet'
  BY <1>1, <1>3 DEF PathsMeet
<1>6. CallsGoOn'
  <2>1. Fits(fed)'
    BY <1>1 DEF Fits, CountMod
  <2> QED
    BY <1>1, <1>3, <2>1 DEF CallsGoOn
<1>7. Follows'
  <2>1. Consumed' = Consumed
    BY <1>1, <1>3 DEF Consumed
  <2> QED
    BY <1>1, <2>1, Open DEF Follows
<1>8. ContextFollowsStream'
  <2>1. (TypeOK /\ CallsGoOn => (ContextFollowsStream <=> Follows))'
    BY FollowsIff, PTL
  <2> QED
    BY <1>4, <1>6, <1>7, <2>1
<1> QED
  BY <1>4, <1>5, <1>6, <1>8 DEF IInv

LEMMA TakeAlignedKeeps ==
  ASSUME IInv, TakeAligned
  PROVE  IInv'
<1>1. /\ pc = "align" /\ pc' = "blocks" /\ origLen' = left /\ todo' = todo /\ todo = 0
      /\ phase' = phase /\ kind' = kind /\ blocks' = blocks /\ buf' = buf /\ count' = count
      /\ left' = left /\ current' = current /\ rest' = rest /\ fed' = fed /\ out' = out
      /\ phase = "open" /\ out = <<>> /\ Fits(fed) /\ count % BlockLen = 0
  BY DEF IInv, PathsMeet, CallsGoOn, TakeAligned, ctxVars
<1>2. TypeOK /\ left \in Nat /\ count \in Nat /\ BlockLen \in Nat \ {0}
  BY Sizes, Types DEF IInv
<1>3. left - left = 0 /\ 0 % BlockLen = 0 /\ left <= left /\ (count + left) - left = count
  BY <1>2, SMT
<1>4. TypeOK'
  BY <1>1, <1>2 DEF TypeOK
<1>5. PathsMeet'
  BY <1>1 DEF PathsMeet
<1>6. CallsGoOn'
  <2>1. Fits(fed)'
    BY <1>1 DEF Fits, CountMod
  <2> QED
    BY <1>1, <1>3, <2>1 DEF CallsGoOn
<1>7. Follows'
  <2>1. Consumed' = Consumed
    <3>1. Consumed = count
      BY <1>1 DEF Consumed
    <3>2. Consumed' = count' + origLen' - left'
      BY <1>1 DEF Consumed
    <3>3. Consumed' = (count + left) - left
      BY <1>1, <1>2, <3>2, SMT
    <3> QED
      BY <1>3, <3>1, <3>3
  <2> QED
    BY <1>1, <2>1, Open DEF Follows
<1>8. ContextFollowsStream'
  <2>1. (TypeOK /\ CallsGoOn => (ContextFollowsStream <=> Follows))'
    BY FollowsIff, PTL
  <2> QED
    BY <1>4, <1>6, <1>7, <2>1
<1> QED
  BY <1>4, <1>5, <1>6, <1>8 DEF IInv

LEMMA TakeMisalignedKeeps ==
  ASSUME IInv, TakeMisaligned
  PROVE  IInv'
<1>1. /\ pc = "align" /\ pc' = "short" /\ todo' = left /\ current' = count % BlockLen
      /\ rest' = "return" /\ phase' = phase /\ kind' = kind /\ blocks' = blocks
      /\ buf' = buf /\ count' = count /\ left' = left /\ origLen' = origLen
      /\ fed' = fed /\ out' = out /\ phase = "open" /\ out = <<>> /\ Fits(fed)
  BY DEF IInv, PathsMeet, CallsGoOn, TakeMisaligned, CallShort, ctxVars
<1>2. TypeOK /\ left \in 0 .. Len(fed) /\ left <= left /\ count % BlockLen \in Offsets
  <2>1. TypeOK /\ left \in Nat /\ left <= Len(fed) /\ Len(fed) \in Nat /\ count \in Nat
        /\ BlockLen \in Nat \ {0}
    BY Sizes, Types DEF IInv
  <2> QED
    BY <2>1, SMT DEF Offsets
<1>4. TypeOK'
  BY <1>1, <1>2 DEF TypeOK
<1>5. PathsMeet'
  BY <1>1, <1>2 DEF PathsMeet
<1>6. CallsGoOn'
  <2>1. Fits(fed)'
    BY <1>1 DEF Fits, CountMod
  <2> QED
    BY <1>1, <2>1 DEF CallsGoOn
<1>7. Follows'
  <2>1. Consumed' = Consumed
    BY <1>1 DEF Consumed
  <2> QED
    BY <1>1, <2>1, Open DEF Follows
<1>8. ContextFollowsStream'
  <2>1. (TypeOK /\ CallsGoOn => (ContextFollowsStream <=> Follows))'
    BY FollowsIff, PTL
  <2> QED
    BY <1>4, <1>6, <1>7, <2>1
<1> QED
  BY <1>4, <1>5, <1>6, <1>8 DEF IInv

\* In the long path count is that of the last whole block before it.
LEMMA LongPath ==
  ASSUME IInv, pc = "blocks"
  PROVE  /\ origLen \in Nat /\ left <= origLen /\ count + origLen = Consumed + left
         /\ count + origLen = Len(fed) /\ Consumed % BlockLen = 0
<1>1. /\ TypeOK /\ phase = "open" /\ left <= origLen /\ (origLen - left) % BlockLen = 0
      /\ count % BlockLen = 0 /\ Consumed = count + origLen - left
  BY DEF IInv, PathsMeet, CallsGoOn, Consumed
<1>2. /\ count \in Nat /\ left \in Nat /\ origLen \in Nat /\ Len(fed) \in Nat
      /\ BlockLen \in Nat \ {0} /\ Consumed = Len(fed) - left
  BY <1>1, Open, Types, Sizes
<1>3. Consumed % BlockLen = 0
  <2> DEFINE d == origLen - left
             a == count \div BlockLen
             b == d \div BlockLen
  <2>1. d \in Nat
    BY <1>1, <1>2, SMT
  <2>2. count = a * BlockLen + (count % BlockLen) /\ a \in Nat
    BY <1>2, DivSum
  <2>3. d = b * BlockLen + (d % BlockLen) /\ b \in Nat
    <3> HIDE DEF d
    <3> QED
      BY <1>2, <2>1, DivSum
  <2>4. count = a * BlockLen + 0 /\ d = b * BlockLen + 0 /\ Consumed = count + origLen - left
    BY <1>1, <2>2, <2>3
  <2>5. Consumed = count + d
    BY <1>1, <1>2, SMT
  <2> HIDE DEF d, a, b
  <2>6. Consumed = (a + b) * BlockLen + 0 /\ a + b \in Nat
    BY <1>2, <2>2, <2>3, <2>4, <2>5, SMT
  <2>7. 0 \in 0 .. BlockLen - 1
    BY <1>2, SMT
  <2> DEFINE c == a + b
  <2>8. Consumed = c * BlockLen + 0 /\ c \in Nat
    BY <2>6
  <2> HIDE DEF c
  <2> QED
    BY <1>2, <2>7, <2>8, DivUnique
<1>4. count + origLen = Consumed + left /\ count + origLen = Len(fed)
  BY <1>1, <1>2, SMT
<1> QED
  BY <1>1, <1>2, <1>3, <1>4

LEMMA DirectBlockKeeps ==
  ASSUME IInv, DirectBlock
  PROVE  IInv'
<1> DEFINE x == Consumed
           new == [i \in Offsets |-> Data(i)]
<1>1. /\ pc = "blocks" /\ left >= BlockLen /\ blocks' = Append(blocks, new)
      /\ left' = left - BlockLen /\ todo = 0 /\ todo' = todo
      /\ phase' = phase /\ kind' = kind /\ buf' = buf /\ count' = count /\ pc' = pc
      /\ current' = current /\ rest' = rest /\ origLen' = origLen /\ fed' = fed /\ out' = out
      /\ phase = "open" /\ out = <<>> /\ Fits(fed) /\ count % BlockLen = 0
  BY DEF IInv, PathsMeet, CallsGoOn, DirectBlock
<1>2. /\ TypeOK /\ BlockLen \in Nat \ {0}
      /\ blocks \in Seq(Block) /\ buf \in Block /\ fed \in Seq(0 .. 255)
      /\ count \in Nat /\ left \in Nat /\ left <= Len(fed) /\ Len(fed) \in Nat
      /\ origLen \in Nat /\ left <= origLen /\ count + origLen = x + left
      /\ x \in Nat /\ x % BlockLen = 0 /\ x = Len(fed) - left /\ Holds(blocks, buf, fed, x)
      /\ (origLen - left) % BlockLen = 0
  BY <1>1, Types, Sizes, LongPath, Open DEF IInv, CallsGoOn
<1> HIDE DEF x
<1>3. new \in Block /\ \A i \in Offsets : new[i] = fed[x + i + 1]
  <2>1. ASSUME NEW i \in Offsets
        PROVE  Data(i) = fed[x + i + 1] /\ fed[x + i + 1] \in 0 .. 255
    <3>1. i \in Nat /\ i < BlockLen
      BY Sizes
    <3>2. x + i + 1 \in 1 .. Len(fed)
      BY <1>1, <1>2, <3>1, SMT
    <3> QED
      BY <1>2, <3>2, ElementOfSeq DEF Data
  <2> QED
    BY <2>1, Zenon DEF Block
<1> HIDE DEF new
<1>4. x + BlockLen <= Len(fed) /\ x + BlockLen = Len(fed) - left' /\ left' \in Nat
      /\ left' <= Len(fed) /\ left' <= origLen
  BY <1>1, <1>2, SMT
<1>5. Holds(blocks', buf, fed, x + BlockLen)
  BY <1>1, <1>2, <1>3, <1>4, HoldsDirect
<1>6. TypeOK'
  <2>1. Append(blocks, new) \in Seq(Block)
    BY <1>2, <1>3, SMT
  <2>2. left' \in 0 .. Len(fed)
    BY <1>2, <1>4, SMT
  <2> QED
    BY <1>1, <1>2, <2>1, <2>2 DEF TypeOK
<1>7. PathsMeet'
  BY <1>1 DEF PathsMeet
<1>8. CallsGoOn'
  <2>1. Fits(fed)'
    BY <1>1 DEF Fits, CountMod
  <2>2. (origLen - left') % BlockLen = 0
    <3> DEFINE d == origLen - left
    <3>1. d \in Nat /\ origLen - left' = d + BlockLen /\ d % BlockLen = 0
      BY <1>1, <1>2, SMT
    <3> HIDE DEF d
    <3>2. (d % BlockLen) + BlockLen = BlockLen /\ (d % BlockLen) + BlockLen <= BlockLen
      BY <1>2, <3>1, SMT
    <3>3. BlockLen \in Nat
      BY <1>2
    <3>4. (d + BlockLen) % BlockLen = 0
      BY <3>1, <3>2, <3>3, Remainders
    <3> QED
      BY <3>1, <3>4
  <2> QED
    BY <1>1, <1>4, <2>1, <2>2 DEF CallsGoOn
<1>9. Follows'
  <2>1. Consumed' = x + BlockLen
    <3>1. Consumed' = count' + origLen' - left'
      BY <1>1 DEF Consumed
    <3>2. Consumed' = count + origLen - (left - BlockLen)
      BY <1>1, <3>1
    <3> QED
      BY <1>2, <3>2, SMT
  <2> QED
    BY <1>1, <1>4, <1>5, <2>1 DEF Follows
<1>10. ContextFollowsStream'
  <2>1. (TypeOK /\ CallsGoOn => (ContextFollowsStream <=> Follows))'
    BY FollowsIff, PTL
  <2> QED
    BY <1>6, <1>8, <1>9, <2>1
<1> QED
  BY <1>6, <1>7, <1>8, <1>10 DEF IInv

LEMMA DirectEndsKeeps ==
  ASSUME IInv, DirectEnds
  PROVE  IInv'
<1> DEFINE x == Consumed
<1>1. /\ pc = "blocks" /\ left < BlockLen /\ buf' = Copied(0, left) /\ blocks' = blocks
      /\ count' = (count + origLen) % CountMod
      /\ left' = 0 /\ todo = 0 /\ todo' = todo /\ pc' = "idle" /\ origLen' = 0
      /\ phase' = phase /\ kind' = kind
      /\ current' = current /\ rest' = rest /\ fed' = fed /\ out' = out
      /\ phase = "open" /\ out = <<>> /\ Fits(fed)
  BY DEF IInv, CallsGoOn, DirectEnds
<1>2. /\ TypeOK /\ BlockLen \in Nat \ {0}
      /\ blocks \in Seq(Block) /\ buf \in Block /\ fed \in Seq(0 .. 255)
      /\ left \in Nat /\ left <= Len(fed) /\ Len(fed) \in Nat
      /\ count + origLen = Len(fed) /\ Len(fed) < CountMod
      /\ x \in Nat /\ x % BlockLen = 0 /\ x = Len(fed) - left /\ Holds(blocks, buf, fed, x)
  BY <1>1, Types, Sizes, LongPath, Open DEF IInv
<1> HIDE DEF x
<1>3. count' = Len(fed) /\ Len(fed) = x + left /\ 0 + left <= BlockLen /\ 0 + left < BlockLen
  <2>1. count' = Len(fed)
    BY <1>1, <1>2, CountModReal, SmallMod
  <2> QED
    BY <1>1, <1>2, <2>1, SMT
<1>4. /\ buf' \in Block
      /\ \A i \in Offsets : buf'[i] = IF i \in 0 .. 0 + left - 1 THEN fed[x + (i - 0) + 1] ELSE buf[i]
  <2>1. 0 \in Nat /\ left <= left
    BY <1>2, SMT
  <2>2. /\ Copied(0, left) \in Block
        /\ \A i \in Offsets :
             Copied(0, left)[i] = IF i \in 0 .. 0 + left - 1
                                  THEN fed[Len(fed) - left + (i - 0) + 1] ELSE buf[i]
    BY <1>2, <1>3, <2>1, CopiedBytes
  <2> QED
    BY <1>1, <1>2, <2>2
<1>5. Holds(blocks', buf', fed, Len(fed))
  <2>1. 0 \in Nat /\ 0 = x % BlockLen /\ x + left <= Len(fed)
    BY <1>2, <1>3, SMT
  <2>2. Holds(blocks, buf', fed, x + left)
    BY <1>2, <1>3, <1>4, <2>1, HoldsCopy
  <2> QED
    BY <1>1, <1>3, <2>2
<1>6. TypeOK'
  <2>1. 0 \in 0 .. Len(fed) /\ 0 \in Nat
    BY <1>2, SMT
  <2> QED
    BY <1>1, <1>2, <1>3, <1>4, <2>1 DEF TypeOK
<1>7. PathsMeet'
  BY <1>1 DEF PathsMeet
<1>8. CallsGoOn'
  <2>1. Fits(fed)'
    BY <1>1 DEF Fits, CountMod
  <2> QED
    BY <1>1, <2>1 DEF CallsGoOn
<1>9. Follows'
  <2>1. Consumed' = Len(fed)
    BY <1>1, <1>3 DEF Consumed
  <2>2. Len(fed) = Len(fed') - left'
    BY <1>1, <1>2, SMT
  <2> QED
    BY <1>1, <1>5, <2>1, <2>2 DEF Follows
<1>10. ContextFollowsStream'
  <2>1. (TypeOK /\ CallsGoOn => (ContextFollowsStream <=> Follows))'
    BY FollowsIff, PTL
  <2> QED
    BY <1>6, <1>8, <1>9, <2>1
<1> QED
  BY <1>6, <1>7, <1>8, <1>10 DEF IInv

\* Between calls, the closing length is exact.
LEMMA LengthExact ==
  ASSUME IInv, phase = "open", pc = "idle"
  PROVE  /\ count = Len(fed) /\ count \in Nat /\ Holds(blocks, buf, fed, count)
         /\ LengthField = 8 * Len(fed)
<1>1. /\ TypeOK /\ left = 0 /\ Fits(fed) /\ Consumed = count
  BY DEF IInv, PathsMeet, CallsGoOn, Consumed
<1>2. count = Len(fed) /\ count \in Nat /\ Holds(blocks, buf, fed, count)
  <2>1. Consumed = Len(fed) - left /\ Len(fed) \in Nat /\ Holds(blocks, buf, fed, Consumed)
    BY <1>1, Open, Types
  <2>2. Len(fed) - 0 = Len(fed)
    BY <2>1, SMT
  <2> QED
    BY <1>1, <2>1, <2>2
<1> DEFINE M == CountMod
           c == M \div 8
           q == count \div c
           r == count % c
<1>3. M \in Nat /\ M > 0 /\ M % 8 = 0
  BY CountModReal
<1> HIDE DEF M
<1>4. M = 8 * c /\ c \in Nat \ {0}
  BY <1>3, SMT
<1> HIDE DEF c
<1>5. count = q * c + r /\ q \in Nat /\ r \in 0 .. c - 1
  BY <1>2, <1>4, DivSum
<1> HIDE DEF q, r
<1>6. CASE Big(kind)
  <2>1. LengthField = q * M + ((count * 8) % M)
    BY <1>6 DEF LengthField, M, c, q
  <2>2. 8 * r \in 0 .. M - 1 /\ count * 8 = q * M + 8 * r /\ 8 * count = count * 8
    BY <1>2, <1>4, <1>5, SMT
  <2> DEFINE s == 8 * r
  <2>3. M \in Nat \ {0} /\ q \in Nat /\ s \in 0 .. M - 1 /\ count * 8 = q * M + s
    BY <1>3, <1>5, <2>2, SMT
  <2> HIDE DEF s
  <2>4. (q * M + s) % M = s
    BY <2>3, DivUnique
  <2> QED
    BY <1>2, <2>1, <2>2, <2>3, <2>4
<1>7. CASE ~Big(kind)
  <2>1. LengthField = (count * 8) % M
    BY <1>7 DEF LengthField, M
  <2>2. 8 * Len(fed) < M
    BY <1>1, <1>7 DEF Fits, M
  <2>3. count * 8 \in Nat /\ count * 8 < M /\ count * 8 = 8 * Len(fed)
    BY <1>2, <2>2, SMT
  <2>4. (count * 8) % M = count * 8
    BY <1>3, <2>3, SmallMod
  <2> QED
    BY <1>2, <2>1, <2>3, <2>4
<1> QED
  BY <1>2, <1>6, <1>7
-----------------------------------------------------------------------------
LEMMA DigitType ==
  ASSUME NEW v \in Nat, NEW i \in 0 .. 2 * WordLen
  PROVE  Digit(v, i) \in 0 .. 255
<1> DEFINE d == 2 ^ (8 * i)
<1>1. d \in Int /\ d > 0
  <2>1. i \in Nat
    BY Sizes, SMT
  <2> HIDE DEF d
  <2>2. d \in Nat /\ d > 0
    BY <2>1, BytesPower DEF d
  <2> QED
    BY <2>2, SMT
<1> HIDE DEF d
<1>2. (v \div d) % 256 \in 0 .. 255
  BY <1>1, SMT
<1> QED
  BY <1>2 DEF Digit, d

\* Between calls, in terms of whole blocks.
LEMMA Layout ==
  ASSUME IInv, phase = "open", pc = "idle"
  PROVE  LET B == Len(blocks)
             n == count % BlockLen
         IN /\ B \in Nat /\ n \in Nat /\ n < BlockLen
            /\ B * BlockLen \in Nat /\ Len(fed) = B * BlockLen + n
            /\ (B + 1) * BlockLen = B * BlockLen + BlockLen
            /\ (B + 2) * BlockLen = B * BlockLen + BlockLen + BlockLen
            /\ \A b \in 1 .. B : \A i \in Offsets : blocks[b][i] = fed[(b - 1) * BlockLen + i + 1]
            /\ \A i \in 0 .. n - 1 : buf[i] = fed[B * BlockLen + i + 1]
            /\ n + 1 > MaxPad => BlockCount(fed) = B + 2
            /\ ~(n + 1 > MaxPad) => BlockCount(fed) = B + 1
<1> DEFINE B == Len(blocks)
           n == count % BlockLen
<1>1. count = Len(fed) /\ count \in Nat /\ Holds(blocks, buf, fed, count)
  BY LengthExact
<1>2. PICK m \in Offsets :
        /\ count = B * BlockLen + m
        /\ \A b \in 1 .. B : \A i \in Offsets : blocks[b][i] = fed[(b - 1) * BlockLen + i + 1]
        /\ \A i \in 0 .. m - 1 : buf[i] = fed[B * BlockLen + i + 1]
  BY <1>1 DEF Holds
<1>3. B \in Nat
  BY Types DEF IInv
<1> HIDE DEF B
<1>4. BlockLen \in Nat \ {0} /\ WordLen \in Nat /\ 2 * WordLen < BlockLen /\ B + 1 \in Nat
      /\ m \in 0 .. BlockLen - 1
  BY <1>3, Sizes, SMT DEF Offsets
<1>5. n = m
  BY <1>2, <1>3, <1>4, DivUnique
<1> HIDE DEF n
<1>6. /\ n \in Nat /\ n < BlockLen /\ B * BlockLen \in Nat /\ Len(fed) = B * BlockLen + n
      /\ (B + 1) * BlockLen = B * BlockLen + BlockLen
      /\ ((B + 1) + 1) * BlockLen = (B + 1) * BlockLen + BlockLen
  <2>1. n \in Nat /\ n < BlockLen
    BY <1>4, <1>5, SMT
  <2> QED
    BY <1>1, <1>2, <1>3, <1>4, <1>5, <2>1, MulNext
<1>7. (B + 2) * BlockLen = B * BlockLen + BlockLen + BlockLen
  <2>1. B + 2 = (B + 1) + 1
    BY <1>3, SMT
  <2> QED
    BY <1>6, <2>1
<1>8. ASSUME n + 1 > MaxPad
      PROVE  BlockCount(fed) = B + 2
  <2> DEFINE r == n + 2 * WordLen - BlockLen
  <2>1. r \in 0 .. BlockLen - 1 /\ Len(fed) + 2 * WordLen = (B + 1) * BlockLen + r
    BY <1>4, <1>6, <1>8, SMT DEF MaxPad
  <2> HIDE DEF r
  <2>2. ((B + 1) * BlockLen + r) \div BlockLen = B + 1
    BY <1>4, <2>1, DivUnique
  <2>3. (B + 1) + 1 = B + 2
    BY <1>3, SMT
  <2> QED
    BY <2>1, <2>2, <2>3 DEF BlockCount
<1>9. ASSUME ~(n + 1 > MaxPad)
      PROVE  BlockCount(fed) = B + 1
  <2> DEFINE r == n + 2 * WordLen
  <2>1. r \in 0 .. BlockLen - 1 /\ Len(fed) + 2 * WordLen = B * BlockLen + r
    BY <1>4, <1>6, <1>9, SMT DEF MaxPad
  <2> HIDE DEF r
  <2>2. (B * BlockLen + r) \div BlockLen = B
    BY <1>3, <1>4, <2>1, DivUnique
  <2> QED
    BY <2>1, <2>2 DEF BlockCount
<1> QED
  BY <1>2, <1>3, <1>5, <1>6, <1>7, <1>8, <1>9 DEF B, n

\* The bytes of the padded message: in the message's whole blocks, in the block where it
\* ends and in one after it.
LEMMA BytesOfBlocks ==
  ASSUME IInv, phase = "open", pc = "idle", NEW b \in 1 .. Len(blocks), NEW i \in Offsets
  PROVE  PaddedByte(fed, (b - 1) * BlockLen + i) = blocks[b][i]
<1> DEFINE k == (b - 1) * BlockLen + i
           base == Len(blocks) * BlockLen
           n == count % BlockLen
<1>1. /\ base \in Nat /\ n \in Nat /\ Len(fed) = base + n /\ Len(blocks) \in Nat
      /\ blocks[b][i] = fed[(b - 1) * BlockLen + i + 1]
  <2> DEFINE B == Len(blocks)
  <2>1. /\ base \in Nat /\ n \in Nat /\ Len(fed) = base + n /\ B \in Nat
        /\ \A c \in 1 .. B : \A j \in Offsets : blocks[c][j] = fed[(c - 1) * BlockLen + j + 1]
    BY Layout
  <2>2. blocks[b][i] = fed[(b - 1) * BlockLen + i + 1]
    <3> HIDE DEF base, n
    <3> QED
      BY <2>1
  <2> QED
    BY <2>1, <2>2
<1>2. k + 1 \in 1 .. base
  BY <1>1, InsideBlocks
<1>3. blocks[b][i] = fed[k + 1]
  BY <1>1
<1>4. b - 1 \in Nat /\ i \in Nat /\ BlockLen \in Nat
  BY <1>1, Sizes, SMT
<1>5. k \in Nat
  BY <1>4, MulNext, SMT
<1> HIDE DEF k, base, n
<1>6. k < Len(fed)
  BY <1>1, <1>2, <1>5, SMT
<1> QED
  BY <1>3, <1>6 DEF PaddedByte, k

LEMMA BytesOfLast ==
  ASSUME IInv, phase = "open", pc = "idle", NEW i \in Offsets
  PROVE  LET B == Len(blocks)
             n == count % BlockLen
         IN /\ i < n => PaddedByte(fed, B * BlockLen + i) = buf[i]
            /\ i = n => PaddedByte(fed, B * BlockLen + i) = 128
            /\ i > n /\ (BlockCount(fed) = B + 2 \/ i < MaxPad) =>
                 PaddedByte(fed, B * BlockLen + i) = 0
            /\ i > n /\ BlockCount(fed) = B + 1 /\ i >= MaxPad =>
                 PaddedByte(fed, B * BlockLen + i) = Digit(LengthField, BlockLen - 1 - i)
            /\ BlockCount(fed) = B + 2 /\ i < MaxPad =>
                 PaddedByte(fed, (B + 1) * BlockLen + i) = 0
            /\ BlockCount(fed) = B + 2 /\ i >= MaxPad =>
                 PaddedByte(fed, (B + 1) * BlockLen + i) = Digit(LengthField, BlockLen - 1 - i)
<1> DEFINE B == Len(blocks)
           n == count % BlockLen
           base == B * BlockLen
           k == base + i
           l == base + BlockLen + i
<1>1. /\ B \in Nat /\ n \in Nat /\ n < BlockLen /\ base \in Nat /\ Len(fed) = base + n
      /\ (B + 1) * BlockLen = base + BlockLen /\ (B + 2) * BlockLen = base + BlockLen + BlockLen
      /\ \A j \in 0 .. n - 1 : buf[j] = fed[base + j + 1]
      /\ n + 1 > MaxPad => BlockCount(fed) = B + 2
      /\ ~(n + 1 > MaxPad) => BlockCount(fed) = B + 1
  BY Layout
<1>2. /\ i \in Nat /\ i < BlockLen /\ BlockLen \in Nat /\ WordLen \in Nat
      /\ 2 * WordLen < BlockLen /\ MaxPad = BlockLen - 2 * WordLen
  BY Sizes DEF MaxPad
<1>3. LengthField = 8 * Len(fed)
  BY LengthExact
<1> HIDE DEF base, B, n
<1>4. ASSUME i < n PROVE PaddedByte(fed, k) = buf[i]
  <2>1. k < Len(fed) /\ i \in 0 .. n - 1
    BY <1>1, <1>2, <1>4, SMT
  <2>2. PaddedByte(fed, k) = fed[k + 1]
    BY <2>1 DEF PaddedByte
  <2> QED
    BY <1>1, <2>1, <2>2
<1>5. ASSUME i = n PROVE PaddedByte(fed, k) = 128
  <2>1. k = Len(fed) /\ ~(k < Len(fed))
    BY <1>1, <1>2, <1>5, SMT
  <2> QED
    BY <2>1 DEF PaddedByte
<1>6. ASSUME i > n
      PROVE  /\ BlockCount(fed) = B + 2 \/ i < MaxPad => PaddedByte(fed, k) = 0
             /\ BlockCount(fed) = B + 1 /\ i >= MaxPad =>
                  PaddedByte(fed, k) = Digit(LengthField, BlockLen - 1 - i)
  <2>1. ~(k < Len(fed)) /\ k # Len(fed)
    BY <1>1, <1>2, <1>6, SMT
  <2>2. PaddedByte(fed, k) = IF BlockCount(fed) * BlockLen - 1 - k < 2 * WordLen
                             THEN Digit(8 * Len(fed), BlockCount(fed) * BlockLen - 1 - k) ELSE 0
    BY <2>1 DEF PaddedByte
  <2>3. ASSUME BlockCount(fed) = B + 2
        PROVE  PaddedByte(fed, k) = 0
    <3>1. ~(BlockCount(fed) * BlockLen - 1 - k < 2 * WordLen)
      BY <1>1, <1>2, <2>3, SMT
    <3> QED
      BY <2>2, <3>1
  <2>4. ASSUME BlockCount(fed) = B + 1
        PROVE  BlockCount(fed) * BlockLen - 1 - k = BlockLen - 1 - i
    BY <1>1, <1>2, <2>4, SMT
  <2>5. ASSUME BlockCount(fed) = B + 1, i < MaxPad
        PROVE  PaddedByte(fed, k) = 0
    <3>1. ~(BlockLen - 1 - i < 2 * WordLen)
      BY <1>2, <2>5, SMT
    <3> QED
      BY <2>2, <2>4, <2>5, <3>1
  <2>6. ASSUME BlockCount(fed) = B + 1, i >= MaxPad
        PROVE  PaddedByte(fed, k) = Digit(LengthField, BlockLen - 1 - i)
    <3>1. BlockLen - 1 - i < 2 * WordLen
      BY <1>2, <2>6, SMT
    <3> QED
      BY <1>3, <2>2, <2>4, <2>6, <3>1
  <2> QED
    BY <1>1, <2>3, <2>5, <2>6
<1>7. ASSUME BlockCount(fed) = B + 2
      PROVE  /\ i < MaxPad => PaddedByte(fed, l) = 0
             /\ i >= MaxPad => PaddedByte(fed, l) = Digit(LengthField, BlockLen - 1 - i)
  <2>1. ~(l < Len(fed)) /\ l # Len(fed)
    BY <1>1, <1>2, SMT
  <2>2. PaddedByte(fed, l) = IF BlockCount(fed) * BlockLen - 1 - l < 2 * WordLen
                             THEN Digit(8 * Len(fed), BlockCount(fed) * BlockLen - 1 - l) ELSE 0
    BY <2>1 DEF PaddedByte
  <2>3. BlockCount(fed) * BlockLen - 1 - l = BlockLen - 1 - i
    BY <1>1, <1>2, <1>7, SMT
  <2>4. BlockLen - 1 - i < 2 * WordLen <=> i >= MaxPad
    BY <1>2, SMT
  <2>5. i < MaxPad => ~(i >= MaxPad)
    BY <1>2, SMT
  <2> QED
    BY <1>3, <2>2, <2>3, <2>4, <2>5
<1>8. (B + 1) * BlockLen + i = l
  BY <1>1
<1> QED
  BY <1>4, <1>5, <1>6, <1>7, <1>8 DEF base, B, n

\* What close gives to RFUN are the blocks of the padded message.
LEMMA CloseMeets ==
  ASSUME IInv, Close
  PROVE  out' = Sha2(kind, fed) /\ buf' \in Block
<1> DEFINE B == Len(blocks)
           n == count % BlockLen
           marked == [i \in Offsets |-> IF i < n THEN buf[i] ELSE IF i = n THEN 128 ELSE 0]
           spills == n + 1 > MaxPad
           final == [i \in Offsets |-> IF i >= MaxPad THEN Digit(LengthField, BlockLen - 1 - i)
                                       ELSE IF spills THEN 0 ELSE marked[i]]
           done == IF spills THEN blocks \o <<marked, final>> ELSE Append(blocks, final)
           Wanted(b) == [i \in Offsets |-> PaddedByte(fed, (b - 1) * BlockLen + i)]
           N == BlockCount(fed)
<1>1. phase = "open" /\ pc = "idle" /\ out' = Output(kind, done) /\ buf' = final
  BY DEF Close
<1>2. /\ B \in Nat /\ n \in Nat /\ n < BlockLen
      /\ spills => N = B + 2
      /\ ~spills => N = B + 1
  BY <1>1, Layout
<1>3. /\ blocks \in Seq(Block) /\ buf \in Block /\ BlockLen \in Nat /\ WordLen \in Nat
      /\ MaxPad = BlockLen - 2 * WordLen /\ 2 * WordLen < BlockLen
      /\ \A i \in Offsets : i \in Nat /\ i < BlockLen
  BY Types, Sizes DEF IInv, MaxPad
<1> HIDE DEF n
<1>4. marked \in Block
  <2>1. ASSUME NEW i \in Offsets
        PROVE  buf[i] \in 0 .. 255
    BY <1>3 DEF Block
  <2>2. 128 \in 0 .. 255 /\ 0 \in 0 .. 255
    BY SMT
  <2> QED
    BY <2>1, <2>2, Zenon DEF Block
<1> HIDE DEF spills
<1>5. final \in Block
  <2>1. ASSUME NEW i \in Offsets, i >= MaxPad
        PROVE  Digit(LengthField, BlockLen - 1 - i) \in 0 .. 255
    <3>1. BlockLen - 1 - i \in 0 .. 2 * WordLen
      BY <1>3, <2>1, SMT
    <3>2. 8 * Len(fed) \in Nat
      <4>1. Len(fed) \in Nat
        BY Types DEF IInv
      <4> QED
        BY <4>1, SMT
    <3> QED
      BY <1>1, <3>1, <3>2, LengthExact, DigitType
  <2>2. \A i \in Offsets : marked[i] \in 0 .. 255
    BY <1>4 DEF Block
  <2>3. 0 \in 0 .. 255
    BY SMT
  <2> HIDE DEF marked
  <2> QED
    BY <2>1, <2>2, <2>3, Zenon DEF Block
<1>6. ASSUME NEW b \in 1 .. B
      PROVE  blocks[b] = Wanted(b)
  <2>1. \A i \in Offsets : blocks[b][i] = PaddedByte(fed, (b - 1) * BlockLen + i)
    BY <1>1, BytesOfBlocks
  <2>2. blocks[b] = [i \in Offsets |-> blocks[b][i]]
    BY <1>3, ElementOfSeq DEF Block
  <2> QED
    BY <2>1, <2>2
<1>7. ASSUME spills, NEW i \in Offsets
      PROVE  marked[i] = PaddedByte(fed, B * BlockLen + i)
  <2>1. /\ i < n => PaddedByte(fed, B * BlockLen + i) = buf[i]
        /\ i = n => PaddedByte(fed, B * BlockLen + i) = 128
        /\ i > n => PaddedByte(fed, B * BlockLen + i) = 0
    BY <1>1, <1>2, <1>7, BytesOfLast DEF n
  <2>2. ~(i < n) /\ i # n => i > n
    BY <1>2, <1>3, SMT
  <2>3. marked[i] = IF i < n THEN buf[i] ELSE IF i = n THEN 128 ELSE 0
    BY Zenon
  <2> QED
    BY <2>1, <2>2, <2>3, Zenon
<1>8. ASSUME ~spills, NEW i \in Offsets
      PROVE  final[i] = PaddedByte(fed, B * BlockLen + i)
  <2>1. /\ i < n => PaddedByte(fed, B * BlockLen + i) = buf[i]
        /\ i = n => PaddedByte(fed, B * BlockLen + i) = 128
        /\ i > n /\ i < MaxPad => PaddedByte(fed, B * BlockLen + i) = 0
        /\ i > n /\ i >= MaxPad =>
             PaddedByte(fed, B * BlockLen + i) = Digit(LengthField, BlockLen - 1 - i)
    BY <1>1, <1>2, <1>8, BytesOfLast DEF n
  <2>2. /\ ~(i < n) /\ i # n => i > n
        /\ i >= MaxPad => i > n
        /\ ~(i >= MaxPad) => i < MaxPad
    BY <1>2, <1>3, <1>8, SMT DEF spills
  <2>3. marked[i] = IF i < n THEN buf[i] ELSE IF i = n THEN 128 ELSE 0
    BY Zenon
  <2> HIDE DEF marked
  <2>4. final[i] = IF i >= MaxPad THEN Digit(LengthField, BlockLen - 1 - i)
                   ELSE IF spills THEN 0 ELSE marked[i]
    BY Zenon
  <2> QED
    BY <1>8, <2>1, <2>2, <2>3, <2>4, Zenon
<1>9. ASSUME spills, NEW i \in Offsets
      PROVE  final[i] = PaddedByte(fed, (B + 1) * BlockLen + i)
  <2>1. /\ i < MaxPad => PaddedByte(fed, (B + 1) * BlockLen + i) = 0
        /\ i >= MaxPad =>
             PaddedByte(fed, (B + 1) * BlockLen + i) = Digit(LengthField, BlockLen - 1 - i)
    BY <1>1, <1>2, <1>9, BytesOfLast
  <2>2. ~(i >= MaxPad) => i < MaxPad
    BY <1>3, SMT
  <2> HIDE DEF marked
  <2>3. final[i] = IF i >= MaxPad THEN Digit(LengthField, BlockLen - 1 - i)
                   ELSE IF spills THEN 0 ELSE marked[i]
    BY Zenon
  <2> QED
    BY <1>9, <2>1, <2>2, <2>3, Zenon
<1>10. /\ spills => marked = Wanted(B + 1) /\ final = Wanted(B + 2)
       /\ ~spills => final = Wanted(B + 1)
  <2>1. (B + 1) - 1 = B /\ (B + 2) - 1 = B + 1
    BY <1>2, SMT
  <2>2. marked = [i \in Offsets |-> marked[i]] /\ final = [i \in Offsets |-> final[i]]
    BY <1>4, <1>5 DEF Block
  <2> HIDE DEF marked, final, B
  <2> QED
    BY <1>7, <1>8, <1>9, <2>1, <2>2
<1> HIDE DEF marked, final, Wanted
<1>11. /\ done \in Seq(Block) /\ Len(done) = N /\ N \in Nat
       /\ \A b \in 1 .. N : done[b] = Wanted(b)
  <2>1. CASE spills
    <3>1. /\ done = blocks \o <<marked, final>> /\ N = B + 2
          /\ marked = Wanted(B + 1) /\ final = Wanted(B + 2)
      BY <1>2, <1>10, <2>1
    <3>2. /\ blocks \o <<marked, final>> \in Seq(Block)
          /\ Len(blocks \o <<marked, final>>) = B + 2
          /\ \A b \in 1 .. B : (blocks \o <<marked, final>>)[b] = blocks[b]
          /\ (blocks \o <<marked, final>>)[B + 1] = marked
          /\ (blocks \o <<marked, final>>)[B + 2] = final
      BY <1>3, <1>4, <1>5, SMT
    <3>3. \A b \in 1 .. B + 2 : b \in 1 .. B \/ b = B + 1 \/ b = B + 2
      BY <1>2, SMT
    <3>4. B + 2 \in Nat
      BY <1>2, SMT
    <3> HIDE DEF B, N, done
    <3> QED
      BY <1>6, <3>1, <3>2, <3>3, <3>4
  <2>2. CASE ~spills
    <3>1. done = Append(blocks, final) /\ N = B + 1 /\ final = Wanted(B + 1)
      BY <1>2, <1>10, <2>2
    <3>2. /\ Append(blocks, final) \in Seq(Block)
          /\ Len(Append(blocks, final)) = B + 1
          /\ \A b \in 1 .. B : Append(blocks, final)[b] = blocks[b]
          /\ Append(blocks, final)[B + 1] = final
      BY <1>3, <1>5, SMT
    <3>3. \A b \in 1 .. B + 1 : b \in 1 .. B \/ b = B + 1
      BY <1>2, SMT
    <3>4. B + 1 \in Nat
      BY <1>2, SMT
    <3> HIDE DEF B, N, done
    <3> QED
      BY <1>6, <3>1, <3>2, <3>3, <3>4
  <2> QED
    BY <2>1, <2>2
<1> HIDE DEF done
<1>12. done = [b \in 1 .. N |-> Wanted(b)]
  <2>1. done \in [1 .. N -> Block]
    BY <1>11, LenProperties
  <2>2. done = [b \in 1 .. N |-> done[b]]
    BY <2>1
  <2> QED
    BY <1>11, <2>2
<1>13. Sha2(kind, fed) = Output(kind, [b \in 1 .. N |-> Wanted(b)])
  BY Zenon DEF Sha2, Wanted, N
<1> QED
  BY <1>1, <1>5, <1>12, <1>13

LEMMA CloseKeeps ==
  ASSUME IInv, Close
  PROVE  IInv'
<1>1. /\ pc = "idle" /\ left = 0 /\ todo = 0 /\ phase' = "closed" /\ blocks' = <<>>
      /\ count' = 0 /\ kind' = kind /\ fed' = fed /\ pc' = pc /\ left' = left
      /\ todo' = todo /\ current' = current /\ rest' = rest /\ origLen' = origLen
  BY DEF IInv, PathsMeet, CallsGoOn, Close, locals
<1>2. TypeOK'
  <2>1. <<>> \in Seq(Block) /\ 0 \in Nat
    BY SMT
  <2> QED
    BY <1>1, <2>1, CloseMeets DEF IInv, TypeOK
<1>3. PathsMeet' /\ CallsGoOn' /\ ContextFollowsStream'
  BY <1>1 DEF PathsMeet, CallsGoOn, ContextFollowsStream
<1> QED
  BY <1>2, <1>3 DEF IInv

LEMMA StutterKeeps ==
  ASSUME IInv, UNCHANGED vars
  PROVE  IInv'
<1>1. TypeOK' /\ PathsMeet' /\ ContextFollowsStream'
  BY DEF IInv, TypeOK, PathsMeet, ContextFollowsStream, Consumed, vars, ctxVars, locals
<1>2. CallsGoOn'
  BY DEF IInv, CallsGoOn, Fits, CountMod, vars, ctxVars, locals
<1> QED
  BY <1>1, <1>2 DEF IInv
-----------------------------------------------------------------------------
\* The invariant of all the theorems below: the context, both paths and their loops.
THEOREM Invariance == Spec => []IInv
<1>1. IInv /\ [Next]_vars => IInv'
  BY ShaInitKeeps, UpdateKeeps, ShortCopyKeeps, ShortEndsKeeps, TakeAlignedKeeps,
     TakeMisalignedKeeps, DirectBlockKeeps, DirectEndsKeeps, CloseKeeps, StutterKeeps
     DEF Next, UpdateStep
<1> QED
  BY InitIInv, <1>1, PTL DEF Spec

\* The types of ShaMd are those of the fields of the context in md_helper.i and of the
\* variables of its update, for blocks and words of any size.
THEOREM TypeCorrect == Spec => []TypeOK
<1>1. IInv => TypeOK
  BY DEF IInv
<1> QED
  BY Invariance, <1>1, PTL

\* Where the short path hands over to the long one, the block that had begun is complete,
\* and blocks that bypass buf are taken only when it is empty.
THEOREM PathsCorrect == Spec => []PathsMeet
<1>1. IInv => PathsMeet
  BY DEF IInv
<1> QED
  BY Invariance, <1>1, PTL

\* A context of md_helper.i depends on the bytes it was given and on nothing else: not on
\* how they were cut into calls, nor on their alignment, nor on what buf held before init.
THEOREM ContextCorrect == Spec => []ContextFollowsStream
<1>1. IInv => ContextFollowsStream
  BY DEF IInv
<1> QED
  BY Invariance, <1>1, PTL

\* md_helper.i implements the streaming interface of sha256.h and sha512.h: what close
\* gives to the compression function are the blocks of the message padded as FIPS 180 says.
THEOREM ImplementsStream == Spec => StreamSpec
<1>1. Init => Stream!Init
  BY DEF Init, Stream!Init
<1>2. IInv /\ [Next]_vars => [Stream!Next]_(Stream!vars)
  <2> SUFFICES ASSUME IInv, [Next]_vars PROVE [Stream!Next]_(Stream!vars)
    OBVIOUS
  <2> USE DEF Stream!vars
  <2>1. CASE ShaInit
    BY <2>1 DEF ShaInit, Stream!Next, Stream!HashInit
  <2>2. ASSUME NEW chunk \in Chunks, Update(chunk) PROVE Stream!Next
    BY <2>2 DEF Update, ctxVars, Stream!Next, Stream!HashUpdate
  <2>3. CASE UpdateStep
    BY <2>3 DEF UpdateStep, ShortCopy, ShortEnds, TakeAligned, TakeMisaligned, DirectBlock,
                DirectEnds, ctxVars
  <2>4. CASE Close
    <3>1. out' = Sha2(kind, fed)
      BY <2>4, CloseMeets
    <3> QED
      BY <2>4, <3>1 DEF Close, Stream!Next, Stream!HashFinal
  <2>5. CASE UNCHANGED vars
    BY <2>5 DEF vars, ctxVars
  <2> QED
    BY <2>1, <2>2, <2>3, <2>4, <2>5 DEF Next
<1> QED
  BY Invariance, <1>1, <1>2, PTL DEF Spec, StreamSpec, Stream!Spec
-----------------------------------------------------------------------------
\* The message ends, with its mark, before the place of the length in the last block.
LEMMA MarkBeforeLength ==
  ASSUME NEW m \in Seq(0 .. 255)
  PROVE  /\ BlockCount(m) \in Nat /\ Len(m) \in Nat /\ BlockCount(m) * BlockLen \in Nat
         /\ Len(m) + 2 * WordLen < BlockCount(m) * BlockLen
<1> DEFINE x == Len(m) + 2 * WordLen
           q == x \div BlockLen
           r == x % BlockLen
<1>1. BlockLen \in Nat \ {0} /\ WordLen \in Nat /\ Len(m) \in Nat
  BY Sizes, SMT
<1>2. x \in Nat
  BY <1>1, SMT
<1> HIDE DEF x
<1>3. x = q * BlockLen + r /\ q \in Nat /\ r \in 0 .. BlockLen - 1
  BY <1>1, <1>2, DivSum
<1>4. BlockCount(m) = q + 1
  BY DEF BlockCount, x
<1> HIDE DEF q, r
<1>5. (q + 1) * BlockLen = q * BlockLen + BlockLen /\ q * BlockLen \in Nat /\ q + 1 \in Nat
  BY <1>1, <1>3, MulNext, SMT
<1>6. (q + 1) * BlockLen \in Nat /\ x < (q + 1) * BlockLen
  BY <1>1, <1>3, <1>5, SMT
<1> QED
  BY <1>1, <1>4, <1>5, <1>6 DEF x

\* Byte k of the padded message is in its digest's blocks.
LEMMA PaddedBytesAgree ==
  ASSUME NEW k1 \in Kinds, NEW k2 \in Kinds,
         NEW m1 \in Seq(0 .. 255), NEW m2 \in Seq(0 .. 255), Sha2(k1, m1) = Sha2(k2, m2)
  PROVE  /\ k1 = k2 /\ BlockCount(m1) = BlockCount(m2)
         /\ \A k \in Nat : k < BlockCount(m1) * BlockLen => PaddedByte(m1, k) = PaddedByte(m2, k)
<1> DEFINE N1 == BlockCount(m1)
           N2 == BlockCount(m2)
           Bytes1(b) == [i \in Offsets |-> PaddedByte(m1, (b - 1) * BlockLen + i)]
           Bytes2(b) == [i \in Offsets |-> PaddedByte(m2, (b - 1) * BlockLen + i)]
           f1 == [b \in 1 .. N1 |-> Bytes1(b)]
           f2 == [b \in 1 .. N2 |-> Bytes2(b)]
<1>1. k1 = k2 /\ f1 = f2
  <2>1. Sha2(k1, m1) = Output(k1, f1) /\ Sha2(k2, m2) = Output(k2, f2)
    BY Zenon DEF Sha2
  <2> HIDE DEF f1, f2
  <2>2. Output(k1, f1) = Output(k2, f2)
    BY <2>1
  <2> QED
    BY <2>2 DEF Output
<1>2. N1 \in Nat /\ N2 \in Nat
  BY MarkBeforeLength
<1> HIDE DEF N1, N2, Bytes1, Bytes2
<1>3. N1 = N2
  <2>1. 1 .. N1 = 1 .. N2
    <3>1. DOMAIN f1 = 1 .. N1 /\ DOMAIN f2 = 1 .. N2
      BY Zenon
    <3> HIDE DEF f1, f2
    <3> QED
      BY <1>1, <3>1
  <2> QED
    BY <1>2, <2>1, SMT
<1>4. ASSUME NEW b \in 1 .. N1, NEW i \in Offsets
      PROVE  PaddedByte(m1, (b - 1) * BlockLen + i) = PaddedByte(m2, (b - 1) * BlockLen + i)
  <2>1. f1[b] = Bytes1(b) /\ f2[b] = Bytes2(b)
    BY <1>3, Zenon
  <2> HIDE DEF f1, f2
  <2>2. Bytes1(b)[i] = Bytes2(b)[i]
    BY <1>1, <2>1
  <2>3. /\ Bytes1(b)[i] = PaddedByte(m1, (b - 1) * BlockLen + i)
        /\ Bytes2(b)[i] = PaddedByte(m2, (b - 1) * BlockLen + i)
    BY Zenon DEF Bytes1, Bytes2
  <2> QED
    BY <2>2, <2>3
<1>5. ASSUME NEW k \in Nat, k < N1 * BlockLen
      PROVE  PaddedByte(m1, k) = PaddedByte(m2, k)
  <2> DEFINE q == k \div BlockLen
             r == k % BlockLen
             b == q + 1
  <2>1. /\ BlockLen \in Nat \ {0} /\ k = q * BlockLen + r /\ q \in Nat /\ r \in 0 .. BlockLen - 1
    BY Sizes, DivSum
  <2> HIDE DEF q, r
  <2>2. q < N1
    <3>1. N1 <= q => N1 * BlockLen <= q * BlockLen
      BY <1>2, <2>1, MulMono
    <3>2. q * BlockLen \in Nat /\ N1 * BlockLen \in Nat
      BY <1>2, <2>1, MulNext
    <3>3. q * BlockLen < N1 * BlockLen
      BY <1>5, <2>1, <3>2, SMT
    <3> QED
      BY <1>2, <2>1, <3>1, <3>2, <3>3, SMT
  <2>3. b \in 1 .. N1 /\ b - 1 = q /\ r \in Offsets
    BY <1>2, <2>1, <2>2, SMT DEF Offsets
  <2> HIDE DEF b
  <2> QED
    BY <1>4, <2>1, <2>3
<1> QED
  BY <1>1, <1>3, <1>5 DEF N1, N2

LEMMA NotShorter ==
  ASSUME NEW k1 \in Kinds, NEW k2 \in Kinds,
         NEW m1 \in Seq(0 .. 255), NEW m2 \in Seq(0 .. 255), Sha2(k1, m1) = Sha2(k2, m2)
  PROVE  ~(Len(m1) < Len(m2))
<1>0. BlockCount(m1) = BlockCount(m2)
  BY PaddedBytesAgree
<1> SUFFICES ASSUME Len(m1) < Len(m2)
             PROVE  FALSE
  OBVIOUS
<1> DEFINE k == Len(m2)
           size == BlockCount(m1) * BlockLen
<1>1. /\ k \in Nat /\ Len(m1) \in Nat /\ size \in Nat /\ k + 2 * WordLen < size
      /\ WordLen \in Nat
  <2>2. /\ Len(m2) \in Nat /\ BlockCount(m2) * BlockLen \in Nat
        /\ Len(m2) + 2 * WordLen < BlockCount(m2) * BlockLen
    BY MarkBeforeLength
  <2>3. Len(m1) \in Nat /\ WordLen \in Nat
    BY MarkBeforeLength, Sizes
  <2> QED
    BY <1>0, <2>2, <2>3
<1> HIDE DEF k, size
<1>2. k < size /\ ~(k < Len(m1)) /\ k # Len(m1) /\ ~(size - 1 - k < 2 * WordLen)
  BY <1>1, SMT DEF k
<1>3. PaddedByte(m1, k) = 0
  BY <1>2, Zenon DEF PaddedByte, size
<1>4. ~(k < k)
  BY <1>1, SMT
<1>5. PaddedByte(m2, k) = 128
  BY <1>4, Zenon DEF PaddedByte, k
<1> QED
  BY <1>1, <1>2, <1>3, <1>5, PaddedBytesAgree, SMT DEF size

\* The padding of close loses nothing: messages and hash functions that differ differ in
\* what the compression function is given.  The mark alone sees to it, the length repeats it.
THEOREM PaddingInjective ==
  ASSUME NEW k1 \in Kinds, NEW k2 \in Kinds,
         NEW m1 \in Seq(0 .. 255), NEW m2 \in Seq(0 .. 255), Sha2(k1, m1) = Sha2(k2, m2)
  PROVE  k1 = k2 /\ m1 = m2
<1>1. Len(m1) \in Nat /\ Len(m2) \in Nat /\ Len(m1) = Len(m2)
  <2>1. Len(m1) \in Nat /\ Len(m2) \in Nat
    BY MarkBeforeLength
  <2>2. ~(Len(m1) < Len(m2)) /\ ~(Len(m2) < Len(m1))
    BY NotShorter
  <2> QED
    BY <2>1, <2>2, SMT
<1>2. ASSUME NEW j \in 1 .. Len(m1)
      PROVE  m1[j] = m2[j]
  <2> DEFINE k == j - 1
  <2>1. k \in Nat /\ k < Len(m1) /\ k + 1 = j
    BY <1>1, SMT
  <2>2. k < BlockCount(m1) * BlockLen
    <3> DEFINE size == BlockCount(m1) * BlockLen
    <3>1. size \in Nat /\ Len(m1) + 2 * WordLen < size /\ WordLen \in Nat
      BY MarkBeforeLength, Sizes
    <3> HIDE DEF size
    <3> QED
      BY <1>1, <2>1, <3>1, SMT DEF size
  <2> HIDE DEF k
  <2>3. PaddedByte(m1, k) = PaddedByte(m2, k)
    BY <2>1, <2>2, PaddedBytesAgree
  <2>4. PaddedByte(m1, k) = m1[k + 1] /\ PaddedByte(m2, k) = m2[k + 1]
    BY <1>1, <2>1 DEF PaddedByte
  <2> QED
    BY <2>1, <2>3, <2>4
<1>3. m1 = m2
  BY <1>1, <1>2, SeqEqual
<1> QED
  BY <1>3, PaddedBytesAgree
-----------------------------------------------------------------------------
\* RFUN itself, in Sha2Rounds: the unrolled rounds compute what the hash standard says.
CONSTANTS Inputs, MaxBlocks
VARIABLES function, val, data, W, reg, n, at, calls
Rounds == INSTANCE Sha2Rounds WITH
            Blocks <- Inputs, MaxCalls <- MaxBlocks, kind <- function, r <- val, pc <- at


\* Blocks are of sixteen words.
InputsFit ==
  \A b \in {32, 64} : Inputs[b] \subseteq [0 .. 15 -> SUBSET (0 .. b - 1)]

WordBits == SUBSET (0 .. Rounds!w - 1)

LEMMA XorIs ==
  \A S, T : /\ Rounds!Xor(S, T) = (S \ T) \cup (T \ S)
            /\ Rounds!Standard!Xor(S, T) = (S \ T) \cup (T \ S)
  BY DEF Rounds!Xor, Rounds!Standard!Xor

\* The operations of Words mean the same in both modules.
LEMMA SameWords ==
  /\ Rounds!Standard!w = Rounds!w
  /\ \A b, s : Rounds!Standard!Sum(b, s) = Rounds!Sum(b, s)
  /\ \A b, S : Rounds!Standard!Trunc(b, S) = Rounds!Trunc(b, S)
  /\ \A S, T : Rounds!Standard!Plus(S, T) = Rounds!Plus(S, T)
  /\ \A b, S, k : Rounds!Standard!Rotr(b, S, k) = Rounds!Rotr(b, S, k)
  /\ \A S, k : Rounds!Standard!Shr(S, k) = Rounds!Shr(S, k)
<1>1. Rounds!Standard!w = Rounds!w
  BY DEF Rounds!w, Rounds!Standard!w, Rounds!Width, Rounds!Standard!Width
<1>2. \A S, T : Rounds!Standard!Xor(S, T) = Rounds!Xor(S, T)
  BY XorIs
<1>3. \A S, T : Rounds!Standard!Gap(S, T) = Rounds!Gap(S, T)
  BY Zenon DEF Rounds!Gap, Rounds!Standard!Gap, Rounds!Cardinality, Rounds!Standard!Cardinality
<1>4. \A S, T : Rounds!Standard!Carries(S, T) = Rounds!Carries(S, T)
  BY <1>3, Zenon DEF Rounds!Carries, Rounds!Standard!Carries
<1>5. \A S, T : Rounds!Standard!Plus(S, T) = Rounds!Plus(S, T)
  BY <1>2, <1>4 DEF Rounds!Plus, Rounds!Standard!Plus
<1>6. \A b, s : Rounds!Standard!Sum(b, s) = Rounds!Sum(b, s)
  BY <1>5 DEF Rounds!Standard!Sum, Rounds!Sum, Rounds!Standard!Trunc, Rounds!Trunc
<1>7. \A b, S : Rounds!Standard!Trunc(b, S) = Rounds!Trunc(b, S)
  BY DEF Rounds!Standard!Trunc, Rounds!Trunc
<1>8. \A b, S, k : Rounds!Standard!Rotr(b, S, k) = Rounds!Rotr(b, S, k)
  BY DEF Rounds!Rotr, Rounds!Standard!Rotr
<1>9. \A S, k : Rounds!Standard!Shr(S, k) = Rounds!Shr(S, k)
  BY DEF Rounds!Shr, Rounds!Standard!Shr
<1> QED
  BY <1>1, <1>5, <1>6, <1>7, <1>8, <1>9

\* A sum does not depend on the order of its terms.
LEMMA PlusCommutes == \A S, T : Rounds!Plus(S, T) = Rounds!Plus(T, S)
<1> SUFFICES ASSUME NEW S, NEW T PROVE Rounds!Plus(S, T) = Rounds!Plus(T, S)
  OBVIOUS
<1>1. S \cup T = T \cup S /\ S \cap T = T \cap S
  OBVIOUS
<1>2. Rounds!Xor(S, T) = Rounds!Xor(T, S)
  BY XorIs
<1> QED
  BY <1>1, <1>2 DEF Rounds!Plus

LEMMA SumFits == \A b, s : Rounds!Sum(b, s) \in SUBSET (0 .. b - 1)
  BY DEF Rounds!Sum, Rounds!Trunc

LEMMA TruncFits == \A b, S : Rounds!Trunc(b, S) \in SUBSET (0 .. b - 1)
  BY DEF Rounds!Trunc

\* The functions of the code save an operation of those of the standard.
LEMMA ChIs ==
  ASSUME NEW X \in WordBits, NEW Y \in WordBits, NEW Z \in WordBits
  PROVE  /\ Rounds!CH(X, Y, Z) = Rounds!Standard!Ch(X, Y, Z)
         /\ Rounds!MAJ(X, Y, Z) = Rounds!Standard!Maj(X, Y, Z)
         /\ Rounds!MAJ64(X, Y, Z) = Rounds!Standard!Maj(X, Y, Z)
<1>1. Rounds!CH(X, Y, Z) = Rounds!Standard!Ch(X, Y, Z)
  BY SameWords, XorIs DEF Rounds!CH, Rounds!Standard!Ch, Rounds!Standard!Not, WordBits
<1>2. Rounds!MAJ(X, Y, Z) = Rounds!Standard!Maj(X, Y, Z)
  BY XorIs DEF Rounds!MAJ, Rounds!Standard!Maj
<1>3. Rounds!MAJ64(X, Y, Z) = Rounds!Standard!Maj(X, Y, Z)
  BY XorIs DEF Rounds!MAJ64, Rounds!Standard!Maj
<1> QED
  BY <1>1, <1>2, <1>3

LEMMA SigmasAre ==
  LET R == Rounds!Standard!Rotations
  IN \A S :
       /\ Rounds!w = 32 => /\ Rounds!BSG2_0(S) = Rounds!Standard!Sigma(S, R.Sigma0)
                           /\ Rounds!BSG2_1(S) = Rounds!Standard!Sigma(S, R.Sigma1)
                           /\ Rounds!SSG2_0(S) = Rounds!Standard!sigma(S, R.sigma0)
                           /\ Rounds!SSG2_1(S) = Rounds!Standard!sigma(S, R.sigma1)
       /\ Rounds!w = 64 => /\ Rounds!BSG5_0(S) = Rounds!Standard!Sigma(S, R.Sigma0)
                           /\ Rounds!BSG5_1(S) = Rounds!Standard!Sigma(S, R.Sigma1)
                           /\ Rounds!SSG5_0(S) = Rounds!Standard!sigma(S, R.sigma0)
                           /\ Rounds!SSG5_1(S) = Rounds!Standard!sigma(S, R.sigma1)
<1>1. \A A, B, C : Rounds!Xor(Rounds!Xor(A, B), C) = Rounds!Standard!Xor(A, Rounds!Standard!Xor(B, C))
  BY XorIs
<1>2. ASSUME NEW S, Rounds!w = 32
      PROVE  LET R == Rounds!Standard!Rotations
             IN /\ Rounds!BSG2_0(S) = Rounds!Standard!Sigma(S, R.Sigma0)
                /\ Rounds!BSG2_1(S) = Rounds!Standard!Sigma(S, R.Sigma1)
                /\ Rounds!SSG2_0(S) = Rounds!Standard!sigma(S, R.sigma0)
                /\ Rounds!SSG2_1(S) = Rounds!Standard!sigma(S, R.sigma1)
  BY <1>1, <1>2, SameWords, SMT
     DEF Rounds!Standard!Rotations, Rounds!Standard!Sigma, Rounds!Standard!sigma,
         Rounds!BSG2_0, Rounds!BSG2_1, Rounds!SSG2_0, Rounds!SSG2_1
<1>3. ASSUME NEW S, Rounds!w = 64
      PROVE  LET R == Rounds!Standard!Rotations
             IN /\ Rounds!BSG5_0(S) = Rounds!Standard!Sigma(S, R.Sigma0)
                /\ Rounds!BSG5_1(S) = Rounds!Standard!Sigma(S, R.Sigma1)
                /\ Rounds!SSG5_0(S) = Rounds!Standard!sigma(S, R.sigma0)
                /\ Rounds!SSG5_1(S) = Rounds!Standard!sigma(S, R.sigma1)
  BY <1>1, <1>3, SameWords, SMT
     DEF Rounds!Standard!Rotations, Rounds!Standard!Sigma, Rounds!Standard!sigma,
         Rounds!BSG5_0, Rounds!BSG5_1, Rounds!SSG5_0, Rounds!SSG5_1
<1> QED
  BY <1>2, <1>3

-----------------------------------------------------------------------------
LEMMA KeysEnough == Len(Rounds!K) = 64 /\ Len(Rounds!K512) = 80
  BY SMTT(100) DEF Rounds!K, Rounds!K512, Rounds!Table

LEMMA NumberFits ==
  /\ \A a, b : Rounds!Number(<<a, b>>) \subseteq 0 .. 31
  /\ \A a, b, c, d : Rounds!Number(<<a, b, c, d>>) \subseteq 0 .. 63
  BY SMT DEF Rounds!Number

LEMMA TablesFit ==
  /\ \A k \in 1 .. 8 : Rounds!H224[k] \subseteq 0 .. 31 /\ Rounds!H256[k] \subseteq 0 .. 31
  /\ \A k \in 1 .. 8 : Rounds!H384[k] \subseteq 0 .. 63 /\ Rounds!H512[k] \subseteq 0 .. 63
<1>1. \A k \in 1 .. 8 : Rounds!H224[k] \subseteq 0 .. 31
  BY NumberFits, SMTT(100) DEF Rounds!H224, Rounds!Table
<1>2. \A k \in 1 .. 8 : Rounds!H256[k] \subseteq 0 .. 31
  BY NumberFits, SMTT(100) DEF Rounds!H256, Rounds!Table
<1>3. \A k \in 1 .. 8 : Rounds!H384[k] \subseteq 0 .. 63
  BY NumberFits, SMTT(100) DEF Rounds!H384, Rounds!Table
<1>4. \A k \in 1 .. 8 : Rounds!H512[k] \subseteq 0 .. 63
  BY NumberFits, SMTT(100) DEF Rounds!H512, Rounds!Table
<1> QED
  BY <1>1, <1>2, <1>3, <1>4
-----------------------------------------------------------------------------
Registers == [0 .. 7 -> WordBits]

\* Where a call is, and what the schedule holds: all words of W that sha2_big.c computed are
\* what they are to be, and sha2.c has as many as fit in its ring.
RoundsInv ==
  /\ function \in DOMAIN Rounds!Width
  /\ val \in Registers /\ reg \in Registers
  /\ at \in {"idle", "expand", "step"} /\ n \in Nat
  /\ at = "idle" => data = <<>> /\ reg = val
  /\ at # "idle" => data \in [0 .. 15 -> WordBits]
  /\ at = "expand" => Rounds!Big /\ n < 80 /\ reg = val /\ DOMAIN W = 0 .. n - 1
  /\ at = "step" /\ Rounds!Big => n <= 80 /\ DOMAIN W = 0 .. 79
  /\ at = "step" /\ ~Rounds!Big => n <= 64 /\ DOMAIN W = 0 .. (IF n < 16 THEN n ELSE 16) - 1
  /\ at # "idle" /\ Rounds!Big => \A j \in DOMAIN W : W[j] = Rounds!Expanded(j)

LEMMA Widths ==
  ASSUME function \in DOMAIN Rounds!Width
  PROVE  /\ Rounds!w \in {32, 64} /\ (Rounds!Big <=> Rounds!w = 64)
         /\ function \in {"sha224", "sha256"} <=> Rounds!w = 32
         /\ function \in {"sha384", "sha512"} <=> Rounds!w = 64
         /\ function \in {"sha224", "sha256", "sha384", "sha512"}
  BY SMT DEF Rounds!w, Rounds!Big, Rounds!Width

LEMMA RoundsInit == Rounds!Init => RoundsInv
<1> SUFFICES ASSUME Rounds!Init PROVE RoundsInv
  OBVIOUS
<1>1. function \in DOMAIN Rounds!Width /\ val = Rounds!InitialValue /\ reg = val
      /\ data = <<>> /\ n = 0 /\ at = "idle"
  BY DEF Rounds!Init
<1>2. Rounds!InitialValue \in Registers
  <2>1. CASE function = "sha224"
    <3>1. Rounds!InitialValue = [k \in 0 .. 7 |-> Rounds!H224[k + 1]] /\ Rounds!w = 32
      BY <2>1, <1>1, Widths, SMT DEF Rounds!InitialValue
    <3> QED
      BY <3>1, TablesFit, SMT DEF Registers, WordBits
  <2>2. CASE function = "sha256"
    <3>1. Rounds!InitialValue = [k \in 0 .. 7 |-> Rounds!H256[k + 1]] /\ Rounds!w = 32
      BY <2>2, <1>1, Widths, SMT DEF Rounds!InitialValue
    <3> QED
      BY <3>1, TablesFit, SMT DEF Registers, WordBits
  <2>3. CASE function = "sha384"
    <3>1. Rounds!InitialValue = [k \in 0 .. 7 |-> Rounds!H384[k + 1]] /\ Rounds!w = 64
      BY <2>3, <1>1, Widths, SMT DEF Rounds!InitialValue
    <3> QED
      BY <3>1, TablesFit, SMT DEF Registers, WordBits
  <2>4. CASE function = "sha512"
    <3>1. Rounds!InitialValue = [k \in 0 .. 7 |-> Rounds!H512[k + 1]] /\ Rounds!w = 64
      BY <2>4, <1>1, Widths, SMT DEF Rounds!InitialValue
    <3> QED
      BY <3>1, TablesFit, SMT DEF Registers, WordBits
  <2> QED
    BY <1>1, <2>1, <2>2, <2>3, <2>4, Widths
<1> QED
  BY <1>1, <1>2, SMT DEF RoundsInv

\* The registers have eight names at every step, and one step on each has the next name.
LEMMA Roles ==
  ASSUME n \in Nat
  PROVE  /\ \A k \in 0 .. 7 : Rounds!Role(k) \in 0 .. 7
         /\ \A j, k \in 0 .. 7 : Rounds!Role(j) = Rounds!Role(k) => j = k
         /\ n' = n + 1 => /\ Rounds!Role(0)' = Rounds!Role(7)
                          /\ \A k \in 1 .. 7 : Rounds!Role(k)' = Rounds!Role(k - 1)
         /\ n % 8 = 0 => \A k \in 0 .. 7 : Rounds!Role(k) = k
  BY SMT DEF Rounds!Role

LEMMA TurnMaps ==
  ASSUME n \in Nat, reg \in Registers, n' = n + 1, UNCHANGED function,
         NEW T1, NEW T2, reg' = Rounds!Turned(T1, T2)
  PROVE  /\ reg' \in Registers
         /\ [k \in 0 .. 7 |-> Rounds!Reg(k)'] =
              [k \in 0 .. 7 |-> CASE k = 0 -> Rounds!Sum(Rounds!w, <<T1, T2>>)
                                  [] k = 4 -> Rounds!Sum(Rounds!w, <<Rounds!Reg(3), T1>>)
                                  [] OTHER -> Rounds!Reg(k - 1)]
<1> DEFINE new(k) == IF k = 3 THEN Rounds!Sum(Rounds!w, <<Rounds!Reg(3), T1>>)
                     ELSE IF k = 7 THEN Rounds!Sum(Rounds!w, <<T1, T2>>)
                     ELSE Rounds!Reg(k)
<1>1. /\ \A k \in 0 .. 7 : Rounds!Role(k) \in 0 .. 7
      /\ \A j, k \in 0 .. 7 : Rounds!Role(j) = Rounds!Role(k) => j = k
      /\ Rounds!Role(0)' = Rounds!Role(7)
      /\ \A k \in 1 .. 7 : Rounds!Role(k)' = Rounds!Role(k - 1)
  BY Roles
<1>2. reg' \in Registers
  BY <1>1, SumFits DEF Rounds!Turned, Registers, WordBits
<1>3. \A k \in 0 .. 7 : reg'[Rounds!Role(k)] = new(k)
  BY <1>1, SMT DEF Rounds!Turned, Registers, Rounds!Reg
<1>4. \A k \in 0 .. 7 :
        Rounds!Reg(k)' = CASE k = 0 -> Rounds!Sum(Rounds!w, <<T1, T2>>)
                           [] k = 4 -> Rounds!Sum(Rounds!w, <<Rounds!Reg(3), T1>>)
                           [] OTHER -> Rounds!Reg(k - 1)
  <2> SUFFICES ASSUME NEW k \in 0 .. 7
               PROVE  Rounds!Reg(k)' = CASE k = 0 -> Rounds!Sum(Rounds!w, <<T1, T2>>)
                                         [] k = 4 -> Rounds!Sum(Rounds!w, <<Rounds!Reg(3), T1>>)
                                         [] OTHER -> Rounds!Reg(k - 1)
    OBVIOUS
  <2>1. CASE k = 0
    <3>1. Rounds!Reg(k)' = new(7)
      BY <1>1, <1>3, <2>1 DEF Rounds!Reg
    <3> QED
      BY <2>1, <3>1
  <2>2. CASE k # 0
    <3>1. k - 1 \in 0 .. 7 /\ k \in 1 .. 7
      BY <2>2
    <3>2. Rounds!Reg(k)' = new(k - 1)
      <4>1. Rounds!Reg(k)' = reg'[Rounds!Role(k)']
        BY DEF Rounds!Reg
      <4>2. Rounds!Role(k)' = Rounds!Role(k - 1)
        BY <1>1, <3>1
      <4> HIDE DEF new
      <4> QED
        BY <1>3, <3>1, <4>1, <4>2
    <3> QED
      BY <2>2, <3>1, <3>2
  <2> QED
    BY <2>1, <2>2
<1> QED
  BY <1>2, <1>4
-----------------------------------------------------------------------------
LEMMA PutIs ==
  ASSUME NEW j, NEW word, W' = Rounds!Put(j, word)
  PROVE  /\ DOMAIN W' = DOMAIN W \cup {j} /\ W'[j] = word
         /\ \A k \in DOMAIN W : k # j => W'[k] = W[k]
  BY DEF Rounds!Put

LEMMA ExpandedStays ==
  ASSUME NEW k \in Nat, UNCHANGED data, DOMAIN W = 0 .. k - 1,
         \A j \in 0 .. k - 1 : W'[j] = W[j]
  PROVE  \A j \in 0 .. k : Rounds!Expanded(j)' = Rounds!Expanded(j)
<1> SUFFICES ASSUME NEW j \in 0 .. k PROVE Rounds!Expanded(j)' = Rounds!Expanded(j)
  OBVIOUS
<1>1. CASE j < 16
  BY <1>1 DEF Rounds!Expanded
<1>2. CASE ~(j < 16)
  <2>1. j - 2 \in 0 .. k - 1 /\ j - 7 \in 0 .. k - 1 /\ j - 15 \in 0 .. k - 1 /\ j - 16 \in 0 .. k - 1
    BY <1>2
  <2>2. /\ W'[j - 2] = W[j - 2] /\ W'[j - 7] = W[j - 7]
        /\ W'[j - 15] = W[j - 15] /\ W'[j - 16] = W[j - 16]
    BY <2>1
  <2> QED
    BY <1>2, <2>2 DEF Rounds!Expanded
<1> QED
  BY <1>1, <1>2

LEMMA RoundsKept ==
  ASSUME InputsFit
  PROVE  RoundsInv /\ [Rounds!Next]_(Rounds!vars) => RoundsInv'
<1> SUFFICES ASSUME RoundsInv, [Rounds!Next]_(Rounds!vars) PROVE RoundsInv'
  OBVIOUS
<1>0. /\ function \in DOMAIN Rounds!Width /\ val \in Registers /\ reg \in Registers
      /\ at \in {"idle", "expand", "step"} /\ n \in Nat
      /\ at # "idle" => data \in [0 .. 15 -> WordBits]
      /\ Rounds!w \in {32, 64} /\ (Rounds!Big <=> Rounds!w = 64)
  BY Widths DEF RoundsInv
<1>f. UNCHANGED function => /\ Rounds!w' = Rounds!w /\ Rounds!Big' = Rounds!Big
                            /\ WordBits' = WordBits /\ Registers' = Registers
  BY DEF Rounds!w, Rounds!Big, WordBits, Registers
<1>1. CASE Rounds!Call
  <2>1. /\ at = "idle" /\ data' \in Inputs[Rounds!w] /\ reg' = val /\ W' = <<>> /\ n' = 0
        /\ at' = IF Rounds!Big THEN "expand" ELSE "step"
        /\ UNCHANGED <<function, val>>
    BY <1>1 DEF Rounds!Call
  <2>2. data' \in [0 .. 15 -> WordBits]
    BY <1>0, <2>1, InputsFit DEF InputsFit, WordBits
  <2>3. DOMAIN W' = {}
    BY <2>1
  <2> QED
    BY <1>0, <1>f, <2>1, <2>2, <2>3, SMT DEF RoundsInv
<1>2. ASSUME NEW word, Rounds!SHA2_STEP(word), at = "step", ~Rounds!Big, n < 64
      PROVE  RoundsInv'
  <2>1. /\ W' = Rounds!Put(n % 16, word) /\ n' = n + 1 /\ UNCHANGED <<function, val, data, at, calls>>
        /\ \E T1, T2 : reg' = Rounds!Turned(T1, T2)
    BY <1>2, Zenon DEF Rounds!SHA2_STEP
  <2>2. reg' \in Registers
    BY <1>0, <2>1, TurnMaps
  <2>3. DOMAIN W = 0 .. (IF n < 16 THEN n ELSE 16) - 1
    BY <1>2 DEF RoundsInv
  <2>4. DOMAIN W' = 0 .. (IF n' < 16 THEN n' ELSE 16) - 1
    <3>1. DOMAIN W' = DOMAIN W \cup {n % 16}
      BY <2>1, PutIs, Zenon
    <3>2. CASE n < 16
      <4>1. n % 16 = n
        BY <1>0, <3>2
      <4>2. DOMAIN W = 0 .. n - 1
        BY <2>3, <3>2
      <4>3. DOMAIN W' = 0 .. n
        BY <1>0, <3>1, <4>1, <4>2
      <4>4. (IF n' < 16 THEN n' ELSE 16) - 1 = n
        BY <1>0, <2>1, <3>2
      <4> QED
        BY <4>3, <4>4
    <3>3. CASE ~(n < 16)
      <4>1. n % 16 \in 0 .. 15 /\ DOMAIN W = 0 .. 15
        BY <1>0, <2>3, <3>3
      <4>2. DOMAIN W' = 0 .. 15
        BY <3>1, <4>1
      <4>3. (IF n' < 16 THEN n' ELSE 16) - 1 = 15
        BY <1>0, <2>1, <3>3
      <4> QED
        BY <4>2, <4>3
    <3> QED
      BY <3>2, <3>3
  <2> QED
    BY <1>0, <1>2, <1>f, <2>1, <2>2, <2>4, SMT DEF RoundsInv
<1>3. CASE Rounds!Expand
  <2>1. /\ at = "expand" /\ W' = Rounds!Put(n, Rounds!Expanded(n))
        /\ IF n = 79 THEN n' = 0 /\ at' = "step" ELSE n' = n + 1 /\ at' = at
        /\ UNCHANGED <<function, val, data, reg, calls>>
    BY <1>3, Zenon DEF Rounds!Expand
  <2>2. /\ Rounds!Big /\ n < 80 /\ reg = val /\ DOMAIN W = 0 .. n - 1
        /\ \A j \in DOMAIN W : W[j] = Rounds!Expanded(j)
    BY <2>1 DEF RoundsInv
  <2>3. DOMAIN W' = 0 .. n /\ W'[n] = Rounds!Expanded(n) /\ \A j \in 0 .. n - 1 : W'[j] = W[j]
    <3>1. /\ DOMAIN W' = DOMAIN W \cup {n} /\ W'[n] = Rounds!Expanded(n)
          /\ \A k \in DOMAIN W : k # n => W'[k] = W[k]
      BY <2>1, PutIs, Zenon
    <3>2. DOMAIN W' = 0 .. n
      BY <1>0, <2>2, <3>1
    <3>3. \A j \in 0 .. n - 1 : j # n /\ j \in DOMAIN W
      BY <1>0, <2>2
    <3> QED
      BY <3>1, <3>2, <3>3
  <2>4. \A j \in 0 .. n : Rounds!Expanded(j)' = Rounds!Expanded(j)
    BY <1>0, <2>1, <2>2, <2>3, ExpandedStays
  <2>5. \A j \in DOMAIN W' : W'[j] = Rounds!Expanded(j)'
    <3> SUFFICES ASSUME NEW j \in 0 .. n PROVE W'[j] = Rounds!Expanded(j)'
      BY <2>3
    <3>1. j = n \/ j \in 0 .. n - 1
      BY <1>0
    <3> QED
      BY <2>2, <2>3, <2>4, <3>1
  <2>6. /\ at' \in {"expand", "step"} /\ n' \in Nat /\ n' <= 80
        /\ at' = "expand" => n' < 80 /\ DOMAIN W' = 0 .. n' - 1
        /\ at' = "step" => DOMAIN W' = 0 .. 79
    <3>1. CASE n = 79
      <4>1. n' = 0 /\ at' = "step"
        BY <2>1, <3>1
      <4>2. DOMAIN W' = 0 .. 79
        BY <2>3, <3>1
      <4> QED
        BY <4>1, <4>2
    <3>2. CASE n # 79
      <4>1. n' = n + 1 /\ at' = "expand"
        BY <2>1, <3>2
      <4>2. n' \in Nat /\ n' < 80 /\ n' - 1 = n
        BY <1>0, <2>2, <3>2, <4>1
      <4> QED
        BY <2>3, <4>1, <4>2
    <3> QED
      BY <3>1, <3>2
  <2>7. Rounds!Big' /\ (\A j \in DOMAIN W' : W'[j] = Rounds!Expanded(j)')
    BY <1>f, <2>1, <2>2, <2>5
  <2> QED
    BY <1>0, <1>f, <2>1, <2>2, <2>6, <2>7 DEF RoundsInv
<1>4. CASE Rounds!SHA3_STEP
  <2>1. /\ at = "step" /\ Rounds!Big /\ n < 80 /\ n' = n + 1
        /\ UNCHANGED <<function, val, data, W, at, calls>>
        /\ \E T1, T2 : reg' = Rounds!Turned(T1, T2)
    BY <1>4, Zenon DEF Rounds!SHA3_STEP
  <2>2. reg' \in Registers
    BY <1>0, <2>1, TurnMaps
  <2>3. \A j : Rounds!Expanded(j)' = Rounds!Expanded(j)
    BY <2>1 DEF Rounds!Expanded
  <2> QED
    BY <1>0, <1>f, <2>1, <2>2, <2>3, SMT DEF RoundsInv
<1>5. CASE Rounds!Return
  <2>1. /\ val' = [k \in 0 .. 7 |-> Rounds!Trunc(Rounds!w, Rounds!Plus(val[k], reg[k]))]
        /\ data' = <<>> /\ at' = "idle" /\ reg' = val' /\ W' = <<>> /\ n' = 0
        /\ UNCHANGED function
    BY <1>5 DEF Rounds!Return
  <2>2. val' \in Registers
    BY <2>1, TruncFits DEF Registers, WordBits
  <2> QED
    BY <1>0, <1>f, <2>1, <2>2, SMT DEF RoundsInv
<1>6. CASE UNCHANGED Rounds!vars
  <2>1. UNCHANGED <<function, val, data, W, reg, n, at, calls>>
    BY <1>6 DEF Rounds!vars
  <2>2. \A j : Rounds!Expanded(j)' = Rounds!Expanded(j)
    BY <2>1 DEF Rounds!Expanded
  <2> QED
    BY <1>f, <2>1, <2>2 DEF RoundsInv
<1> QED
  <2>1. Rounds!SHA2_STEP1 => RoundsInv'
    BY <1>0, <1>2, SMT DEF Rounds!SHA2_STEP1
  <2>2. Rounds!SHA2_STEP2 => RoundsInv'
    BY <1>2, Zenon DEF Rounds!SHA2_STEP2
  <2> QED
    BY <1>1, <1>3, <1>4, <1>5, <1>6, <2>1, <2>2, Zenon DEF Rounds!Next, Rounds!Done
-----------------------------------------------------------------------------
\* The last words of a sequence when one more comes.
LEMMA Slides ==
  ASSUME NEW f, NEW k \in Nat, f = [j \in 1 .. k |-> f[j]], NEW e
  PROVE  /\ Append(f, e) = [j \in 1 .. k + 1 |-> IF j = k + 1 THEN e ELSE f[j]]
         /\ k > 0 => Append(Tail(f), e) = [j \in 1 .. k |-> IF j = k THEN e ELSE f[j + 1]]
<1> DEFINE S == {f[j] : j \in 1 .. k} \cup {e}
<1>1. f \in Seq(S) /\ Len(f) = k /\ e \in S
  <2>1. f \in [1 .. k -> S]
    OBVIOUS
  <2> QED
    BY <2>1, LenProperties, SMT
<1> HIDE DEF S
<1>2. Append(f, e) = [j \in 1 .. k + 1 |-> IF j = k + 1 THEN e ELSE f[j]]
  BY <1>1, AppendProperties, SMT
<1>3. ASSUME k > 0
      PROVE  Append(Tail(f), e) = [j \in 1 .. k |-> IF j = k THEN e ELSE f[j + 1]]
  BY <1>1, <1>3, SMT
<1> QED
  BY <1>2, <1>3
-----------------------------------------------------------------------------
\* What stands for v and t of the standard.
Moved == IF at = "step" THEN [k \in 0 .. 7 |-> Rounds!Reg(k)] ELSE val
Steps == IF at = "step" THEN n ELSE 0

Keys == [sha224 |-> Rounds!K, sha256 |-> Rounds!K, sha384 |-> Rounds!K512, sha512 |-> Rounds!K512]

LEMMA KeysAre ==
  ASSUME function \in DOMAIN Rounds!Width
  PROVE  Keys[function] = IF Rounds!Big THEN Rounds!K512 ELSE Rounds!K
  BY Widths, SMT DEF Keys

LEMMA NothingRecent ==
  /\ at # "step" \/ n = 0 => Rounds!Recent = <<>>
  /\ at' # "step" \/ n' = 0 => Rounds!Recent' = <<>>
  BY SMT DEF Rounds!Recent

\* The registers at rest, under their own names.
LEMMA AtRest ==
  ASSUME reg \in Registers, n % 8 = 0, n \in Nat
  PROVE  [k \in 0 .. 7 |-> Rounds!Reg(k)] = reg
  BY Roles DEF Rounds!Reg, Registers

LEMMA RoundsMapInit == Rounds!Init => Rounds!Standard!Init
<1> SUFFICES ASSUME Rounds!Init PROVE Rounds!Standard!Init
  OBVIOUS
<1>1. data = <<>> /\ at = "idle" /\ n = 0
  BY DEF Rounds!Init
<1>2. Rounds!Recent = <<>>
  BY <1>1, NothingRecent
<1> QED
  BY <1>1, <1>2 DEF Rounds!Standard!Init

LEMMA CallMaps ==
  ASSUME InputsFit, RoundsInv, RoundsInv', Rounds!Call
  PROVE  Rounds!Standard!Start
<1>1. /\ at = "idle" /\ data' \in Inputs[Rounds!w] /\ reg' = val /\ n' = 0
      /\ at' = IF Rounds!Big THEN "expand" ELSE "step"
      /\ UNCHANGED <<function, val>>
  BY DEF Rounds!Call
<1>2. data = <<>> /\ DOMAIN data' = 0 .. 15 /\ val \in Registers /\ at' # "idle"
  <2>1. data = <<>> /\ val \in Registers /\ at' # "idle"
    BY <1>1, SMT DEF RoundsInv
  <2>2. data' \in [0 .. 15 -> WordBits']
    BY <2>1 DEF RoundsInv
  <2> QED
    BY <2>1, <2>2
<1>3. Rounds!Recent = <<>> /\ Rounds!Recent' = <<>>
  BY <1>1, NothingRecent
<1>4. Moved = val /\ Moved' = val
  <2>1. Moved = val
    BY <1>1 DEF Moved
  <2>2. CASE at' = "step"
    <3>1. reg' \in Registers' /\ n' % 8 = 0 /\ n' \in Nat
      BY <1>1 DEF RoundsInv
    <3>2. \A k \in 0 .. 7 : Rounds!Role(k)' = k
      BY <1>1, SMT DEF Rounds!Role
    <3>3. [k \in 0 .. 7 |-> Rounds!Reg(k)'] = reg'
      BY <3>1, <3>2 DEF Rounds!Reg, Registers
    <3> QED
      BY <1>1, <2>2, <3>3 DEF Moved
  <2>3. CASE at' # "step"
    BY <1>1, <2>3 DEF Moved
  <2> QED
    BY <2>1, <2>2, <2>3
<1>5. Steps = 0 /\ Steps' = 0
  BY <1>1 DEF Steps
<1> QED
  BY <1>1, <1>2, <1>3, <1>4, <1>5, Zenon DEF Rounds!Standard!Start, Moved, Steps

\* T1 and T2 of the standard.
First(word) ==
  Rounds!Standard!Sum(Rounds!Standard!w,
    <<Moved[7], Rounds!Standard!Sigma(Moved[4], Rounds!Standard!Rotations.Sigma1),
      Rounds!Standard!Ch(Moved[4], Moved[5], Moved[6]), Keys[function][Steps + 1], word>>)
Second ==
  Rounds!Standard!Sum(Rounds!Standard!w,
    <<Rounds!Standard!Sigma(Moved[0], Rounds!Standard!Rotations.Sigma0),
      Rounds!Standard!Maj(Moved[0], Moved[1], Moved[2])>>)

LEMMA StepMaps ==
  ASSUME RoundsInv, at = "step", at' = "step", n' = n + 1, UNCHANGED <<function, val, data>>,
         n < Len(Keys[function]),
         Rounds!Recent' = Append(IF n < 16 THEN Rounds!Recent ELSE Tail(Rounds!Recent),
                                 Rounds!Standard!Scheduled),
         reg' = Rounds!Turned(First(Rounds!Standard!Scheduled), Second)
  PROVE  Rounds!Standard!Step
<1>1. Steps = n /\ Steps' = n + 1 /\ n \in Nat /\ reg \in Registers
  BY DEF Steps, RoundsInv
<1>2. data # <<>>
  <2>1. DOMAIN data = 0 .. 15
    BY DEF RoundsInv
  <2>2. 0 \in DOMAIN data /\ 0 \notin DOMAIN <<>>
    BY <2>1
  <2> QED
    BY <2>2
<1>3. Moved = [k \in 0 .. 7 |-> Rounds!Reg(k)] /\ Moved' = [k \in 0 .. 7 |-> Rounds!Reg(k)']
  BY DEF Moved
<1>4. Moved' = [k \in 0 .. 7 |->
                  CASE k = 0 -> Rounds!Sum(Rounds!w, <<First(Rounds!Standard!Scheduled), Second>>)
                    [] k = 4 -> Rounds!Sum(Rounds!w, <<Rounds!Reg(3), First(Rounds!Standard!Scheduled)>>)
                    [] OTHER -> Rounds!Reg(k - 1)]
  <2> DEFINE T1 == First(Rounds!Standard!Scheduled)
             T2 == Second
  <2>1. reg' = Rounds!Turned(T1, T2)
    OBVIOUS
  <2> HIDE DEF T1, T2
  <2>2. [k \in 0 .. 7 |-> Rounds!Reg(k)'] =
          [k \in 0 .. 7 |-> CASE k = 0 -> Rounds!Sum(Rounds!w, <<T1, T2>>)
                              [] k = 4 -> Rounds!Sum(Rounds!w, <<Rounds!Reg(3), T1>>)
                              [] OTHER -> Rounds!Reg(k - 1)]
    BY <1>1, <2>1, TurnMaps
  <2> QED
    BY <1>3, <2>2 DEF T1, T2
<1>5. Moved' = [k \in 0 .. 7 |->
                  CASE k = 0 -> Rounds!Standard!Sum(Rounds!Standard!w,
                                                    <<First(Rounds!Standard!Scheduled), Second>>)
                    [] k = 4 -> Rounds!Standard!Sum(Rounds!Standard!w,
                                                    <<Moved[3], First(Rounds!Standard!Scheduled)>>)
                    [] OTHER -> Moved[k - 1]]
  <2>1. Moved[3] = Rounds!Reg(3)
    BY <1>3
  <2>2. \A k \in 0 .. 7 : k # 0 => Moved[k - 1] = Rounds!Reg(k - 1)
    BY <1>3
  <2> QED
    BY <1>4, <2>1, <2>2, SameWords
<1> QED
  BY <1>1, <1>2, <1>5, Zenon
     DEF Rounds!Standard!Step, Moved, Steps, Keys, First, Second

LEMMA TurnedAs ==
  ASSUME RoundsInv, at = "step", NEW word
  PROVE  /\ ~Rounds!Big =>
              /\ First(word) = Rounds!Sum(32, <<Rounds!Reg(7), Rounds!BSG2_1(Rounds!Reg(4)),
                                 Rounds!CH(Rounds!Reg(4), Rounds!Reg(5), Rounds!Reg(6)),
                                 Rounds!K[n + 1], word>>)
              /\ Second = Rounds!Sum(32, <<Rounds!BSG2_0(Rounds!Reg(0)),
                                 Rounds!MAJ(Rounds!Reg(0), Rounds!Reg(1), Rounds!Reg(2))>>)
         /\ Rounds!Big =>
              /\ First(word) = Rounds!Sum(64, <<Rounds!Reg(7), Rounds!BSG5_1(Rounds!Reg(4)),
                                 Rounds!CH(Rounds!Reg(4), Rounds!Reg(5), Rounds!Reg(6)),
                                 Rounds!K512[n + 1], word>>)
              /\ Second = Rounds!Sum(64, <<Rounds!BSG5_0(Rounds!Reg(0)),
                                 Rounds!MAJ64(Rounds!Reg(0), Rounds!Reg(1), Rounds!Reg(2))>>)
<1>1. Steps = n /\ n \in Nat /\ reg \in Registers /\ function \in DOMAIN Rounds!Width
  BY DEF Steps, RoundsInv
<1>2. \A k \in 0 .. 7 : Moved[k] = Rounds!Reg(k) /\ Rounds!Reg(k) \in WordBits
  BY <1>1, Roles DEF Moved, Rounds!Reg, Registers
<1>3. /\ Moved[0] = Rounds!Reg(0) /\ Moved[1] = Rounds!Reg(1) /\ Moved[2] = Rounds!Reg(2)
      /\ Moved[4] = Rounds!Reg(4) /\ Moved[5] = Rounds!Reg(5) /\ Moved[6] = Rounds!Reg(6)
      /\ Moved[7] = Rounds!Reg(7)
  BY <1>2
<1>4. /\ Rounds!CH(Rounds!Reg(4), Rounds!Reg(5), Rounds!Reg(6)) =
           Rounds!Standard!Ch(Rounds!Reg(4), Rounds!Reg(5), Rounds!Reg(6))
      /\ Rounds!MAJ(Rounds!Reg(0), Rounds!Reg(1), Rounds!Reg(2)) =
           Rounds!Standard!Maj(Rounds!Reg(0), Rounds!Reg(1), Rounds!Reg(2))
      /\ Rounds!MAJ64(Rounds!Reg(0), Rounds!Reg(1), Rounds!Reg(2)) =
           Rounds!Standard!Maj(Rounds!Reg(0), Rounds!Reg(1), Rounds!Reg(2))
  BY <1>2, ChIs
<1>5. /\ Rounds!Standard!w = Rounds!w
      /\ \A b, s : Rounds!Standard!Sum(b, s) = Rounds!Sum(b, s)
  BY SameWords
<1>6. CASE ~Rounds!Big
  <2>1. Rounds!w = 32 /\ Keys[function] = Rounds!K
    BY <1>1, <1>6, Widths, KeysAre
  <2>2. \A S : /\ Rounds!BSG2_0(S) = Rounds!Standard!Sigma(S, Rounds!Standard!Rotations.Sigma0)
               /\ Rounds!BSG2_1(S) = Rounds!Standard!Sigma(S, Rounds!Standard!Rotations.Sigma1)
    BY <2>1, SigmasAre
  <2> QED
    BY <1>1, <1>3, <1>4, <1>5, <1>6, <2>1, <2>2, Zenon DEF First, Second
<1>7. CASE Rounds!Big
  <2>1. Rounds!w = 64 /\ Keys[function] = Rounds!K512
    BY <1>1, <1>7, Widths, KeysAre
  <2>2. \A S : /\ Rounds!BSG5_0(S) = Rounds!Standard!Sigma(S, Rounds!Standard!Rotations.Sigma0)
               /\ Rounds!BSG5_1(S) = Rounds!Standard!Sigma(S, Rounds!Standard!Rotations.Sigma1)
    BY <2>1, SigmasAre
  <2> QED
    BY <1>1, <1>3, <1>4, <1>5, <1>7, <2>1, <2>2, Zenon DEF First, Second
<1> QED
  BY <1>6, <1>7

\* The words of W that Recent names.
LEMMA RecentIs ==
  /\ at = "step" /\ n \in Nat => LET m == IF n < 16 THEN n ELSE 16
       IN /\ Rounds!Big => Rounds!Recent = [j \in 1 .. m |-> W[n - m + j - 1]]
          /\ ~Rounds!Big => Rounds!Recent = [j \in 1 .. m |-> W[(n - m + j - 1) % 16]]
  /\ at' = "step" /\ n' \in Nat => LET m == IF n' < 16 THEN n' ELSE 16
       IN /\ Rounds!Big' => Rounds!Recent' = [j \in 1 .. m |-> W'[n' - m + j - 1]]
          /\ ~Rounds!Big' => Rounds!Recent' = [j \in 1 .. m |-> W'[(n' - m + j - 1) % 16]]
<1>1. ASSUME at = "step", n \in Nat
      PROVE  LET m == IF n < 16 THEN n ELSE 16
             IN /\ Rounds!Big => Rounds!Recent = [j \in 1 .. m |-> W[n - m + j - 1]]
                /\ ~Rounds!Big => Rounds!Recent = [j \in 1 .. m |-> W[(n - m + j - 1) % 16]]
  BY <1>1 DEF Rounds!Recent
<1>2. ASSUME at' = "step", n' \in Nat
      PROVE  LET m == IF n' < 16 THEN n' ELSE 16
             IN /\ Rounds!Big' => Rounds!Recent' = [j \in 1 .. m |-> W'[n' - m + j - 1]]
                /\ ~Rounds!Big' => Rounds!Recent' = [j \in 1 .. m |-> W'[(n' - m + j - 1) % 16]]
  BY <1>2 DEF Rounds!Recent
<1> QED
  BY <1>1, <1>2

\* sha2.c writes a word where the oldest was, which is that of the same place modulo 16.
RingWord ==
  IF n < 16 THEN data[n]
  ELSE Rounds!Sum(32, <<Rounds!SSG2_1(W[(n - 2) % 16]), W[(n - 7) % 16],
                        Rounds!SSG2_0(W[(n - 15) % 16]), W[n % 16]>>)

LEMMA RingMaps ==
  ASSUME RoundsInv, at = "step", at' = "step", n' = n + 1, UNCHANGED function,
         ~Rounds!Big, W' = Rounds!Put(n % 16, RingWord)
  PROVE  /\ RingWord = Rounds!Standard!Scheduled
         /\ Rounds!Recent' = Append(IF n < 16 THEN Rounds!Recent ELSE Tail(Rounds!Recent), RingWord)
<1>1. /\ n \in Nat /\ function \in DOMAIN Rounds!Width /\ Steps = n /\ Rounds!w = 32 /\ ~Rounds!Big'
      /\ DOMAIN W = 0 .. (IF n < 16 THEN n ELSE 16) - 1
  BY Widths DEF RoundsInv, Steps, Rounds!Big, Rounds!w
<1>2. /\ W'[n % 16] = RingWord
      /\ \A k \in DOMAIN W : k # n % 16 => W'[k] = W[k]
  BY PutIs, Zenon
<1>3. CASE n < 16
  <2>1. RingWord = Rounds!Standard!Scheduled
    BY <1>1, <1>3, Zenon DEF RingWord, Rounds!Standard!Scheduled, Steps
  <2>2. Rounds!Recent = [j \in 1 .. n |-> W[j - 1]]
    <3>1. \A j \in 1 .. n : (n - n + j - 1) % 16 = j - 1
      BY <1>1, <1>3
    <3> QED
      BY <1>1, <1>3, <3>1, RecentIs
  <2>3. Rounds!Recent' = [j \in 1 .. n + 1 |-> W'[j - 1]]
    <3>1. \A j \in 1 .. n + 1 : (n + 1 - (n + 1) + j - 1) % 16 = j - 1
      BY <1>1, <1>3
    <3>2. (IF n' < 16 THEN n' ELSE 16) = n + 1 /\ n' \in Nat /\ n' = n + 1
      BY <1>1, <1>3
    <3>3. Rounds!Recent' = [j \in 1 .. n + 1 |-> W'[(n + 1 - (n + 1) + j - 1) % 16]]
      <4> DEFINE m == IF n' < 16 THEN n' ELSE 16
      <4>1. Rounds!Recent' = [j \in 1 .. m |-> W'[(n' - m + j - 1) % 16]]
        BY <1>1, <3>2, RecentIs, Zenon
      <4>2. m = n + 1
        BY <3>2
      <4> HIDE DEF m
      <4>3. \A j \in 1 .. n + 1 : n' - m + j - 1 = n + 1 - (n + 1) + j - 1
        BY <1>1, <3>2, <4>2
      <4> QED
        BY <4>1, <4>2, <4>3
    <3> QED
      BY <3>1, <3>3
  <2>4. /\ W'[n] = RingWord
        /\ \A j \in 1 .. n : W'[j - 1] = W[j - 1]
    <3>1. n % 16 = n /\ \A j \in 1 .. n : j - 1 \in DOMAIN W /\ j - 1 # n
      BY <1>1, <1>3
    <3> QED
      BY <1>2, <3>1
  <2>5. Append(Rounds!Recent, RingWord) =
          [j \in 1 .. n + 1 |-> IF j = n + 1 THEN RingWord ELSE Rounds!Recent[j]]
    BY <1>1, <2>2, Slides
  <2>6. \A j \in 1 .. n + 1 : W'[j - 1] = IF j = n + 1 THEN RingWord ELSE Rounds!Recent[j]
    <3> SUFFICES ASSUME NEW j \in 1 .. n + 1
                 PROVE  W'[j - 1] = IF j = n + 1 THEN RingWord ELSE Rounds!Recent[j]
      OBVIOUS
    <3>1. CASE j = n + 1
      BY <1>1, <2>4, <3>1
    <3>2. CASE j # n + 1
      <4>1. j \in 1 .. n
        BY <1>1, <3>2
      <4> QED
        BY <2>2, <2>4, <3>2, <4>1
    <3> QED
      BY <3>1, <3>2
  <2> QED
    BY <1>3, <2>1, <2>3, <2>5, <2>6
<1>4. CASE ~(n < 16)
  <2>1. Rounds!Recent = [j \in 1 .. 16 |-> W[(n - 16 + j - 1) % 16]]
    BY <1>1, <1>4, RecentIs
  <2>2. Rounds!Recent' = [j \in 1 .. 16 |-> W'[(n + 1 - 16 + j - 1) % 16]]
    <3> DEFINE m == IF n' < 16 THEN n' ELSE 16
    <3>1. m = 16 /\ n' \in Nat
      BY <1>1, <1>4
    <3>2. Rounds!Recent' = [j \in 1 .. m |-> W'[(n' - m + j - 1) % 16]]
      BY <1>1, <3>1, RecentIs, Zenon
    <3> HIDE DEF m
    <3>3. \A j \in 1 .. 16 : n' - m + j - 1 = n + 1 - 16 + j - 1
      BY <1>1, <3>1
    <3> QED
      BY <3>1, <3>2, <3>3
  <2>3. /\ Rounds!Recent[15] = W[(n - 2) % 16] /\ Rounds!Recent[10] = W[(n - 7) % 16]
        /\ Rounds!Recent[2] = W[(n - 15) % 16] /\ Rounds!Recent[1] = W[n % 16]
    <3>1. /\ (n - 16 + 15 - 1) % 16 = (n - 2) % 16 /\ (n - 16 + 10 - 1) % 16 = (n - 7) % 16
          /\ (n - 16 + 2 - 1) % 16 = (n - 15) % 16 /\ (n - 16 + 1 - 1) % 16 = n % 16
      BY <1>1
    <3> QED
      BY <2>1, <3>1
  <2>4. RingWord = Rounds!Standard!Scheduled
    <3>1. \A S : /\ Rounds!SSG2_0(S) = Rounds!Standard!sigma(S, Rounds!Standard!Rotations.sigma0)
                 /\ Rounds!SSG2_1(S) = Rounds!Standard!sigma(S, Rounds!Standard!Rotations.sigma1)
      BY <1>1, SigmasAre
    <3>2. Rounds!Standard!w = 32 /\ \A b, s : Rounds!Standard!Sum(b, s) = Rounds!Sum(b, s)
      BY <1>1, SameWords
    <3> QED
      BY <1>1, <1>4, <2>3, <3>1, <3>2, Zenon DEF RingWord, Rounds!Standard!Scheduled, Steps
  <2>5. Append(Tail(Rounds!Recent), RingWord) =
          [j \in 1 .. 16 |-> IF j = 16 THEN RingWord ELSE Rounds!Recent[j + 1]]
    BY <2>1, Slides
  <2>6. \A j \in 1 .. 16 : W'[(n + 1 - 16 + j - 1) % 16] =
                             IF j = 16 THEN RingWord ELSE Rounds!Recent[j + 1]
    <3> SUFFICES ASSUME NEW j \in 1 .. 16
                 PROVE  W'[(n + 1 - 16 + j - 1) % 16] =
                          IF j = 16 THEN RingWord ELSE Rounds!Recent[j + 1]
      OBVIOUS
    <3>1. CASE j = 16
      <4>1. (n + 1 - 16 + j - 1) % 16 = n % 16
        BY <1>1, <3>1
      <4> QED
        BY <1>2, <3>1, <4>1
    <3>2. CASE j # 16
      <4>1. /\ (n + 1 - 16 + j - 1) % 16 # n % 16 /\ (n + 1 - 16 + j - 1) % 16 \in 0 .. 15
            /\ n + 1 - 16 + j - 1 = n - 16 + (j + 1) - 1 /\ j + 1 \in 1 .. 16
        BY <1>1, <3>2
      <4>2. DOMAIN W = 0 .. 15
        BY <1>1, <1>4
      <4> QED
        BY <1>2, <2>1, <3>2, <4>1, <4>2
    <3> QED
      BY <3>1, <3>2
  <2> QED
    BY <1>4, <2>2, <2>4, <2>5, <2>6
<1> QED
  BY <1>3, <1>4

LEMMA ScheduleMaps ==
  ASSUME RoundsInv, at = "step", at' = "step", n' = n + 1, UNCHANGED <<function, data, W>>,
         Rounds!Big, n < 80
  PROVE  /\ W[n] = Rounds!Standard!Scheduled
         /\ Rounds!Recent' = Append(IF n < 16 THEN Rounds!Recent ELSE Tail(Rounds!Recent), W[n])
<1>1. /\ n \in Nat /\ function \in DOMAIN Rounds!Width /\ Steps = n /\ Rounds!w = 64 /\ Rounds!Big'
      /\ n \in DOMAIN W /\ W[n] = Rounds!Expanded(n)
  BY Widths, SMT DEF RoundsInv, Steps, Rounds!Big, Rounds!w
<1>2. CASE n < 16
  <2>1. W[n] = Rounds!Standard!Scheduled
    BY <1>1, <1>2, Zenon DEF Rounds!Expanded, Rounds!Standard!Scheduled, Steps
  <2>2. Rounds!Recent = [j \in 1 .. n |-> W[j - 1]]
    <3>1. \A j \in 1 .. n : n - n + j - 1 = j - 1
      BY <1>1, <1>2
    <3> QED
      BY <1>1, <1>2, <3>1, RecentIs
  <2>3. Rounds!Recent' = [j \in 1 .. n + 1 |-> W[j - 1]]
    <3> DEFINE m == IF n' < 16 THEN n' ELSE 16
    <3>1. m = n + 1 /\ n' \in Nat
      BY <1>1, <1>2
    <3>2. Rounds!Recent' = [j \in 1 .. m |-> W'[n' - m + j - 1]]
      BY <1>1, <3>1, RecentIs, Zenon
    <3> HIDE DEF m
    <3>3. \A j \in 1 .. n + 1 : n' - m + j - 1 = j - 1
      BY <1>1, <3>1
    <3> QED
      BY <3>1, <3>2, <3>3
  <2>4. Append(Rounds!Recent, W[n]) =
          [j \in 1 .. n + 1 |-> IF j = n + 1 THEN W[n] ELSE Rounds!Recent[j]]
    BY <1>1, <2>2, Slides
  <2>5. \A j \in 1 .. n + 1 : W[j - 1] = IF j = n + 1 THEN W[n] ELSE Rounds!Recent[j]
    <3> SUFFICES ASSUME NEW j \in 1 .. n + 1
                 PROVE  W[j - 1] = IF j = n + 1 THEN W[n] ELSE Rounds!Recent[j]
      OBVIOUS
    <3>1. CASE j = n + 1
      BY <1>1, <3>1
    <3>2. CASE j # n + 1
      <4>1. j \in 1 .. n
        BY <1>1, <3>2
      <4> QED
        BY <2>2, <3>2, <4>1
    <3> QED
      BY <3>1, <3>2
  <2> QED
    BY <1>2, <2>1, <2>3, <2>4, <2>5
<1>3. CASE ~(n < 16)
  <2>1. Rounds!Recent = [j \in 1 .. 16 |-> W[n - 16 + j - 1]]
    BY <1>1, <1>3, RecentIs
  <2>2. Rounds!Recent' = [j \in 1 .. 16 |-> W[n - 16 + j]]
    <3> DEFINE m == IF n' < 16 THEN n' ELSE 16
    <3>1. m = 16 /\ n' \in Nat
      BY <1>1, <1>3
    <3>2. Rounds!Recent' = [j \in 1 .. m |-> W'[n' - m + j - 1]]
      BY <1>1, <3>1, RecentIs, Zenon
    <3> HIDE DEF m
    <3>3. \A j \in 1 .. 16 : n' - m + j - 1 = n - 16 + j
      BY <1>1, <3>1
    <3> QED
      BY <3>1, <3>2, <3>3
  <2>3. /\ Rounds!Recent[15] = W[n - 2] /\ Rounds!Recent[10] = W[n - 7]
        /\ Rounds!Recent[2] = W[n - 15] /\ Rounds!Recent[1] = W[n - 16]
    <3>1. /\ n - 16 + 15 - 1 = n - 2 /\ n - 16 + 10 - 1 = n - 7
          /\ n - 16 + 2 - 1 = n - 15 /\ n - 16 + 1 - 1 = n - 16
      BY <1>1
    <3> QED
      BY <2>1, <3>1
  <2>4. W[n] = Rounds!Standard!Scheduled
    <3>1. \A S : /\ Rounds!SSG5_0(S) = Rounds!Standard!sigma(S, Rounds!Standard!Rotations.sigma0)
                 /\ Rounds!SSG5_1(S) = Rounds!Standard!sigma(S, Rounds!Standard!Rotations.sigma1)
      BY <1>1, SigmasAre
    <3>2. Rounds!Standard!w = 64 /\ \A b, s : Rounds!Standard!Sum(b, s) = Rounds!Sum(b, s)
      BY <1>1, SameWords
    <3> QED
      BY <1>1, <1>3, <2>3, <3>1, <3>2, Zenon DEF Rounds!Expanded, Rounds!Standard!Scheduled, Steps
  <2>5. Append(Tail(Rounds!Recent), W[n]) =
          [j \in 1 .. 16 |-> IF j = 16 THEN W[n] ELSE Rounds!Recent[j + 1]]
    BY <2>1, Slides
  <2>6. \A j \in 1 .. 16 : W[n - 16 + j] = IF j = 16 THEN W[n] ELSE Rounds!Recent[j + 1]
    <3> SUFFICES ASSUME NEW j \in 1 .. 16
                 PROVE  W[n - 16 + j] = IF j = 16 THEN W[n] ELSE Rounds!Recent[j + 1]
      OBVIOUS
    <3>1. CASE j = 16
      <4>1. n - 16 + j = n
        BY <1>1, <3>1
      <4> QED
        BY <3>1, <4>1
    <3>2. CASE j # 16
      <4>1. n - 16 + j = n - 16 + (j + 1) - 1 /\ j + 1 \in 1 .. 16
        BY <1>1, <3>2
      <4> QED
        BY <2>1, <3>2, <4>1
    <3> QED
      BY <3>1, <3>2
  <2> QED
    BY <1>3, <2>2, <2>4, <2>5, <2>6
<1> QED
  BY <1>2, <1>3

LEMMA ReturnMaps ==
  ASSUME RoundsInv, RoundsInv', Rounds!Return
  PROVE  Rounds!Standard!Finish
<1>1. /\ at = "step" /\ n = (IF Rounds!Big THEN 80 ELSE 64)
      /\ val' = [k \in 0 .. 7 |-> Rounds!Trunc(Rounds!w, Rounds!Plus(val[k], reg[k]))]
      /\ data' = <<>> /\ at' = "idle" /\ reg' = val' /\ n' = 0 /\ UNCHANGED function
  BY DEF Rounds!Return
<1>2. function \in DOMAIN Rounds!Width /\ reg \in Registers /\ n \in Nat /\ n % 8 = 0
  <2>1. n = 80 \/ n = 64
    BY <1>1
  <2>2. n % 8 = 0
    BY <2>1
  <2> QED
    BY <2>2 DEF RoundsInv
<1>3. data # <<>>
  <2>1. DOMAIN data = 0 .. 15
    BY <1>1, SMT DEF RoundsInv
  <2>2. 0 \in DOMAIN data /\ 0 \notin DOMAIN <<>>
    BY <2>1
  <2> QED
    BY <2>2
<1>4. Steps = Len(Keys[function]) /\ Steps' = 0
  BY <1>1, <1>2, KeysAre, KeysEnough DEF Steps
<1>5. Moved = reg /\ Moved' = val'
  BY <1>1, <1>2, AtRest DEF Moved
<1>6. val' = [k \in 0 .. 7 |-> Rounds!Standard!Trunc(Rounds!Standard!w,
                                                     Rounds!Standard!Plus(Moved[k], val[k]))]
  BY <1>1, <1>5, SameWords, PlusCommutes
<1>7. Rounds!Recent' = <<>>
  BY <1>1, NothingRecent
<1> QED
  BY <1>1, <1>3, <1>4, <1>5, <1>6, <1>7, Zenon DEF Rounds!Standard!Finish, Moved, Steps, Keys

LEMMA RoundsMap ==
  ASSUME InputsFit
  PROVE  RoundsInv /\ RoundsInv' /\ [Rounds!Next]_(Rounds!vars)
           => [Rounds!Standard!Next]_(Rounds!Standard!vars)
<1> SUFFICES ASSUME RoundsInv, RoundsInv', [Rounds!Next]_(Rounds!vars)
             PROVE  [Rounds!Standard!Next]_(Rounds!Standard!vars)
  OBVIOUS
<1>0. n \in Nat /\ function \in DOMAIN Rounds!Width
  BY DEF RoundsInv
<1>1. CASE Rounds!Call
  BY <1>1, CallMaps, Zenon DEF Rounds!Standard!Next
<1>2. ASSUME at = "step", ~Rounds!Big, n < 64, Rounds!SHA2_STEP(RingWord)
      PROVE  Rounds!Standard!Step
  <2>1. /\ W' = Rounds!Put(n % 16, RingWord) /\ n' = n + 1 /\ at' = "step"
        /\ UNCHANGED <<function, val, data>>
        /\ reg' = Rounds!Turned(
             Rounds!Sum(32, <<Rounds!Reg(7), Rounds!BSG2_1(Rounds!Reg(4)),
                              Rounds!CH(Rounds!Reg(4), Rounds!Reg(5), Rounds!Reg(6)),
                              Rounds!K[n + 1], RingWord>>),
             Rounds!Sum(32, <<Rounds!BSG2_0(Rounds!Reg(0)),
                              Rounds!MAJ(Rounds!Reg(0), Rounds!Reg(1), Rounds!Reg(2))>>))
    BY <1>2, Zenon DEF Rounds!SHA2_STEP
  <2>2. reg' = Rounds!Turned(First(RingWord), Second)
    BY <1>2, <2>1, TurnedAs, Zenon
  <2>3. n < Len(Keys[function])
    BY <1>0, <1>2, KeysAre, KeysEnough
  <2>4. /\ RingWord = Rounds!Standard!Scheduled
        /\ Rounds!Recent' = Append(IF n < 16 THEN Rounds!Recent ELSE Tail(Rounds!Recent), RingWord)
    BY <1>2, <2>1, RingMaps, Zenon
  <2> QED
    BY <1>2, <2>1, <2>2, <2>3, <2>4, StepMaps, Zenon
<1>3. CASE Rounds!Expand
  <2>1. /\ at = "expand" /\ UNCHANGED <<function, val, data, reg>>
        /\ (at' = "step" /\ n' = 0) \/ at' = "expand"
    BY <1>3 DEF Rounds!Expand
  <2>2. reg = val /\ val \in Registers
    BY <2>1 DEF RoundsInv
  <2>3. Rounds!Recent = <<>> /\ Rounds!Recent' = <<>>
    BY <2>1, NothingRecent
  <2>4. Steps = 0 /\ Steps' = 0
    BY <2>1 DEF Steps
  <2>5. Moved = val /\ Moved' = val
    <3>1. CASE at' = "step"
      <4>1. \A k \in 0 .. 7 : Rounds!Reg(k)' = reg'[k]
        BY <2>1, <3>1, SMT DEF Rounds!Reg, Rounds!Role
      <4> QED
        BY <2>1, <2>2, <3>1, <4>1 DEF Moved, Registers
    <3>2. CASE at' = "expand"
      BY <2>1, <3>2 DEF Moved
    <3> QED
      BY <2>1, <3>1, <3>2
  <2> QED
    BY <2>1, <2>3, <2>4, <2>5, Zenon DEF Rounds!Standard!vars, Moved, Steps
<1>4. CASE Rounds!SHA3_STEP
  <2>1. /\ at = "step" /\ Rounds!Big /\ n < 80 /\ n' = n + 1 /\ at' = "step"
        /\ UNCHANGED <<function, val, data, W>>
        /\ reg' = Rounds!Turned(
             Rounds!Sum(64, <<Rounds!Reg(7), Rounds!BSG5_1(Rounds!Reg(4)),
                              Rounds!CH(Rounds!Reg(4), Rounds!Reg(5), Rounds!Reg(6)),
                              Rounds!K512[n + 1], W[n]>>),
             Rounds!Sum(64, <<Rounds!BSG5_0(Rounds!Reg(0)),
                              Rounds!MAJ64(Rounds!Reg(0), Rounds!Reg(1), Rounds!Reg(2))>>))
    BY <1>4, Zenon DEF Rounds!SHA3_STEP
  <2>2. reg' = Rounds!Turned(First(W[n]), Second)
    BY <2>1, TurnedAs, Zenon
  <2>3. n < Len(Keys[function])
    BY <1>0, <2>1, KeysAre, KeysEnough
  <2>4. /\ W[n] = Rounds!Standard!Scheduled
        /\ Rounds!Recent' = Append(IF n < 16 THEN Rounds!Recent ELSE Tail(Rounds!Recent), W[n])
    BY <2>1, ScheduleMaps, Zenon
  <2>5. Rounds!Standard!Step
    BY <2>1, <2>2, <2>3, <2>4, StepMaps, Zenon
  <2> QED
    BY <2>5, Zenon DEF Rounds!Standard!Next
<1>5. CASE Rounds!Return
  BY <1>5, ReturnMaps, Zenon DEF Rounds!Standard!Next
<1>6. CASE UNCHANGED Rounds!vars
  BY <1>6 DEF Rounds!vars, Rounds!Standard!vars, Rounds!Recent, Rounds!Reg, Rounds!Role, Rounds!Big, Rounds!w
<1>7. Rounds!SHA2_STEP1 => Rounds!Standard!Next
  <2> SUFFICES ASSUME Rounds!SHA2_STEP1 PROVE Rounds!Standard!Next
    OBVIOUS
  <2>1. at = "step" /\ ~Rounds!Big /\ n < 16 /\ Rounds!SHA2_STEP(data[n])
    BY Zenon DEF Rounds!SHA2_STEP1
  <2>2. RingWord = data[n]
    BY <2>1, Zenon DEF RingWord
  <2>3. n < 64
    BY <1>0, <2>1
  <2> QED
    BY <1>2, <2>1, <2>2, <2>3, Zenon DEF Rounds!Standard!Next
<1>8. Rounds!SHA2_STEP2 => Rounds!Standard!Next
  <2> SUFFICES ASSUME Rounds!SHA2_STEP2 PROVE Rounds!Standard!Next
    OBVIOUS
  <2>1. /\ at = "step" /\ ~Rounds!Big /\ 16 <= n /\ n < 64
        /\ Rounds!SHA2_STEP(Rounds!Sum(32, <<Rounds!SSG2_1(W[(n - 2) % 16]), W[(n - 7) % 16],
                                             Rounds!SSG2_0(W[(n - 15) % 16]), W[n % 16]>>))
    BY Zenon DEF Rounds!SHA2_STEP2
  <2>2. ~(n < 16)
    BY <1>0, <2>1
  <2>3. RingWord = Rounds!Sum(32, <<Rounds!SSG2_1(W[(n - 2) % 16]), W[(n - 7) % 16],
                                    Rounds!SSG2_0(W[(n - 15) % 16]), W[n % 16]>>)
    BY <2>2, Zenon DEF RingWord
  <2> QED
    BY <1>2, <2>1, <2>3, Zenon DEF Rounds!Standard!Next
<1> QED
  BY <1>1, <1>3, <1>4, <1>5, <1>6, <1>7, <1>8, Zenon DEF Rounds!Next, Rounds!Done

\* Whatever is compressed, and whatever was compressed before, the unrolled rounds of sha2.c
\* and sha2_big.c, with their registers under rotating names and their ring of sixteen
\* words, do what the rounds of the standard do.
THEOREM CompressionCorrect ==
  ASSUME InputsFit
  PROVE  Rounds!Spec => Rounds!ImplementsStandard
<1>1. Rounds!Init => RoundsInv /\ Rounds!Standard!Init
  BY RoundsInit, RoundsMapInit, Zenon
<1>2. RoundsInv /\ [Rounds!Next]_(Rounds!vars) => RoundsInv'
  BY RoundsKept, Zenon
<1>3. RoundsInv /\ RoundsInv' /\ [Rounds!Next]_(Rounds!vars)
        => [Rounds!Standard!Next]_(Rounds!Standard!vars)
  BY RoundsMap, Zenon
<1> QED
  BY <1>1, <1>2, <1>3, PTL DEF Rounds!Spec, Rounds!Standard!Spec, Rounds!ImplementsStandard
=============================================================================
