------------------------------ MODULE PointOps -----------------------------
(***************************************************************************)
(* A point as the functions of ref10 and amd64-64-24k-pic handle it: 32    *)
(* bytes, decoded by either library, then in one of three representations, *)
(* one of which lacks what additions need, and bytes again.                *)
(***************************************************************************)
EXTENDS Edwards

CONSTANTS
  Operands,       \* the points that are added or subtracted
  Scalings,       \* values of Z an operand may have
  Nothing         \* no point

ASSUME OperandsAssumption ==
  Operands \subseteq Curve /\ Scalings \subseteq F \ {0} /\ Nothing \notin Curve

VARIABLES
  form,           \* "bytes", "p3", "p2" or "p1p1"
  reg,            \* the word, or the struct
  call            \* history: the last call and its operand

pointVars == <<form, reg, call>>

Became(f, r, op, q) == form' = f /\ reg' = r /\ call' = <<op, q>>

\* A p3 of an affine point with Z = z: what a caller may hold after any calls.
Scaled(q, z) == [X |-> q[1] (.) z, Y |-> q[2] (.) z, Z |-> z, T |-> (q[1] (.) q[2]) (.) z]

PointInit == form = "bytes" /\ reg \in Words /\ call = <<"receive", Nothing>>

Receive(w) == form = "bytes" /\ Became("bytes", w, "receive", Nothing)

\* Mutants of the decoders and of sub stand in Edwards.
DecodeRef10 ==
  /\ form = "bytes"
  /\ LET d == FromBytesNegate(reg)
     IN IF d.ok THEN Became("p3", d.point, "negate", Nothing)
        ELSE Became("bytes", reg, "refuse", Nothing)

DecodeAmd64 ==
  /\ form = "bytes"
  /\ LET d == UnpackNeg(reg)
     IN IF d.ok THEN Became("p3", d.point, "negate", Nothing)
        ELSE Became("bytes", reg, "refuse", Nothing)

\* ge_add and ge_sub of a cached point; ge25519_add_p1p1, ge25519_pnielsadd_p1p1.
Add(q, z) == form = "p3" /\ Became("p1p1", GeAdd(reg, P3ToCached(Scaled(q, z))), "add", q)
Sub(q, z) == form = "p3" /\ Became("p1p1", GeSub(reg, P3ToCached(Scaled(q, z))), "sub", q)

\* ge_madd and ge_msub of a table's entry; ge25519_nielsadd_p1p1.
Madd(q) == form = "p3" /\ Became("p1p1", GeMadd(reg, Precomp(q)), "add", q)
Msub(q) == form = "p3" /\ Became("p1p1", GeMsub(reg, Precomp(q)), "sub", q)

\* ge25519_nielsadd2 adds in place; its table entry may be a negative.
NielsAdd2(q) ==
  form = "p3" /\ Became("p3", P1P1ToP3(GeMadd(reg, Precomp(q))), "add", q)
NielsSub2(q) ==
  form = "p3" /\ Became("p3", P1P1ToP3(GeMadd(reg, PrecompNeg(Precomp(q)))), "sub", q)

\* ge_p2_dbl and ge_p3_dbl.
Double == form \in {"p2", "p3"} /\ Became("p1p1", GeDbl(reg), "double", Nothing)

ToP3   == form = "p1p1" /\ Became("p3", P1P1ToP3(reg), "copy", Nothing)
ToP2   == form = "p1p1" /\ Became("p2", P1P1ToP2(reg), "copy", Nothing)
DropT  == form = "p3" /\ Became("p2", P3ToP2(reg), "copy", Nothing)
Encode == form \in {"p2", "p3"} /\ Became("bytes", ToBytes(reg), "copy", Nothing)

PointNext ==
  \/ \E w \in Words : Receive(w)
  \/ DecodeRef10 \/ DecodeAmd64
  \/ \E q \in Operands, z \in Scalings : Add(q, z) \/ Sub(q, z)
  \/ \E q \in Operands : Madd(q) \/ Msub(q) \/ NielsAdd2(q) \/ NielsSub2(q)
  \/ Double \/ ToP3 \/ ToP2 \/ DropT \/ Encode

PointSpec == PointInit /\ [][PointNext]_pointVars
-----------------------------------------------------------------------------
\* The point that reg stands for.
Value ==
  CASE form = "bytes" -> IF PointsOf(reg) = {} THEN Nothing ELSE CHOOSE p \in PointsOf(reg) : TRUE
    [] form = "p1p1"  -> <<Over(reg.X, reg.Z), Over(reg.Y, reg.T)>>
    [] OTHER          -> <<Over(reg.X, reg.Z), Over(reg.Y, reg.Z)>>

\* ge.h: every representation is of a point of the curve, no denominator is 0, and
\* in extended coordinates XY = ZT.  (Implies that reg has its type.)
Represents ==
  CASE form = "bytes" -> reg \in Words
    [] form = "p3"    -> /\ reg \in [X : F, Y : F, Z : F \ {0}, T : F]
                         /\ reg.X (.) reg.Y = reg.Z (.) reg.T /\ Value \in Curve
    [] form = "p2"    -> reg \in [X : F, Y : F, Z : F \ {0}] /\ Value \in Curve
    [] form = "p1p1"  -> reg \in [X : F, Y : F, Z : F \ {0}, T : F \ {0}] /\ Value \in Curve

\* The two libraries decode every word to the same point or both refuse it, and what
\* they refuse is what stands for no point; a word stands for one point at most.
DecodersAgree ==
  form = "bytes" =>
    /\ FromBytesNegate(reg) = UnpackNeg(reg)
    /\ FromBytesNegate(reg).ok <=> Value # Nothing
    /\ \A p, q \in PointsOf(reg) : p = q

\* The functions implement the group, with negation where a word is decoded, and
\* no change of the point where one is encoded.
Group == INSTANCE CurveGroup WITH
  point <- Value, Points <- Curve, Plus <- AffineAdd, Minus <- AffineNeg

GroupSpec == Group!Spec

\* What is encoded has its y reduced, and equal points have equal bytes: of the words
\* that stand for a point, the least.
EncodingIsCanonical ==
  [][Encode => \A w \in Words : PointsOf(w) = PointsOf(reg') => reg' <= w]_pointVars
=============================================================================
