---------------------------- MODULE CurveGroup -----------------------------
(***************************************************************************)
(* What the ge_* functions promise in their comments and in ge.h: a point  *)
(* under the group law, whatever represents it.  32 bytes that no one has  *)
(* checked stand for a point or for none.                                  *)
(***************************************************************************)
CONSTANTS Points, Plus(_, _), Minus(_), Nothing

VARIABLES
  point,      \* the point, or Nothing
  call        \* what made it so, and with which other point

Outcome(c) ==
  CASE c[1] = "add"    -> Plus(point, c[2])
    [] c[1] = "sub"    -> Plus(point, Minus(c[2]))
    [] c[1] = "double" -> Plus(point, point)
    [] c[1] = "negate" -> Minus(point)
    [] OTHER           -> point

\* Bytes come from outside; bytes that stand for no point are turned down.
Receive == call' = <<"receive", Nothing>> /\ point' \in Points \cup {Nothing}
Refuse  == call' = <<"refuse", Nothing>> /\ point = Nothing /\ point' = Nothing

Compute ==
  /\ point # Nothing
  /\ call' \in ({"add", "sub"} \X Points) \cup ({"double", "negate", "copy"} \X {Nothing})
  /\ point' = Outcome(call')

Init == point \in Points \cup {Nothing} /\ call = <<"receive", Nothing>>
Next == Receive \/ Refuse \/ Compute
Spec == Init /\ [][Next]_<<point, call>>
=============================================================================
