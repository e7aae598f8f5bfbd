------------------------ MODULE MCDeterministicMatch ------------------------
(* Small instances of DeterministicMatch for TLC.                             *)
EXTENDS DeterministicMatch

Rec(a, c, r, x, d, f) ==
  [amount |-> a, currency |-> c, refs |-> r, ext |-> x, date |-> d, fee |-> f]
Plain(a) == Rec(a, "USD", {}, NoRef, 0, 0)

\* Amounts that pair and that add up, a refund, a foreign record, a late and two
\* very late ones, one with a fee, one with a reference and an external id.
Varied == {Plain(1), Plain(2), Plain(3), Plain(-1), Rec(3, "EUR", {}, NoRef, 0, 0),
           Rec(2, "USD", {}, NoRef, 2, 0), Rec(2, "USD", {}, NoRef, 9, 0), Rec(1, "USD", {}, NoRef, 9, 0),
           Rec(3, "USD", {}, NoRef, 0, 1), Rec(3, "USD", {"inv"}, "x", 9, 0)}

TwoDistinct == {<<1, 2>>}
ThreeDistinct == {<<1, 2, 3>>}
==============================================================================
