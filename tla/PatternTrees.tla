---------------------------- MODULE PatternTrees ----------------------------
(***************************************************************************)
(* Pattern trees as PatternCodegen compiles them, for the instances TLC    *)
(* checks.                                                                 *)
(***************************************************************************)
LitN(t)        == [op |-> "LIT", text |-> t]
ClassN(op, cs) == [op |-> op, set |-> cs]
CountN(op, n)  == [op |-> op, n |-> n]
PlainN(op)     == [op |-> op]
AnchorN(t)     == [op |-> "ANCHOR", type |-> t]
Cat(ps)        == [op |-> "CONCAT", parts |-> ps]
Alt(l, r)      == [op |-> "ALT", left |-> l, right |-> r]
Rep(x, lo, hi) == [op |-> "REPETITION", sub |-> x, min |-> lo, max |-> hi]
Arbno(x)       == [op |-> "ARBNO", sub |-> x]
Cap(c, x)      == [op |-> "CAP", r |-> c, sub |-> x]
=============================================================================
