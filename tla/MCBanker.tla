------------------------------ MODULE MCBanker ------------------------------
(* Instances of Banker for TLC: three customers and three resources, with  *)
(* demands that can be met in some orders only, or, at first, in none.     *)
EXTENDS Banker, TLC

Vector(a, b, c) == (0 :> a) @@ (1 :> b) @@ (2 :> c)

MC_Supplies == {Vector(1, 1, 1), Vector(2, 1, 1)}

MC_Demands == {Vector(Vector(1, 1, 0), Vector(1, 1, 1), Vector(0, 0, 1)),
               Vector(Vector(2, 1, 0), Vector(1, 0, 1), Vector(0, 1, 1))}

MC_Amounts == {-1, 0, 1}
MC_Garbage == {0, 1}
MC_Neighbours == {"available", "maximum", "need", "nothing"}
=============================================================================
