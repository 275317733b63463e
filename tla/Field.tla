--------------------------------- MODULE Field ---------------------------------
(***************************************************************************)
(* The numbers of arrays, for code that computes with them: integers       *)
(* modulo a prime. What holds for them by the rules of addition,           *)
(* multiplication and division holds for floating point numbers up to      *)
(* rounding, and is checked exactly here. Numbers have no order.           *)
(***************************************************************************)
EXTENDS Integers, FiniteSets, FiniteSetsExt

CONSTANT Prime     \* a prime number above 2

Number == 0..(Prime - 1)

Plus(x, y) == (x + y) % Prime
Minus(x, y) == (x - y) % Prime
Times(x, y) == (x * y) % Prime
Inverse_(x) == CHOOSE y \in Number : Times(x, y) = 1
Over(x, y) == Times(x, Inverse_(y))
Sign(x) == IF x = 0 THEN 0 ELSE IF 2 * x < Prime THEN 1 ELSE Prime - 1

(* Half of the numbers are no square: a model that takes roots looks at the others. *)
IsSquare(x) == \E r \in Number : Times(r, r) = x
SquareRoot(x) == CHOOSE r \in Number : Times(r, r) = x

Power[x \in Number, n \in Nat] == IF n = 0 THEN 1 ELSE Times(x, Power[x, n - 1])

Sum_(S, F(_)) == MapThenSumSet(F, S) % Prime
=============================================================================
