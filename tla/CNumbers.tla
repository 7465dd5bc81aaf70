------------------------------ MODULE CNumbers ------------------------------
(* Numbers as C has them. *)
EXTENDS Integers

Abs(n) == IF n < 0 THEN -n ELSE n
Least(a, b) == IF a <= b THEN a ELSE b
Most(a, b) == IF a >= b THEN a ELSE b
Clamped(n, low, high) == Least(Most(n, low), high)

\* Division cuts toward zero; a shift to the right floors, as \div does.
Cut(a, b) == IF (a < 0) = (b < 0) THEN Abs(a) \div Abs(b) ELSE -(Abs(a) \div Abs(b))

\* The number of so many bits whose two's complement is n.
Signed(n, bits) == IF n >= 2 ^ (bits - 1) THEN n - 2 ^ bits ELSE n
=============================================================================
