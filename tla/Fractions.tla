------------------------------ MODULE Fractions ------------------------------
(* Rationals as pairs <<numerator, denominator>> in lowest terms, the       *)
(* denominator positive.                                                    *)
EXTENDS Integers

Divides(d, a) == a % d = 0

\* The greatest common divisor of two numbers, the second positive.
GCD(a, b) ==
    LET D == {d \in 1..b : Divides(d, a) /\ Divides(d, b)}
    IN CHOOSE d \in D : \A e \in D : e <= d

Lowest(a) == LET d == GCD(a[1], a[2]) IN <<a[1] \div d, a[2] \div d>>

Whole(n) == <<n, 1>>
Zero == Whole(0)
Plus(a, b) == Lowest(<<a[1] * b[2] + b[1] * a[2], a[2] * b[2]>>)
Times(a, b) == Lowest(<<a[1] * b[1], a[2] * b[2]>>)
Over(a, b) == Lowest(<<a[1] * b[2], a[2] * b[1]>>)     \* b positive

Power(a, k) ==
    LET power[i \in 0..k] == IF i = 0 THEN Whole(1) ELSE Times(power[i - 1], a)
    IN power[k]

Below(a, b) == a[1] * b[2] < b[1] * a[2]
AtMost(a, b) == ~Below(b, a)
Lesser(a, b) == IF Below(b, a) THEN b ELSE a
Greater(a, b) == IF Below(a, b) THEN b ELSE a
=============================================================================
