------------------------------- MODULE Words --------------------------------
(***************************************************************************)
(* Numbers of a fixed width, as bit patterns: a word of n bits is a number *)
(* in 0 .. 2^n - 1.  A float is a sign and a magnitude in halves; one      *)
(* magnitude is infinity, and one number behind it NaN.                    *)
(***************************************************************************)
EXTENDS Integers, FiniteSetsExt

CONSTANT Infinity  \* a magnitude that no other float has

Unsigned(n, x) == x % 2^n

Signed(n, x) == IF Unsigned(n, x) < 2^(n - 1) THEN Unsigned(n, x)
                ELSE Unsigned(n, x) - 2^n

\* The bits that are set in the lowest n of x; and the word with these bits.
BitsOf(n, x) == {i \in 0 .. n - 1 : (x \div 2^i) % 2 = 1}
OfBits(bits) == MapThenSumSet(LAMBDA i : 2^i, bits)

Magnitude(x) == IF x < 0 THEN -x ELSE x

\* Division rounds towards zero, in C and in WebAssembly.
Quotient(a, b) ==
  LET q == Magnitude(a) \div Magnitude(b) IN IF (a < 0) = (b < 0) THEN q ELSE -q

Remainder(a, b) == a - b * Quotient(a, b)

Truth(b) == IF b THEN 1 ELSE 0

-----------------------------------------------------------------------------
NaN == 2 * Infinity + 2

Float(negative, halves) == 2 * halves + Truth(negative)

Negative(f) == f % 2 = 1
Halves(f) == IF Negative(f) THEN -(f \div 2) ELSE f \div 2
IsZero(f) == f \in {0, 1}

\* The comparisons; none of them holds of a NaN but that it is not equal.
Less(f, g) == f # NaN /\ g # NaN /\ Halves(f) < Halves(g)
Equal(f, g) == f # NaN /\ g # NaN /\ Halves(f) = Halves(g)
=============================================================================
