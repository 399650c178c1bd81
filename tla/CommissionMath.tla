----------------------------- MODULE CommissionMath -----------------------------
(***************************************************************************)
(* Integer commission arithmetic: amounts in centimes, rates in parts of   *)
(* Scale, halves rounded up.                                               *)
(***************************************************************************)
EXTENDS Naturals

CONSTANT Scale   \* RATE_SCALE, 10 000 in the code

ASSUME ScaleConstant == Scale \in Nat \ {0}

\* The rates rateToUnits lets through.
Units == 0 .. Scale

\* Quotient, one more when the remainder is at least half of the divisor.
HalfUp(n, d) == IF (n % d) * 2 >= d THEN n \div d + 1 ELSE n \div d

CommissionFor(amount, units) == HalfUp(amount * units, Scale)

\* The single rate shown for an earning of several rules.
BlendedRate(commission, gross) ==
  IF gross = 0 THEN 0 ELSE HalfUp(commission * Scale, gross)

=============================================================================
