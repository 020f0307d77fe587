----------------------------- MODULE Fractions -----------------------------
(***************************************************************************)
(* The ratios of the pressure and admission code as exact fractions        *)
(* <<n, d>>: n a natural number, d a positive one.  The code computes them *)
(* in float64; the rounding is left out.                                   *)
(***************************************************************************)
EXTENDS Integers

Zero == <<0, 1>>
One == <<1, 1>>
Percent(p) == <<p, 100>>
AtLeast(f, g) == f[1] * g[2] >= g[1] * f[2]
Larger(f, g) == IF AtLeast(f, g) THEN f ELSE g
Smaller(f, g) == IF AtLeast(f, g) THEN g ELSE f
Plus(f, g) == <<f[1] * g[2] + g[1] * f[2], f[2] * g[2]>>

\* n / d, and 0 when d is 0.
safeRatio(n, d) == IF d = 0 THEN Zero ELSE <<n, d>>
\* The same, and at most 1.
Capped(f) == Smaller(f, One)
\* uint64(float64(n) * f): the integer part.
Portion(n, f) == (n * f[1]) \div f[2]
=============================================================================
