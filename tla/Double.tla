------------------------------- MODULE Double -------------------------------
(***************************************************************************)
(* The double-precision arithmetic that cpuplugd's rule evaluator applies *)
(* (src/cpuplugd/terms.c, eval_double and eval_term).  A double is a       *)
(* record: k is "num", "inf" or "nan"; s is the sign (+1 or -1, kept for   *)
(* zeros and infinities as IEEE-754 does); a finite value is s * n / d.    *)
(* Values are exact rationals: the rule constants and metrics in the       *)
(* models are small, so rounding never separates two outcomes.  Division   *)
(* by zero yields a signed infinity or NaN, never a trap (the default      *)
(* floating-point environment masks the exceptions).                       *)
(***************************************************************************)
EXTENDS Integers

Abs(i) == IF i < 0 THEN -i ELSE i
SignOf(i) == IF i < 0 THEN -1 ELSE 1

\* A finite double with value p / q (q > 0); a zero result is +0.
Fin(p, q) == [k |-> "num", s |-> SignOf(p), n |-> Abs(p), d |-> q]
Inf(sign) == [k |-> "inf", s |-> sign, n |-> 0, d |-> 1]
NaN == [k |-> "nan", s |-> 1, n |-> 0, d |-> 1]
Num(i) == Fin(i, 1)

IsNaN(x) == x.k = "nan"
IsInf(x) == x.k = "inf"
IsZero(x) == x.k = "num" /\ x.n = 0

\* Unary minus flips the sign, of zeros and infinities too.
Neg(x) == IF IsNaN(x) THEN x ELSE [x EXCEPT !.s = -x.s]

\* x + y: an exact zero sum is -0 only when both addends are -0.
Add(x, y) ==
  CASE IsNaN(x) \/ IsNaN(y) \/ (IsInf(x) /\ IsInf(y) /\ x.s # y.s) -> NaN
    [] IsInf(x) -> x
    [] IsInf(y) -> y
    [] OTHER ->
         LET p == x.s * x.n * y.d + y.s * y.n * x.d
         IN  IF p = 0
               THEN [Fin(0, 1) EXCEPT !.s = IF x.s = -1 /\ y.s = -1 THEN -1 ELSE 1]
               ELSE Fin(p, x.d * y.d)

Sub(x, y) == Add(x, Neg(y))

Mul(x, y) ==
  CASE IsNaN(x) \/ IsNaN(y) \/ (IsInf(x) /\ IsZero(y)) \/ (IsZero(x) /\ IsInf(y)) -> NaN
    [] IsInf(x) \/ IsInf(y) -> Inf(x.s * y.s)
    [] OTHER -> [k |-> "num", s |-> x.s * y.s, n |-> x.n * y.n, d |-> x.d * y.d]

Div(x, y) ==
  CASE IsNaN(x) \/ IsNaN(y) \/ (IsZero(x) /\ IsZero(y)) \/ (IsInf(x) /\ IsInf(y)) -> NaN
    [] IsInf(x) -> Inf(x.s * y.s)
    [] IsInf(y) -> [Fin(0, 1) EXCEPT !.s = x.s * y.s]
    [] IsZero(y) -> Inf(x.s * y.s)
    [] OTHER -> [k |-> "num", s |-> x.s * y.s, n |-> x.n * y.d, d |-> x.d * y.n]

\* x < y; every comparison with NaN is false, and -0 equals +0.
Less(x, y) ==
  CASE IsNaN(x) \/ IsNaN(y) -> FALSE
    [] IsInf(x) -> x.s = -1 /\ ~(IsInf(y) /\ y.s = -1)
    [] IsInf(y) -> y.s = 1
    [] OTHER -> x.s * x.n * y.d < y.s * y.n * x.d

Greater(x, y) == Less(y, x)

\* x != 0.0 (true for NaN and the infinities).
NotZero(x) == ~IsZero(x)

\* The value a double compares equal to, for comparing results.
SameValue(x, y) ==
  \/ IsNaN(x) /\ IsNaN(y)
  \/ ~IsNaN(x) /\ ~IsNaN(y) /\ ~Less(x, y) /\ ~Less(y, x)
=============================================================================
