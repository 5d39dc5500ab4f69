------------------------------ MODULE Rounding ------------------------------
(***************************************************************************)
(* Python's round() on a quotient, as the note builders use it.            *)
(***************************************************************************)
LOCAL INSTANCE Integers

\* round(n / d): half to even.
Round(n, d) ==
  LET q == n \div d
      r == n % d
  IN  IF 2 * r > d \/ (2 * r = d /\ q % 2 = 1) THEN q + 1 ELSE q
=============================================================================
