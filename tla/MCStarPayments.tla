--------------------------- MODULE MCStarPayments ---------------------------
(* Two orders of one user: the invoice of o1 may be paid twice, and o2     *)
(* competes for the coupon.                                                *)
EXTENDS StarPayments, TLC

CONSTANTS o1, o2, c1, c2, h1, h2, s1, s2, s3

PaidTwice == (c1 :> o1) @@ (c2 :> o1)

Symmetric == Permutations(Handlers) \cup Permutations(Rows)
=============================================================================
