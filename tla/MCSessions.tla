------------------------------ MODULE MCSessions -----------------------------
(* Instances of Sessions for TLC. *)
EXTENDS Sessions, TLC

CONSTANTS r1, r2, k1

TwoRequests == {r1, r2}
OneToken    == {k1}
SymTwo      == Permutations(TwoRequests)

(* The clock, the passwords and the failures of a login share one bound.    *)
WithinBudget == now + user.password + user.attempts <= 2
=============================================================================
