----------------------------- MODULE MCApiCall -----------------------------
(* Instances of ApiCall for TLC. *)
EXTENDS ApiCall, TLC

CONSTANTS a, b

\* One timeout of one tick, and calls without a timeout.
MCTimeouts == {1, Forever}

\* Nothing tells one handle from another.
MCSymmetry == Permutations({a, b})
=============================================================================
