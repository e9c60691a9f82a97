----------------------------- MODULE MCHandlers -----------------------------
(* Instances of Handlers for TLC. *)
EXTENDS Handlers

CONSTANTS f, g, e

\* The names of messages differ in no way, nor do the functions of each kind.
MCSymmetry == Permutations(MsgNames) \cup Permutations(Funs)
=============================================================================
