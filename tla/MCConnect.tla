----------------------------- MODULE MCConnect -----------------------------
(* Instances of Connect for TLC. *)
EXTENDS Connect, TLC

CONSTANTS h1, h2, app

\* Two processes, or two lives of one program, that use the same name.
MCOneName == (h1 :> app) @@ (h2 :> app)

\* The process that uses the name first can try twice, the other one often enough.
MCSockets == (h1 :> 2) @@ (h2 :> 13)
=============================================================================
