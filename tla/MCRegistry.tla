----------------------------- MODULE MCRegistry -----------------------------
(* Instances of Registry for TLC. *)
EXTENDS Registry

CONSTANTS p1, p2, p3, app1, app2

\* p1 and p2 are two runs of the same program. The pid p1 is also used again by
\* the other program, while the list may still hold it under the first name.
MCRequests == {<<p1, app1>>, <<p2, app1>>, <<p3, app2>>, <<p1, app2>>}

\* A packet is only ever sent by a pid that some client has.
MCPids == {p1, p2, p3}
MCNames == {app1, app2}
=============================================================================
