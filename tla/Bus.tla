-------------------------------- MODULE Bus --------------------------------
(***************************************************************************)
(* What broadcasting promises the applications: all handles hear messages  *)
(* in one common order, that order respects the order in which each sender *)
(* sent, and nothing is heard twice. It promises no delivery: messages may *)
(* be lost, and who is served is decided when a message is put in order.   *)
(***************************************************************************)
EXTENDS Naturals, Sequences

CONSTANT Handles

VARIABLES sent,      \* [Handles -> number of messages sent so far]
          log,       \* the common order, with the handles that are served
          heard      \* [Handles -> the messages its handlers were given]

Init == /\ sent = [h \in Handles |-> 0]
        /\ log = <<>>
        /\ heard = [h \in Handles |-> <<>>]

Send(h) == /\ sent' = [sent EXCEPT ![h] = @ + 1]
           /\ UNCHANGED <<log, heard>>

\* Message n of s is put in order, after all earlier ones of s that ever are.
Order(s, n, to) == /\ \A k \in DOMAIN log : log[k].msg[1] = s => log[k].msg[2] < n
                   /\ log' = Append(log, [msg |-> <<s, n>>, to |-> to])
                   /\ UNCHANGED <<sent, heard>>

\* Handle h hears a message that is later in the order than all it has heard.
Hear(h) == \E k \in DOMAIN log :
              /\ h \in log[k].to
              /\ \A i \in DOMAIN heard[h], l \in DOMAIN log :
                    log[l].msg = heard[h][i] => l < k
              /\ heard' = [heard EXCEPT ![h] = Append(@, log[k].msg)]
              /\ UNCHANGED <<sent, log>>

Next == \E h \in Handles :
           \/ Send(h)
           \/ \E n \in 1..sent[h], to \in SUBSET Handles : Order(h, n, to)
           \/ Hear(h)

Spec == Init /\ [][Next]_<<sent, log, heard>>

=============================================================================
