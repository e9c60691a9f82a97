-------------------------------- MODULE Rpc --------------------------------
(***************************************************************************)
(* What an api call promises the two applications, whatever lies between   *)
(* them: the handler runs at most once, and only for a call that was made; *)
(* the caller gets one answer; the answer "OK" is what the handler of this *)
(* very call returned, and after "can't find" the handler never runs. A    *)
(* timeout promises nothing of the handler: it may run before or after. A  *)
(* call that a signal interrupts returns what happens to be in memory,     *)
(* "OK" included: INTERRUPTED stands for that, and promises nothing.       *)
(***************************************************************************)
EXTENDS Naturals

CONSTANT Calls           \* one element for each call that is ever made

VARIABLES status,        \* [Calls -> what the caller knows of the call]
          ran            \* [Calls -> how often its handler was started]

NotFound == {"CANTFIND_PROGRAM", "CANTFIND_API"}
Answers == NotFound \cup {"OK", "TIMEOUT", "INTERRUPTED"}

Init == /\ status = [c \in Calls |-> "idle"]
        /\ ran = [c \in Calls |-> 0]

Issue(c) == /\ status[c] = "idle"
            /\ status' = [status EXCEPT ![c] = "pending"]
            /\ UNCHANGED ran

Run(c) == /\ status[c] \notin NotFound \cup {"idle"}
          /\ ran[c] = 0
          /\ ran' = [ran EXCEPT ![c] = 1]
          /\ UNCHANGED status

Return(c) == \E a \in Answers :
                /\ status[c] = "pending"
                /\ a = "OK" => ran[c] = 1
                /\ a \in NotFound => ran[c] = 0
                /\ status' = [status EXCEPT ![c] = a]
                /\ UNCHANGED ran

Next == \E c \in Calls : Issue(c) \/ Run(c) \/ Return(c)

Spec == Init /\ [][Next]_<<status, ran>>

=============================================================================
