------------------------------ MODULE ApiCall ------------------------------
(***************************************************************************)
(* An api call from ipc_call_api in one process, through the daemon, to    *)
(* the handler in another process and back.                                *)
(*                                                                         *)
(* Packets of all clients reach the daemon through one UDP socket, so      *)
(* toDaemon is one FIFO queue; each client has one for its api port. In    *)
(* the daemon recv_alist holds calls for the thread _ipcd_api_probe, and   *)
(* recv_acklist the calls that were relayed and wait for an end record or  *)
(* for their timeout. All handlers and threads of the daemon run with      *)
(* mlist_mutex held, hence as single actions.                              *)
(*                                                                         *)
(* A handle stands for its pid and its name: Registry shows when each      *)
(* identifies one member. One thread per handle makes calls: the client's  *)
(* ack_id counter and wait list have no lock. The processes all exist from *)
(* the start, each with ports of its own: no process comes later to bind   *)
(* the port of one that is gone, and to read what was meant for that.      *)
(***************************************************************************)
EXTENDS Integers, Sequences, FiniteSets, SequencesExt

CONSTANTS
    Handles,          \* joined process handles
    Callers,          \* those whose application makes calls
    Apis,             \* api names
    Timeouts,         \* timeouts given to ipc_call_api, in ticks of 100 ms
    Forever,          \* API_TIMEOUT_MAX, what timeout 0 is turned into
    Sizes,            \* "fits" or "large": against ipc_msg_packet_max_size
    MayUnregister,    \* TRUE when programs call ipc_unregister_api
    MaxCalls,         \* bound on the calls of all handles together
    MaxFaults         \* bound on crashes, exits and interrupted calls together

ASSUME CallersAssumption == Callers \subseteq Handles /\ IsFiniteSet(Callers)
ASSUME TimeoutsAssumption == Timeouts \subseteq (Nat \ {0}) \cup {Forever}
ASSUME ForeverAssumption == Forever \notin Int
ASSUME SizesAssumption == Sizes \subseteq {"fits", "large"}
ASSUME MayUnregisterAssumption == MayUnregister \in BOOLEAN
ASSUME BoundsAssumption == MaxCalls \in Nat /\ MaxFaults \in Nat

VARIABLES
    alive,            \* the process runs
    waiting,          \* client: the call its thread waits in, or <<>>
    api_ack_magic_num,\* client: next ack_id
    api_recv_list,    \* client: relayed calls for ipc_api_recv_probe
    running,          \* client: calls in an ipc_api_callreal_thread
    toClient,         \* client: packets in the socket of its api port
    toDaemon,         \* packets in the daemon's socket
    member,           \* daemon: "active", "suspended" or "absent" in mlist
    api_list,         \* daemon: names in the member's api_list
    recv_alist,       \* daemon: calls for _ipcd_api_probe
    recv_acklist,     \* daemon: relayed calls without an answer
    api_public_magic_number,
    results,          \* history: what the calls of each handle returned
    ran               \* history: how often the handler of a call was started

clientVars == <<alive, waiting, api_ack_magic_num, api_recv_list, running>>
netVars == <<toClient, toDaemon>>
daemonVars == <<member, api_list, recv_alist, recv_acklist, api_public_magic_number>>
vars == <<clientVars, netVars, daemonVars, results, ran>>

CallIds == Callers \X (0..(MaxCalls - 1))
Id(c) == <<c.send_pid, c.ack_id>>

Init ==
    /\ alive = [h \in Handles |-> TRUE]
    /\ waiting = [h \in Handles |-> <<>>]
    /\ api_ack_magic_num = [h \in Handles |-> 0]
    /\ api_recv_list = [h \in Handles |-> <<>>]
    /\ running = [h \in Handles |-> {}]
    /\ toClient = [h \in Handles |-> <<>>]
    /\ toDaemon = <<>>
    /\ member = [h \in Handles |-> "active"]
    /\ api_list = [h \in Handles |-> {}]
    /\ recv_alist = <<>>
    /\ recv_acklist = <<>>
    /\ api_public_magic_number = 0
    /\ results = [h \in Handles |-> <<>>]
    /\ ran = [c \in CallIds |-> 0]

\* Names with an underscore are mutants: a plausible slip in the definition that
\* follows them, which some property has to notice.

AfterPull_NoDelete(list) == list

\* A thread took the first entry of its list: dlist_delete(list, 0).
AfterPull(list) == Tail(list)

-----------------------------------------------------------------------------
\* The client library

\* ipc_data_to_daemon drops a packet that is too large, and says so only on the
\* standard output.
Send(size, packet) ==
    toDaemon' = IF size = "fits" THEN Append(toDaemon, packet) ELSE toDaemon

\* A signal has ended the call.
Interrupted(id) ==
    \E k \in DOMAIN results[id[1]] :
        results[id[1]][k] = [ack_result |-> "INTERRUPTED", of |-> id]

Faults == Cardinality({h \in Handles : ~alive[h] \/ member[h] = "absent"})
          + Cardinality({id \in CallIds : Interrupted(id)})

\* The application makes calls and registers only before it calls ipc_exit.
Exited(h) == \/ member[h] = "absent"
             \/ \E k \in DOMAIN toDaemon : /\ toDaemon[k].iit = "EXIT"
                                           /\ toDaemon[k].send_pid = h

CallsMade == {id \in CallIds : id[2] < api_ack_magic_num[id[1]]}

\* ipc_call_api, up to sem_wait.
Call(h, g, a, t, size) ==
    /\ h \in Callers
    /\ alive[h] /\ ~Exited(h)
    /\ waiting[h] = <<>>
    /\ Cardinality(CallsMade) < MaxCalls
    /\ LET c == [send_pid |-> h, ack_id |-> api_ack_magic_num[h], pname |-> g,
                 api_name |-> a, daemon_count_number |-> t,
                 daemon_magic_number |-> 0]
       IN  /\ waiting' = [waiting EXCEPT ![h] = <<c>>]
           /\ Send(size, [iit |-> "API_CALL", send_pid |-> h, call |-> c])
    /\ api_ack_magic_num' = [api_ack_magic_num EXCEPT ![h] = @ + 1]
    /\ UNCHANGED <<alive, api_recv_list, running, toClient, daemonVars, results, ran>>

\* ipc_recv_analysis: a relayed call goes to the list of ipc_api_recv_probe.
RecvRelay(h) ==
    /\ alive[h]
    /\ toClient[h] # <<>>
    /\ Head(toClient[h]).iit = "API_RELAY"
    /\ api_recv_list' = [api_recv_list EXCEPT ![h] = Append(@, Head(toClient[h]).call)]
    /\ toClient' = [toClient EXCEPT ![h] = Tail(@)]
    /\ UNCHANGED <<alive, waiting, api_ack_magic_num, running, toDaemon, daemonVars,
                   results, ran>>

\* ipc_recv_analysis: an answer wakes the thread that waits with its ack_id, and
\* ipc_call_api returns; without such a thread it is ignored.
RecvAck(h) ==
    /\ alive[h]
    /\ toClient[h] # <<>>
    /\ LET ack == Head(toClient[h]) IN
         /\ ack.iit = "API_ACK"
         /\ IF waiting[h] # <<>> /\ waiting[h][1].ack_id = ack.ack_id
              THEN /\ waiting' = [waiting EXCEPT ![h] = <<>>]
                   /\ results' = [results EXCEPT ![h] = Append(@,
                                    [ack_result |-> ack.ack_result, of |-> ack.of])]
              ELSE UNCHANGED <<waiting, results>>
    /\ toClient' = [toClient EXCEPT ![h] = Tail(@)]
    /\ UNCHANGED <<alive, api_ack_magic_num, api_recv_list, running, toDaemon,
                   daemonVars, ran>>

\* A signal ends sem_wait: ipc_call_api returns whatever the uninitialised
\* ack_result holds, and frees its entry of the wait list without removing it.
\* The answer that still comes finds that entry, if the memory holds it yet, and
\* wakes nobody; what else it does to freed memory is not followed.
CallInterrupted(h) ==
    /\ alive[h]
    /\ Faults < MaxFaults
    /\ waiting[h] # <<>>
    /\ waiting' = [waiting EXCEPT ![h] = <<>>]
    /\ results' = [results EXCEPT ![h] = Append(@,
                      [ack_result |-> "INTERRUPTED", of |-> Id(waiting[h][1])])]
    /\ UNCHANGED <<alive, api_ack_magic_num, api_recv_list, running, netVars,
                   daemonVars, ran>>

\* ipc_api_recv_probe starts a thread, which calls the handler. The handler is
\* there: ipc_register_api enters it before the daemon hears of it, and
\* ipc_unregister_api leaves it.
StartHandler(h) ==
    /\ alive[h]
    /\ api_recv_list[h] # <<>>
    /\ LET c == Head(api_recv_list[h]) IN
         /\ running' = [running EXCEPT ![h] = @ \cup {c}]
         /\ ran' = [ran EXCEPT ![Id(c)] = @ + 1]
    /\ api_recv_list' = [api_recv_list EXCEPT ![h] = AfterPull(@)]
    /\ UNCHANGED <<alive, waiting, api_ack_magic_num, netVars, daemonVars, results>>

\* The handler returns, and the end record takes its result to the daemon.
EndHandler(h, c, size) ==
    /\ alive[h]
    /\ c \in running[h]
    /\ running' = [running EXCEPT ![h] = @ \ {c}]
    /\ Send(size, [iit |-> "API_END", send_pid |-> h, call |-> c])
    /\ UNCHANGED <<alive, waiting, api_ack_magic_num, api_recv_list, toClient,
                   daemonVars, results, ran>>

\* ipc_register_api and ipc_unregister_api.
Registration(h, a, iit) ==
    /\ alive[h] /\ ~Exited(h)
    /\ iit = "API_REGISTER" => a \notin api_list[h]
    /\ iit = "API_UNREGISTER" => MayUnregister /\ a \in api_list[h]
    /\ ~ \E k \in DOMAIN toDaemon : toDaemon[k].iit = iit /\ toDaemon[k].send_pid = h
    /\ toDaemon' = Append(toDaemon, [iit |-> iit, send_pid |-> h, api_name |-> a])
    /\ UNCHANGED <<clientVars, toClient, daemonVars, results, ran>>

\* ipc_exit only tells the daemon. The other threads of the handle go on, and so
\* does one that waits in a call.
CallExit(h) ==
    /\ alive[h] /\ ~Exited(h)
    /\ Faults < MaxFaults
    /\ toDaemon' = Append(toDaemon, [iit |-> "EXIT", send_pid |-> h])
    /\ UNCHANGED <<clientVars, toClient, daemonVars, results, ran>>

\* The process dies without a word: its sockets and threads are gone.
Crash(h) ==
    /\ alive[h]
    /\ Faults < MaxFaults
    /\ alive' = [alive EXCEPT ![h] = FALSE]
    /\ waiting' = [waiting EXCEPT ![h] = <<>>]
    /\ api_recv_list' = [api_recv_list EXCEPT ![h] = <<>>]
    /\ running' = [running EXCEPT ![h] = {}]
    /\ toClient' = [toClient EXCEPT ![h] = <<>>]
    /\ UNCHANGED <<api_ack_magic_num, toDaemon, daemonVars, results, ran>>

-----------------------------------------------------------------------------
\* The daemon

Reachable_ActiveOnly(h) == member[h] = "active" /\ alive[h]

\* ipcd_api_ack_relay sends to a member, suspended or not; what goes to a dead
\* process is lost.
Reachable(h) == member[h] # "absent" /\ alive[h]

Ack(ack_id, result, of) ==
    [iit |-> "API_ACK", ack_id |-> ack_id, ack_result |-> result, of |-> of]

\* The packet goes to h, if that can be reached.
Relay(h, packet) ==
    toClient' = IF Reachable(h) THEN [toClient EXCEPT ![h] = Append(@, packet)]
                                ELSE toClient

\* The daemon's thread ipcd_msg_recv takes the next packet, of the given kind.
Receives(iit) == toDaemon # <<>> /\ Head(toDaemon).iit = iit /\ toDaemon' = Tail(toDaemon)

Heard(h) == member' = [member EXCEPT ![h] = IF @ = "absent" THEN @ ELSE "active"]

Numbered_Before(c) == [c EXCEPT !.daemon_magic_number = api_public_magic_number - 1]

\* The call with the daemon's number for it.
Numbered(c) == [c EXCEPT !.daemon_magic_number = api_public_magic_number]

\* API_CALL of a member: it is alive, its call gets a number and is queued. The
\* call of a sender that is no member is dropped.
DaemonCall ==
    /\ Receives("API_CALL")
    /\ LET p == Head(toDaemon) IN
         /\ Heard(p.send_pid)
         /\ IF member[p.send_pid] # "absent"
              THEN /\ recv_alist' = Append(recv_alist, Numbered(p.call))
                   /\ api_public_magic_number' = api_public_magic_number + 1
              ELSE UNCHANGED <<recv_alist, api_public_magic_number>>
    /\ UNCHANGED <<clientVars, toClient, api_list, recv_acklist, results, ran>>

\* _ipcd_api_probe relays the first call of recv_alist to the callee and waits
\* for its answer in recv_acklist, or tells the caller that there is none.
ApiProbe ==
    /\ recv_alist # <<>>
    /\ recv_alist' = AfterPull(recv_alist)
    /\ LET c == Head(recv_alist) IN
         IF member[c.pname] = "active" /\ c.api_name \in api_list[c.pname]
           THEN /\ Relay(c.pname, [iit |-> "API_RELAY", call |-> c])
                /\ recv_acklist' = Append(recv_acklist, c)
           ELSE /\ Relay(c.send_pid, Ack(c.ack_id,
                        IF member[c.pname] = "active" THEN "CANTFIND_API"
                                                      ELSE "CANTFIND_PROGRAM", Id(c)))
                /\ UNCHANGED recv_acklist
    /\ UNCHANGED <<clientVars, toDaemon, member, api_list, api_public_magic_number,
                   results, ran>>

Matches_ByName(c) ==
    {k \in DOMAIN recv_acklist : recv_acklist[k].api_name = c.api_name}

\* The entries of recv_acklist that the end record of call c completes.
Matches(c) == {k \in DOMAIN recv_acklist :
                  recv_acklist[k].daemon_magic_number = c.daemon_magic_number}

\* An end record of an api that its sender has registered: the call with its
\* number is taken from recv_acklist and its caller gets the result; without
\* such a call ("api caller miss") nothing happens. When the sender is not a
\* member, or has not registered the api (any more), the result goes to the
\* sender of the record itself, with the ack_id of the caller.
DaemonEnd ==
    /\ Receives("API_END")
    /\ LET h == Head(toDaemon).send_pid
           c == Head(toDaemon).call
           found == Matches(c)
       IN  IF member[h] # "absent" /\ c.api_name \in api_list[h]
             THEN \/ /\ found = {}
                     /\ UNCHANGED <<toClient, recv_acklist>>
                  \/ /\ found # {}
                     /\ Relay(recv_acklist[Min(found)].send_pid,
                              Ack(c.ack_id, "OK", Id(c)))
                     /\ recv_acklist' = RemoveAt(recv_acklist, Min(found))
             ELSE /\ Relay(h, Ack(c.ack_id, "OK", Id(c)))
                  /\ UNCHANGED recv_acklist
    /\ UNCHANGED <<clientVars, member, api_list, recv_alist, api_public_magic_number,
                   results, ran>>

DaemonRegister ==
    /\ Receives("API_REGISTER")
    /\ LET p == Head(toDaemon) IN
         api_list' = IF member[p.send_pid] = "absent" THEN api_list
                     ELSE [api_list EXCEPT ![p.send_pid] = @ \cup {p.api_name}]
    /\ UNCHANGED <<clientVars, toClient, member, recv_alist, recv_acklist,
                   api_public_magic_number, results, ran>>

DaemonUnregister ==
    /\ Receives("API_UNREGISTER")
    /\ LET p == Head(toDaemon) IN
         api_list' = [api_list EXCEPT ![p.send_pid] = @ \ {p.api_name}]
    /\ UNCHANGED <<clientVars, toClient, member, recv_alist, recv_acklist,
                   api_public_magic_number, results, ran>>

DaemonExit ==
    /\ Receives("EXIT")
    /\ LET h == Head(toDaemon).send_pid IN
         /\ member' = [member EXCEPT ![h] = "absent"]
         /\ api_list' = [api_list EXCEPT ![h] = {}]
    /\ UNCHANGED <<clientVars, toClient, recv_alist, recv_acklist,
                   api_public_magic_number, results, ran>>

\* A LIVE packet of h is handled.
DaemonLive(h) ==
    /\ alive[h]
    /\ member[h] = "suspended"
    /\ Heard(h)
    /\ UNCHANGED <<clientVars, netVars, api_list, recv_alist, recv_acklist,
                   api_public_magic_number, results, ran>>

\* ipc_live_thread has not heard of h for too long.
Suspend(h) ==
    /\ member[h] = "active"
    /\ member' = [member EXCEPT ![h] = "suspended"]
    /\ UNCHANGED <<clientVars, netVars, api_list, recv_alist, recv_acklist,
                   api_public_magic_number, results, ran>>

Counted_Never(c) == c

\* daemon_count_number -= 100, unless the call may take forever.
Counted(c) == IF c.daemon_count_number = Forever THEN c
              ELSE [c EXCEPT !.daemon_count_number = @ - 1]
Expired(c) == c.daemon_count_number # Forever /\ c.daemon_count_number <= 0

\* The numbers of S in increasing order.
Ascending(S) ==
    CHOOSE p \in [1..Cardinality(S) -> S] : \A i, j \in DOMAIN p : i < j => p[i] < p[j]

\* The entries of a list at the positions in S, in their order.
EntriesAt(list, S) == [k \in 1..Cardinality(S) |-> list[Ascending(S)[k]]]

Remaining_All(list) == list

\* The list without the entries that have expired.
Remaining(list) == EntriesAt(list, {k \in DOMAIN list : ~Expired(list[k])})

\* The answers of a list of calls to its expired entries of h.
Late(list, h) ==
    EntriesAt([k \in DOMAIN list |-> Ack(list[k].ack_id, "TIMEOUT", Id(list[k]))],
              {k \in DOMAIN list : Expired(list[k]) /\ list[k].send_pid = h /\ Reachable(h)})

\* ipc_api_timeout_check_thread, every 100 ms: all entries count down, and those
\* that reach zero are answered, in their order, and go.
Tick ==
    /\ \E k \in DOMAIN recv_acklist : recv_acklist[k].daemon_count_number # Forever
    /\ LET counted == [k \in DOMAIN recv_acklist |-> Counted(recv_acklist[k])]
       IN  /\ toClient' = [h \in Handles |-> toClient[h] \o Late(counted, h)]
           /\ recv_acklist' = Remaining(counted)
    /\ UNCHANGED <<clientVars, toDaemon, member, api_list, recv_alist,
                   api_public_magic_number, results, ran>>

-----------------------------------------------------------------------------
ClientStep(h) ==
    \/ \E g \in Handles, a \in Apis, t \in Timeouts, size \in Sizes : Call(h, g, a, t, size)
    \/ RecvRelay(h)
    \/ RecvAck(h)
    \/ CallInterrupted(h)
    \/ StartHandler(h)
    \/ \E c \in running[h], size \in Sizes : EndHandler(h, c, size)
    \/ \E a \in Apis : \/ Registration(h, a, "API_REGISTER")
                       \/ Registration(h, a, "API_UNREGISTER")
    \/ CallExit(h)
    \/ Crash(h)

DaemonStep == DaemonCall \/ DaemonEnd \/ DaemonRegister \/ DaemonUnregister \/ DaemonExit

Next == \/ \E h \in Handles : ClientStep(h) \/ DaemonLive(h) \/ Suspend(h)
        \/ DaemonStep
        \/ ApiProbe
        \/ Tick

Spec == Init /\ [][Next]_vars

\* The threads of the daemon and the receiving thread of each client are always
\* scheduled. Nothing is asked of the handlers, of the applications, or of the
\* thread that starts handlers.
Fairness == /\ WF_vars(DaemonStep)
            /\ WF_vars(ApiProbe)
            /\ WF_vars(Tick)
            /\ \A h \in Handles : WF_vars(RecvRelay(h) \/ RecvAck(h))

FairSpec == Spec /\ Fairness
-----------------------------------------------------------------------------
CallRecord == [send_pid : Callers, ack_id : 0..(MaxCalls - 1), pname : Handles,
               api_name : Apis, daemon_count_number : Timeouts \cup Int,
               daemon_magic_number : Nat]
AckResults == {"OK", "TIMEOUT", "CANTFIND_PROGRAM", "CANTFIND_API"}
Result == [ack_result : AckResults \cup {"INTERRUPTED"}, of : CallIds]
AckPacket == [iit : {"API_ACK"}, ack_id : 0..(MaxCalls - 1), ack_result : AckResults,
              of : CallIds]
ClientPacket == [iit : {"API_RELAY"}, call : CallRecord] \cup AckPacket
DaemonPacket ==
    [iit : {"API_CALL", "API_END"}, send_pid : Handles, call : CallRecord]
    \cup [iit : {"API_REGISTER", "API_UNREGISTER"}, send_pid : Handles, api_name : Apis]
    \cup [iit : {"EXIT"}, send_pid : Handles]

\* Every variable keeps its type.
TypeOK ==
    /\ alive \in [Handles -> BOOLEAN]
    /\ waiting \in [Handles -> Seq(CallRecord)] /\ \A h \in Handles : Len(waiting[h]) <= 1
    /\ api_ack_magic_num \in [Handles -> 0..MaxCalls]
    /\ api_recv_list \in [Handles -> Seq(CallRecord)]
    /\ running \in [Handles -> SUBSET CallRecord]
    /\ toClient \in [Handles -> Seq(ClientPacket)]
    /\ toDaemon \in Seq(DaemonPacket)
    /\ member \in [Handles -> {"active", "suspended", "absent"}]
    /\ api_list \in [Handles -> SUBSET Apis]
    /\ recv_alist \in Seq(CallRecord)
    /\ recv_acklist \in Seq(CallRecord)
    /\ api_public_magic_number \in Nat
    /\ results \in [Handles -> Seq(Result)]
    /\ ran \in [CallIds -> Nat]

\* Call <<h, n>> waits in the thread that made it.
Waits(id) == waiting[id[1]] # <<>> /\ waiting[id[1]][1].ack_id = id[2]

\* The places where the answer to a call still is or can still come from: its
\* packet, its entry in a list of the daemon, and an answer on its way that the
\* caller would take for it.
Sources(id) ==
    LET h == id[1]
        calls(list) == Cardinality({k \in DOMAIN list : Id(list[k]) = id})
    IN  Cardinality({k \in DOMAIN toDaemon : /\ toDaemon[k].iit = "API_CALL"
                                             /\ Id(toDaemon[k].call) = id})
        + calls(recv_alist)
        + calls(recv_acklist)
        + Cardinality({k \in DOMAIN toClient[h] : /\ toClient[h][k].iit = "API_ACK"
                                                  /\ toClient[h][k].ack_id = id[2]})

\* A call that waits has one source of an answer, and a call that its answer
\* ended has none: no answer is lost and none is given twice, whatever the order
\* of timeouts, end records, exits and suspensions. Only a call that a signal
\* ended may have an answer to come that nobody waits for, and only a handle
\* that called ipc_exit may wait for one that never comes.
OneAnswerToCome ==
    \A id \in CallIds :
        alive[id[1]] /\ ~Exited(id[1]) =>
            IF Waits(id) THEN Sources(id) = 1
                         ELSE Sources(id) <= IF Interrupted(id) THEN 1 ELSE 0

\* A call that waits has at least one source of an answer, until its own handle
\* exits: the thread in sem_wait is never forgotten.
AnswerToCome ==
    \A id \in CallIds :
        alive[id[1]] /\ ~Exited(id[1]) /\ Waits(id) => Sources(id) >= 1

\* What a call returns answers that call and no other.
AckAnswersOwnCall ==
    \A h \in Handles : \A k \in DOMAIN results[h] : results[h][k].of = <<h, k - 1>>

\* The handler of a call starts at most once, however the call ends.
HandlerRunsOnce == \A id \in CallIds : ran[id] <= 1

\* A call with a timeout returns unless its own handle exits: the handler may
\* never end, the callee may crash, exit or be suspended.
CallWithTimeoutReturns ==
    \A h \in Handles :
        (waiting[h] # <<>> /\ waiting[h][1].daemon_count_number # Forever)
            ~> (waiting[h] = <<>> \/ ~alive[h] \/ Exited(h))

\* What the caller knows of a call. An answer to another call is none of those
\* that Rpc has.
StatusOf(id) ==
    LET h == id[1]
        n == id[2] + 1
    IN  CASE id[2] >= api_ack_magic_num[h] -> "idle"
          [] n \in DOMAIN results[h] -> IF results[h][n].of = id
                                          THEN results[h][n].ack_result
                                          ELSE "foreign"
          [] OTHER -> "pending"

\* The whole path of a call keeps the promises of Rpc.
R == INSTANCE Rpc WITH Calls <- CallIds,
                       status <- [id \in CallIds |-> StatusOf(id)],
                       ran <- ran
RpcKept == R!Spec

=============================================================================
