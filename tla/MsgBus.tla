------------------------------- MODULE MsgBus -------------------------------
(***************************************************************************)
(* A message from ipc_send_msg in one process, through the daemon, to the  *)
(* handlers of all processes that registered its name.                     *)
(*                                                                         *)
(* The daemon receives all packets through one UDP socket (toDaemon). The  *)
(* thread ipcd_msg_recv handles registrations at once, but only queues     *)
(* messages, in recv_mlist, for the thread _ipcd_msg_probe. A client's     *)
(* thread ipc_recv_msg_alloc moves what arrives at its message port to     *)
(* msg_recv_list, from where ipc_msg_recv_probe calls the handlers.        *)
(*                                                                         *)
(* A handle stands for its pid and its name. The packets with which a      *)
(* client reports that a handler began and ended are left out: the daemon  *)
(* only counts and prints them.                                            *)
(***************************************************************************)
EXTENDS Naturals, Sequences, FiniteSets

CONSTANTS
    Handles,          \* joined process handles
    Senders,          \* those whose application sends messages
    Subscribers,      \* those whose application registers handlers
    Topics,           \* message names
    Registered,       \* the names that applications register
    AnyMsg,           \* the name "*", registered to hear all messages
    MayUnregister,    \* TRUE when programs call ipc_unregister_msg
    MayLose,          \* TRUE if a socket may drop a datagram
    MaxMsgs,          \* bound on the messages of each sender
    MaxPackets,       \* bound on the packets that clients leave in toDaemon
    MaxFaults         \* bound on crashes and exits together

ASSUME HandlesAssumption == Senders \cup Subscribers \subseteq Handles
ASSUME AnyAssumption == AnyMsg \notin Topics
ASSUME RegisteredAssumption == Registered \subseteq Topics \cup {AnyMsg}
ASSUME SwitchesAssumption == {MayUnregister, MayLose} \subseteq BOOLEAN
ASSUME BoundsAssumption == {MaxMsgs, MaxPackets, MaxFaults} \subseteq Nat

VARIABLES
    alive,            \* the process runs
    sent,             \* client: messages it has sent (its application's count)
    msg_list,         \* client: names it has handlers for
    msg_recv_list,    \* client: relayed messages for ipc_msg_recv_probe
    toClient,         \* client: messages in the socket of its message port
    toDaemon,         \* packets in the daemon's socket
    member,           \* daemon: "active", "suspended" or "absent" in mlist
    pmsg_list,        \* daemon: names in the member's pmsg_list
    recv_mlist,       \* daemon: messages for _ipcd_msg_probe
    log,              \* history: messages relayed, and to whom
    heard,            \* history: messages given to the handlers of each handle
    due               \* history: see EarlyBirdsAreServed

clientVars == <<alive, sent, msg_list, msg_recv_list>>
daemonVars == <<member, pmsg_list, recv_mlist>>
vars == <<clientVars, toClient, toDaemon, daemonVars, log, heard, due>>

MsgIds == Senders \X (1..MaxMsgs)

Init == /\ alive = [h \in Handles |-> TRUE]
        /\ sent = [h \in Handles |-> 0]
        /\ msg_list = [h \in Handles |-> {}]
        /\ msg_recv_list = [h \in Handles |-> <<>>]
        /\ toClient = [h \in Handles |-> <<>>]
        /\ toDaemon = <<>>
        /\ member = [h \in Handles |-> "active"]
        /\ pmsg_list = [h \in Handles |-> {}]
        /\ recv_mlist = <<>>
        /\ log = <<>>
        /\ heard = [h \in Handles |-> <<>>]
        /\ due = [m \in MsgIds |-> {}]

\* Names with an underscore are mutants: a plausible slip in the definition that
\* follows them, which some property has to notice.

Queued_First(list, m) == <<m>> \o list

\* A thread queues a message for another: dlist_attach.
Queued(list, m) == Append(list, m)

AfterPull_DeleteAll(list) == <<>>

\* A thread took the first entry of its list: dlist_delete(list, 0).
AfterPull(list) == Tail(list)

\* One of the registered names asks for message m.
Wanted(names, m) == m.msg_name \in names \/ AnyMsg \in names

-----------------------------------------------------------------------------
\* The client library

Faults == Cardinality({h \in Handles : ~alive[h] \/ member[h] = "absent"})

Exited(h) == \/ member[h] = "absent"
             \/ \E k \in DOMAIN toDaemon : /\ toDaemon[k].iit = "EXIT"
                                           /\ toDaemon[k].send_pid = h

\* The application of h uses its handle: not after ipc_exit.
Uses(h) == alive[h] /\ ~Exited(h) /\ Len(toDaemon) < MaxPackets

ToDaemon(packet) == \/ toDaemon' = Append(toDaemon, packet)
                    \/ MayLose /\ UNCHANGED toDaemon

\* No message is due at h any more.
Withdrawn(h) == due' = [m \in MsgIds |-> due[m] \ {h}]

\* ipc_send_msg. It is due at the active handles that want it now.
SendMsg(h, t) ==
    /\ h \in Senders
    /\ Uses(h)
    /\ sent[h] < MaxMsgs
    /\ sent' = [sent EXCEPT ![h] = @ + 1]
    /\ LET m == [id |-> <<h, sent'[h]>>, msg_name |-> t] IN
         /\ ToDaemon([iit |-> "MSG_SEND", send_pid |-> h, msg |-> m])
         /\ due' = [due EXCEPT ![m.id] =
                       {g \in Handles : /\ alive[g] /\ ~Exited(g)
                                        /\ member[g] = "active"
                                        /\ Wanted(msg_list[g], m)}]
    /\ UNCHANGED <<alive, msg_list, msg_recv_list, toClient, daemonVars, log, heard>>

\* ipc_register_msg: the handler is there before the daemon hears of it.
Register(h, n) ==
    /\ h \in Subscribers
    /\ Uses(h)
    /\ n \notin msg_list[h]
    /\ msg_list' = [msg_list EXCEPT ![h] = @ \cup {n}]
    /\ ToDaemon([iit |-> "MSG_REGISTER", send_pid |-> h, msg_name |-> n])
    /\ UNCHANGED <<alive, sent, msg_recv_list, toClient, daemonVars, log, heard, due>>

\* ipc_unregister_msg, of a name with one handler.
Unregister(h, n) ==
    /\ MayUnregister
    /\ Uses(h)
    /\ n \in msg_list[h]
    /\ msg_list' = [msg_list EXCEPT ![h] = @ \ {n}]
    /\ ToDaemon([iit |-> "MSG_UNREGISTER", send_pid |-> h, msg_name |-> n])
    /\ Withdrawn(h)
    /\ UNCHANGED <<alive, sent, msg_recv_list, toClient, daemonVars, log, heard>>

CallExit(h) ==
    /\ Uses(h)
    /\ Faults < MaxFaults
    /\ ToDaemon([iit |-> "EXIT", send_pid |-> h])
    /\ Withdrawn(h)
    /\ UNCHANGED <<clientVars, toClient, daemonVars, log, heard>>

\* The process dies without a word: its sockets and threads are gone.
Crash(h) ==
    /\ alive[h]
    /\ Faults < MaxFaults
    /\ alive' = [alive EXCEPT ![h] = FALSE]
    /\ msg_recv_list' = [msg_recv_list EXCEPT ![h] = <<>>]
    /\ toClient' = [toClient EXCEPT ![h] = <<>>]
    /\ Withdrawn(h)
    /\ UNCHANGED <<sent, msg_list, toDaemon, daemonVars, log, heard>>

\* ipc_recv_analysis: a relayed message goes to the list of ipc_msg_recv_probe.
RecvRelay(h) ==
    /\ alive[h]
    /\ toClient[h] # <<>>
    /\ msg_recv_list' = [msg_recv_list EXCEPT ![h] = Queued(@, Head(toClient[h]))]
    /\ toClient' = [toClient EXCEPT ![h] = Tail(@)]
    /\ UNCHANGED <<alive, sent, msg_list, toDaemon, daemonVars, log, heard, due>>

\* ipc_msg_recv_probe takes a message and calls its handlers, or else the one
\* for "*", or nobody when they were unregistered in the meantime.
Dispatch(h) ==
    /\ alive[h]
    /\ msg_recv_list[h] # <<>>
    /\ LET m == Head(msg_recv_list[h]) IN
         heard' = IF Wanted(msg_list[h], m)
                    THEN [heard EXCEPT ![h] = Append(@, m.id)] ELSE heard
    /\ msg_recv_list' = [msg_recv_list EXCEPT ![h] = AfterPull(@)]
    /\ UNCHANGED <<alive, sent, msg_list, toClient, toDaemon, daemonVars, log, due>>

-----------------------------------------------------------------------------
\* The daemon

\* The daemon's thread ipcd_msg_recv takes the next packet, of the given kind.
Receives(iit) == toDaemon # <<>> /\ Head(toDaemon).iit = iit /\ toDaemon' = Tail(toDaemon)

Heard(h) == member' = [member EXCEPT ![h] = IF @ = "absent" THEN @ ELSE "active"]

Payload_WholePacket(p) == p
Payload(p) == p.msg

\* MSG_SEND of a member: it is alive and its message is queued. That of a sender
\* that is no member is dropped.
DaemonSend ==
    /\ Receives("MSG_SEND")
    /\ LET p == Head(toDaemon) IN
         /\ Heard(p.send_pid)
         /\ recv_mlist' = IF member[p.send_pid] = "absent" THEN recv_mlist
                          ELSE Queued(recv_mlist, Payload(p))
    /\ UNCHANGED <<clientVars, toClient, pmsg_list, log, heard, due>>

DaemonRegister ==
    /\ Receives("MSG_REGISTER")
    /\ LET p == Head(toDaemon) IN
         pmsg_list' = IF member[p.send_pid] = "absent" THEN pmsg_list
                      ELSE [pmsg_list EXCEPT ![p.send_pid] = @ \cup {p.msg_name}]
    /\ UNCHANGED <<clientVars, toClient, member, recv_mlist, log, heard, due>>

DaemonUnregister_AllNames ==
    /\ Receives("MSG_UNREGISTER")
    /\ pmsg_list' = [pmsg_list EXCEPT ![Head(toDaemon).send_pid] = {}]
    /\ UNCHANGED <<clientVars, toClient, member, recv_mlist, log, heard, due>>

DaemonUnregister ==
    /\ Receives("MSG_UNREGISTER")
    /\ LET p == Head(toDaemon) IN
         pmsg_list' = [pmsg_list EXCEPT ![p.send_pid] = @ \ {p.msg_name}]
    /\ UNCHANGED <<clientVars, toClient, member, recv_mlist, log, heard, due>>

DaemonExit ==
    /\ Receives("EXIT")
    /\ LET h == Head(toDaemon).send_pid IN
         /\ member' = [member EXCEPT ![h] = "absent"]
         /\ pmsg_list' = [pmsg_list EXCEPT ![h] = {}]
    /\ UNCHANGED <<clientVars, toClient, recv_mlist, log, heard, due>>

Recipients_ExactOnly(m) ==
    {h \in Handles : member[h] = "active" /\ m.msg_name \in pmsg_list[h]}

\* The active members that registered the name of m, or "*".
Recipients(m) == {h \in Handles : member[h] = "active" /\ Wanted(pmsg_list[h], m)}

\* _ipcd_msg_probe relays the first message of recv_mlist, once, to each of its
\* recipients. What goes to a dead process is lost.
MsgProbe ==
    /\ recv_mlist # <<>>
    /\ recv_mlist' = AfterPull(recv_mlist)
    /\ LET m == Head(recv_mlist)
           to == Recipients(m)
       IN  /\ log' = Append(log, [msg |-> m.id, to |-> to])
           /\ \E lost \in IF MayLose THEN SUBSET to ELSE {{}} :
                 toClient' = [h \in Handles |->
                     IF h \in to \ lost /\ alive[h] THEN Append(toClient[h], m)
                                                    ELSE toClient[h]]
    /\ UNCHANGED <<clientVars, toDaemon, member, pmsg_list, heard, due>>

\* A LIVE packet of h is handled.
DaemonLive(h) ==
    /\ alive[h]
    /\ member[h] = "suspended"
    /\ Heard(h)
    /\ UNCHANGED <<clientVars, toClient, toDaemon, pmsg_list, recv_mlist, log, heard, due>>

\* ipc_live_thread has not heard of h for too long.
Suspend(h) ==
    /\ member[h] = "active"
    /\ member' = [member EXCEPT ![h] = "suspended"]
    /\ Withdrawn(h)
    /\ UNCHANGED <<clientVars, toClient, toDaemon, pmsg_list, recv_mlist, log, heard>>

-----------------------------------------------------------------------------
ClientStep(h) ==
    \/ \E t \in Topics : SendMsg(h, t)
    \/ \E n \in Registered : Register(h, n) \/ Unregister(h, n)
    \/ CallExit(h)
    \/ Crash(h)
    \/ RecvRelay(h)
    \/ Dispatch(h)

DaemonStep == DaemonSend \/ DaemonRegister \/ DaemonUnregister \/ DaemonExit

Next == \/ \E h \in Handles : ClientStep(h) \/ DaemonLive(h) \/ Suspend(h)
        \/ DaemonStep
        \/ MsgProbe

Spec == Init /\ [][Next]_vars

\* The threads of the daemon and of the clients are always scheduled, and
\* handlers return: ipc_msg_recv_probe calls them itself.
Fairness == /\ WF_vars(DaemonStep)
            /\ WF_vars(MsgProbe)
            /\ \A h \in Handles : WF_vars(RecvRelay(h)) /\ WF_vars(Dispatch(h))

FairSpec == Spec /\ Fairness

-----------------------------------------------------------------------------
Msg == [id : MsgIds, msg_name : Topics]
DaemonPacket ==
    [iit : {"MSG_SEND"}, send_pid : Senders, msg : Msg]
    \cup [iit : {"MSG_REGISTER", "MSG_UNREGISTER"}, send_pid : Handles, msg_name : Registered]
    \cup [iit : {"EXIT"}, send_pid : Handles]

\* Every variable keeps its type.
TypeOK ==
    /\ alive \in [Handles -> BOOLEAN]
    /\ sent \in [Handles -> 0..MaxMsgs]
    /\ msg_list \in [Handles -> SUBSET Registered]
    /\ msg_recv_list \in [Handles -> Seq(Msg)]
    /\ toClient \in [Handles -> Seq(Msg)]
    /\ toDaemon \in Seq(DaemonPacket)
    /\ member \in [Handles -> {"active", "suspended", "absent"}]
    /\ pmsg_list \in [Handles -> SUBSET Registered]
    /\ recv_mlist \in Seq(Msg)
    /\ log \in Seq([msg : MsgIds, to : SUBSET Handles])
    /\ heard \in [Handles -> Seq(MsgIds)]
    /\ due \in [MsgIds -> SUBSET Handles]

\* Who registered before a message was sent, and has not unregistered, left,
\* died or been suspended since, is among those to whom it is relayed: that the
\* daemon delays messages and not registrations never hurts an early subscriber.
EarlyBirdsAreServed == \A k \in DOMAIN log : due[log[k].msg] \subseteq log[k].to

\* The daemon's view of who wants what, once it has handled the packets on their
\* way, is the client's: registrations and withdrawals never overtake each other.
Pending(h) == {k \in DOMAIN toDaemon : /\ toDaemon[k].send_pid = h
                                       /\ toDaemon[k].iit \in {"MSG_REGISTER", "MSG_UNREGISTER"}}

ViewsAgree ==
    \A h \in Handles : alive[h] /\ ~Exited(h) /\ Pending(h) = {} =>
        pmsg_list[h] = msg_list[h]

\* A message is handled wherever it is due, unless it ceases to be.
DueIsHeard ==
    \A m \in MsgIds, h \in Handles :
        h \in due[m] ~> h \notin due[m] \/ \E k \in DOMAIN heard[h] : heard[h][k] = m

\* The whole path of a message keeps the promises of Bus, whatever is lost.
B == INSTANCE Bus
BusKept == B!Spec

=============================================================================
