---------------------------- MODULE MsgBusProofs ----------------------------
(***************************************************************************)
(* That broadcasting keeps its promises for any number of processes,       *)
(* messages and names: all hear messages in one common order, whatever is  *)
(* lost, and who registers in time is served, if nothing is.               *)
(***************************************************************************)
EXTENDS MsgBus, DataLemmas

-----------------------------------------------------------------------------
\* Types

\* A packet leaves a client: it arrives behind the others, or not at all.
LEMMA SendKeeps ==
    ASSUME TypeOK, NEW p \in DaemonPacket, ToDaemon(p)
    PROVE  toDaemon' \in Seq(DaemonPacket)
<1>1. toDaemon \in Seq(DaemonPacket)
  BY DEF TypeOK
<1>2. Append(toDaemon, p) \in Seq(DaemonPacket)
  BY <1>1, AppendedTo
<1>3. QED BY <1>1, <1>2 DEF ToDaemon

\* The daemon takes a packet of the given kind.
LEMMA ReceiveKeeps ==
    ASSUME TypeOK, NEW iit, Receives(iit)
    PROVE  /\ toDaemon' \in Seq(DaemonPacket)
           /\ Head(toDaemon) \in DaemonPacket
           /\ Head(toDaemon).iit = iit
           /\ Head(toDaemon) = toDaemon[1] /\ 1 \in 1..Len(toDaemon)
           /\ Len(toDaemon') = Len(toDaemon) - 1
           /\ \A k \in 1..Len(toDaemon') :
                 k + 1 \in 1..Len(toDaemon) /\ toDaemon'[k] = toDaemon[k + 1]
BY TakenFrom DEF TypeOK, Receives

LEMMA PacketParts ==
    ASSUME NEW p \in DaemonPacket
    PROVE  /\ p.send_pid \in Handles
           /\ p.iit = "MSG_SEND" => p.msg \in Msg /\ p.send_pid \in Senders
           /\ p.iit \in {"MSG_REGISTER", "MSG_UNREGISTER"} => p.msg_name \in Registered
BY HandlesAssumption DEF DaemonPacket

LEMMA TypeInitially == Init => TypeOK
BY BoundsAssumption DEF Init, TypeOK

LEMMA ClientStepTypes == ASSUME TypeOK, NEW h \in Handles, ClientStep(h) PROVE TypeOK'
<1>1. ASSUME NEW t \in Topics, SendMsg(h, t) PROVE TypeOK'
  <2> DEFINE m == [id |-> <<h, sent'[h]>>, msg_name |-> t]
             to == {g \in Handles : /\ alive[g] /\ ~Exited(g)
                                    /\ member[g] = "active"
                                    /\ Wanted(msg_list[g], m)}
  <2>1. h \in Senders /\ sent[h] \in 0..MaxMsgs /\ sent[h] < MaxMsgs /\ MaxMsgs \in Nat
    BY <1>1, BoundsAssumption DEF SendMsg, TypeOK
  <2>2. sent' \in [Handles -> 0..MaxMsgs] /\ sent'[h] = sent[h] + 1
    BY <1>1, <2>1 DEF SendMsg, TypeOK
  <2>3. m.id \in MsgIds /\ m \in Msg
    BY <2>1, <2>2 DEF MsgIds, Msg
  <2>4. [iit |-> "MSG_SEND", send_pid |-> h, msg |-> m] \in DaemonPacket
    BY <2>1, <2>3 DEF DaemonPacket
  <2>5. toDaemon' \in Seq(DaemonPacket)
    BY <1>1, <2>4, SendKeeps DEF SendMsg
  <2>6. due' = [due EXCEPT ![m.id] = to]
    BY <1>1 DEF SendMsg
  <2>7. to \in SUBSET Handles
    OBVIOUS
  <2> HIDE DEF m, to
  <2>8. due' \in [MsgIds -> SUBSET Handles]
    BY <2>3, <2>6, <2>7 DEF TypeOK
  <2>9. QED BY <1>1, <2>2, <2>5, <2>8 DEF SendMsg, TypeOK, daemonVars
<1>2. ASSUME NEW n \in Registered, Register(h, n) PROVE TypeOK'
  <2>1. [iit |-> "MSG_REGISTER", send_pid |-> h, msg_name |-> n] \in DaemonPacket
    BY DEF DaemonPacket
  <2>2. toDaemon' \in Seq(DaemonPacket)
    BY <1>2, <2>1, SendKeeps DEF Register
  <2>3. QED BY <1>2, <2>2 DEF Register, TypeOK, daemonVars
<1>3. ASSUME NEW n \in Registered, Unregister(h, n) PROVE TypeOK'
  <2>1. [iit |-> "MSG_UNREGISTER", send_pid |-> h, msg_name |-> n] \in DaemonPacket
    BY DEF DaemonPacket
  <2>2. toDaemon' \in Seq(DaemonPacket)
    BY <1>3, <2>1, SendKeeps DEF Unregister
  <2>3. QED BY <1>3, <2>2 DEF Unregister, Withdrawn, TypeOK, daemonVars
<1>4. ASSUME CallExit(h) PROVE TypeOK'
  <2>1. [iit |-> "EXIT", send_pid |-> h] \in DaemonPacket
    BY DEF DaemonPacket
  <2>2. toDaemon' \in Seq(DaemonPacket)
    BY <1>4, <2>1, SendKeeps DEF CallExit
  <2>3. QED BY <1>4, <2>2 DEF CallExit, Withdrawn, TypeOK, clientVars, daemonVars
<1>5. ASSUME Crash(h) PROVE TypeOK'
  BY <1>5 DEF Crash, Withdrawn, TypeOK, daemonVars
<1>6. ASSUME RecvRelay(h) PROVE TypeOK'
  <2>1. toClient[h] \in Seq(Msg) /\ msg_recv_list[h] \in Seq(Msg)
    BY DEF TypeOK
  <2>2. /\ Append(msg_recv_list[h], Head(toClient[h])) \in Seq(Msg)
        /\ Tail(toClient[h]) \in Seq(Msg)
    BY <1>6, <2>1, AppendedTo, TakenFrom DEF RecvRelay
  <2>3. QED BY <1>6, <2>2 DEF RecvRelay, Queued, TypeOK, daemonVars
<1>7. ASSUME Dispatch(h) PROVE TypeOK'
  <2> DEFINE m == Head(msg_recv_list[h])
  <2>1. m \in Msg /\ Tail(msg_recv_list[h]) \in Seq(Msg)
    BY <1>7, TakenFrom DEF Dispatch, TypeOK
  <2>2. m.id \in MsgIds
    BY <2>1 DEF Msg
  <2>3. heard' = heard \/ heard' = [heard EXCEPT ![h] = Append(@, m.id)]
    BY <1>7 DEF Dispatch
  <2> HIDE DEF m
  <2>4. Append(heard[h], m.id) \in Seq(MsgIds)
    BY <2>2, AppendedTo DEF TypeOK
  <2>5. heard' \in [Handles -> Seq(MsgIds)]
    BY <2>3, <2>4 DEF TypeOK
  <2>6. QED BY <1>7, <2>1, <2>5 DEF Dispatch, AfterPull, TypeOK, daemonVars
<1>8. QED BY <1>1, <1>2, <1>3, <1>4, <1>5, <1>6, <1>7 DEF ClientStep

LEMMA DaemonStepTypes == ASSUME TypeOK, DaemonStep PROVE TypeOK'
<1> DEFINE p == Head(toDaemon)
<1>1. CASE DaemonSend
  <2>1. toDaemon' \in Seq(DaemonPacket) /\ p \in DaemonPacket /\ p.iit = "MSG_SEND"
    BY <1>1, ReceiveKeeps DEF DaemonSend
  <2>2. p.msg \in Msg
    BY <2>1, PacketParts
  <2>3. recv_mlist' = recv_mlist \/ recv_mlist' = Append(recv_mlist, p.msg)
    BY <1>1 DEF DaemonSend, Queued, Payload
  <2>4. member' = [member EXCEPT ![p.send_pid] = IF @ = "absent" THEN @ ELSE "active"]
    BY <1>1 DEF DaemonSend, Heard
  <2> HIDE DEF p
  <2>5. Append(recv_mlist, p.msg) \in Seq(Msg)
    BY <2>2, AppendedTo DEF TypeOK
  <2>6. QED BY <1>1, <2>1, <2>3, <2>4, <2>5 DEF DaemonSend, TypeOK, clientVars
<1>2. CASE DaemonRegister
  <2>1. toDaemon' \in Seq(DaemonPacket) /\ p \in DaemonPacket /\ p.iit = "MSG_REGISTER"
    BY <1>2, ReceiveKeeps DEF DaemonRegister
  <2>2. p.msg_name \in Registered /\ p.send_pid \in Handles
    BY <2>1, PacketParts
  <2>3. \/ pmsg_list' = pmsg_list
        \/ pmsg_list' = [pmsg_list EXCEPT ![p.send_pid] = @ \cup {p.msg_name}]
    BY <1>2 DEF DaemonRegister
  <2> HIDE DEF p
  <2>4. pmsg_list[p.send_pid] \cup {p.msg_name} \in SUBSET Registered
    BY <2>2 DEF TypeOK
  <2>5. pmsg_list' \in [Handles -> SUBSET Registered]
    BY <2>3, <2>4 DEF TypeOK
  <2>6. QED BY <1>2, <2>1, <2>5 DEF DaemonRegister, TypeOK, clientVars
<1>3. CASE DaemonUnregister
  <2>1. toDaemon' \in Seq(DaemonPacket)
    BY <1>3, ReceiveKeeps DEF DaemonUnregister
  <2>2. QED BY <1>3, <2>1 DEF DaemonUnregister, TypeOK, clientVars
<1>4. CASE DaemonExit
  <2>1. toDaemon' \in Seq(DaemonPacket)
    BY <1>4, ReceiveKeeps DEF DaemonExit
  <2>2. QED BY <1>4, <2>1 DEF DaemonExit, TypeOK, clientVars
<1>5. QED BY <1>1, <1>2, <1>3, <1>4 DEF DaemonStep

\* The daemon relays a message: who gets it has it behind all others, and the
\* log says who should have.
LEMMA ProbeKeeps ==
    ASSUME TypeOK, MsgProbe
    PROVE  /\ Head(recv_mlist) \in Msg /\ Head(recv_mlist).id \in MsgIds
           /\ Head(recv_mlist) = recv_mlist[1] /\ 1 \in 1..Len(recv_mlist)
           /\ recv_mlist' \in Seq(Msg)
           /\ Len(recv_mlist') = Len(recv_mlist) - 1
           /\ \A k \in 1..Len(recv_mlist') :
                 k + 1 \in 1..Len(recv_mlist) /\ recv_mlist'[k] = recv_mlist[k + 1]
           /\ log' = Append(log, [msg |-> Head(recv_mlist).id,
                                  to |-> Recipients(Head(recv_mlist))])
           /\ log' \in Seq([msg : MsgIds, to : SUBSET Handles])
           /\ toClient' \in [Handles -> Seq(Msg)]
           /\ \A h \in Handles :
                 \/ toClient'[h] = toClient[h]
                 \/ /\ toClient'[h] = Append(toClient[h], Head(recv_mlist))
                    /\ h \in Recipients(Head(recv_mlist))
<1> DEFINE m  == Head(recv_mlist)
           to == Recipients(m)
<1>1. recv_mlist \in Seq(Msg) /\ recv_mlist # <<>> /\ recv_mlist' = Tail(recv_mlist)
  BY DEF TypeOK, MsgProbe, AfterPull
<1>2. /\ m \in Msg /\ m = recv_mlist[1] /\ 1 \in 1..Len(recv_mlist)
      /\ recv_mlist' \in Seq(Msg)
      /\ Len(recv_mlist') = Len(recv_mlist) - 1
      /\ \A k \in 1..Len(recv_mlist') :
            k + 1 \in 1..Len(recv_mlist) /\ recv_mlist'[k] = recv_mlist[k + 1]
  BY <1>1, TakenFrom
<1>3. m.id \in MsgIds
  BY <1>2 DEF Msg
<1>4. log' = Append(log, [msg |-> m.id, to |-> to])
  BY DEF MsgProbe
<1>5. PICK lost : toClient' = [h \in Handles |->
                     IF h \in to \ lost /\ alive[h] THEN Append(toClient[h], m)
                                                    ELSE toClient[h]]
  BY DEF MsgProbe
<1>6. to \in SUBSET Handles
  BY DEF Recipients
<1> HIDE DEF m, to
<1>7. [msg |-> m.id, to |-> to] \in [msg : MsgIds, to : SUBSET Handles]
  BY <1>3, <1>6
<1>8. log' \in Seq([msg : MsgIds, to : SUBSET Handles])
  BY <1>4, <1>7, AppendedTo DEF TypeOK
<1>9. \A h \in Handles : Append(toClient[h], m) \in Seq(Msg)
  BY <1>2, AppendedTo DEF TypeOK
<1>10. toClient' \in [Handles -> Seq(Msg)]
  BY <1>5, <1>9 DEF TypeOK
<1>11. \A h \in Handles : \/ toClient'[h] = toClient[h]
                          \/ toClient'[h] = Append(toClient[h], m) /\ h \in to
  BY <1>5
<1>12. QED BY <1>2, <1>3, <1>4, <1>8, <1>10, <1>11 DEF m, to

\* No step breaks a type.
LEMMA TypeKept == TypeOK /\ [Next]_vars => TypeOK'
<1> SUFFICES ASSUME TypeOK, [Next]_vars PROVE TypeOK'
  OBVIOUS
<1>1. ASSUME NEW h \in Handles, ClientStep(h) PROVE TypeOK'
  BY <1>1, ClientStepTypes
<1>2. ASSUME NEW h \in Handles, DaemonLive(h) PROVE TypeOK'
  BY <1>2 DEF DaemonLive, Heard, TypeOK, clientVars
<1>3. ASSUME NEW h \in Handles, Suspend(h) PROVE TypeOK'
  BY <1>3 DEF Suspend, Withdrawn, TypeOK, clientVars
<1>4. CASE DaemonStep
  BY <1>4, DaemonStepTypes
<1>5. CASE MsgProbe
  BY <1>5, ProbeKeeps DEF MsgProbe, TypeOK, clientVars
<1>6. CASE UNCHANGED vars
  BY <1>6 DEF vars, clientVars, daemonVars, TypeOK
<1>7. QED BY <1>1, <1>2, <1>3, <1>4, <1>5, <1>6 DEF Next

\* Every variable keeps its type, whatever clients send and the daemon relays.
THEOREM TypeCorrect == Spec => []TypeOK
BY TypeInitially, TypeKept, PTL DEF Spec

-----------------------------------------------------------------------------
\* The order of messages, from their senders to the log

\* Of two messages of one sender, a was sent first.
Precedes(a, b) == a[1] = b[1] => a[2] < b[2]

IsSent(id) == id[2] <= sent[id[1]]

\* The messages in the daemon's socket, and their numbers.
Sends == {k \in 1..Len(toDaemon) : toDaemon[k].iit = "MSG_SEND"}
SentId(k) == toDaemon[k].msg.id

\* Nothing is under way that was not sent.
AllSent ==
    /\ \A k \in 1..Len(log) : IsSent(log[k].msg)
    /\ \A k \in 1..Len(recv_mlist) : IsSent(recv_mlist[k].id)
    /\ \A k \in Sends : IsSent(SentId(k))

\* In the log, then recv_mlist, then the daemon's socket, the messages of each
\* sender come in the order in which they were sent.
SendersOrder ==
    /\ \A i, j \in 1..Len(log) : i < j => Precedes(log[i].msg, log[j].msg)
    /\ \A i \in 1..Len(log), j \in 1..Len(recv_mlist) : Precedes(log[i].msg, recv_mlist[j].id)
    /\ \A i \in 1..Len(log), j \in Sends : Precedes(log[i].msg, SentId(j))
    /\ \A i, j \in 1..Len(recv_mlist) : i < j => Precedes(recv_mlist[i].id, recv_mlist[j].id)
    /\ \A i \in 1..Len(recv_mlist), j \in Sends : Precedes(recv_mlist[i].id, SentId(j))
    /\ \A i, j \in Sends : i < j => Precedes(SentId(i), SentId(j))

LEMMA IdParts ==
    ASSUME NEW id \in MsgIds
    PROVE  /\ id[1] \in Senders /\ id[1] \in Handles /\ id[2] \in 1..MaxMsgs
           /\ id[2] \in Nat /\ id = <<id[1], id[2]>>
BY HandlesAssumption, BoundsAssumption DEF MsgIds

\* What is under way has a number.
LEMMA IdsUnderWay ==
    ASSUME TypeOK
    PROVE  /\ \A k \in 1..Len(log) : log[k].msg \in MsgIds
           /\ \A k \in 1..Len(recv_mlist) : recv_mlist[k].id \in MsgIds
           /\ \A k \in Sends : SentId(k) \in MsgIds
<1>1. \A k \in 1..Len(log) : log[k] \in [msg : MsgIds, to : SUBSET Handles]
  <2> DEFINE Relays == [msg : MsgIds, to : SUBSET Handles]
  <2>1. log \in Seq(Relays)
    BY DEF TypeOK
  <2> HIDE DEF Relays
  <2>2. \A k \in 1..Len(log) : log[k] \in Relays
    BY <2>1
  <2>3. QED BY <2>2 DEF Relays
<1>2. \A k \in 1..Len(recv_mlist) : recv_mlist[k] \in Msg
  BY DEF TypeOK
<1>3. \A k \in 1..Len(toDaemon) : toDaemon[k] \in DaemonPacket
  BY DEF TypeOK
<1>4. \A k \in Sends : toDaemon[k].msg \in Msg
  BY <1>3, PacketParts DEF Sends
<1>5. QED BY <1>1, <1>2, <1>4 DEF Msg, SentId

\* A step that adds no message to the daemon's socket and touches neither the log
\* nor recv_mlist keeps the order.
LEMMA SendsKept ==
    ASSUME TypeOK, AllSent, SendersOrder, UNCHANGED <<sent, log, recv_mlist>>,
           NEW p \in DaemonPacket, p.iit # "MSG_SEND", ToDaemon(p)
    PROVE  AllSent' /\ SendersOrder'
<1>1. toDaemon \in Seq(DaemonPacket)
  BY DEF TypeOK
<1>2. /\ Sends' = Sends
      /\ \A k \in Sends : SentId(k)' = SentId(k)
  <2>1. CASE toDaemon' = toDaemon
    BY <2>1 DEF Sends, SentId
  <2>2. CASE toDaemon' = Append(toDaemon, p)
    <3>1. /\ Len(toDaemon') = Len(toDaemon) + 1
          /\ \A k \in 1..Len(toDaemon) : toDaemon'[k] = toDaemon[k]
          /\ \A k \in 1..Len(toDaemon') :
                \/ k \in 1..Len(toDaemon) /\ toDaemon'[k] = toDaemon[k]
                \/ toDaemon'[k] = p
      BY <1>1, <2>2, AppendedTo
    <3>2. 1..Len(toDaemon) \subseteq 1..Len(toDaemon')
      BY <1>1, <3>1
    <3>3. QED BY <3>1, <3>2 DEF Sends, SentId
  <2>3. QED BY <2>1, <2>2 DEF ToDaemon
<1>3. AllSent'
  BY <1>2 DEF AllSent, IsSent
<1>4. SendersOrder'
  BY <1>2 DEF SendersOrder
<1>5. QED BY <1>3, <1>4

\* ipc_send_msg gives its message a number above all that its sender used.
LEMMA SendMsgOrdered ==
    ASSUME TypeOK, AllSent, SendersOrder, NEW h \in Handles, NEW t \in Topics, SendMsg(h, t)
    PROVE  AllSent' /\ SendersOrder'
<1> DEFINE m == [id |-> <<h, sent'[h]>>, msg_name |-> t]
           p == [iit |-> "MSG_SEND", send_pid |-> h, msg |-> m]
<1>1. /\ toDaemon' = toDaemon \/ toDaemon' = Append(toDaemon, p)
      /\ sent' = [sent EXCEPT ![h] = @ + 1] /\ h \in Senders
      /\ log' = log /\ recv_mlist' = recv_mlist
  BY DEF SendMsg, ToDaemon, daemonVars
<1>2. /\ sent'[h] = sent[h] + 1
      /\ \A g \in Handles : sent[g] \in Nat /\ sent[g] <= sent'[g] /\ sent'[g] \in Nat
  BY <1>1, BoundsAssumption DEF TypeOK
<1>3. /\ p.iit = "MSG_SEND" /\ p.msg.id = <<h, sent[h] + 1>>
      /\ p.msg.id[1] = h /\ p.msg.id[2] = sent[h] + 1
  BY <1>2
<1>4. m.id \in MsgIds
  BY <1>1, <1>2, BoundsAssumption DEF SendMsg, MsgIds, TypeOK
<1>5. p \in DaemonPacket
  BY <1>1, <1>4 DEF DaemonPacket, Msg
<1> HIDE DEF m, p
<1>6. /\ Len(toDaemon) \in Nat
      /\ \A k \in Sends' : \/ k \in Sends /\ SentId(k)' = SentId(k)
                           \/ k = Len(toDaemon) + 1 /\ SentId(k)' = p.msg.id
  <2>1. toDaemon \in Seq(DaemonPacket)
    BY DEF TypeOK
  <2>2. CASE toDaemon' = toDaemon
    BY <2>1, <2>2 DEF Sends, SentId
  <2>3. CASE toDaemon' = Append(toDaemon, p)
    BY <1>5, <2>1, <2>3, AppendedTo DEF Sends, SentId
  <2>4. QED BY <1>1, <2>2, <2>3
<1>7. \A id \in MsgIds : IsSent(id) => /\ id[2] <= sent'[id[1]]
                                       /\ Precedes(id, p.msg.id)
  BY <1>2, <1>3, IdParts DEF IsSent, Precedes
<1>8. AllSent'
  <2>1. \A k \in 1..Len(log') : log'[k].msg[2] <= sent'[log'[k].msg[1]]
    BY <1>1, <1>7, IdsUnderWay DEF AllSent
  <2>2. \A k \in 1..Len(recv_mlist') : recv_mlist'[k].id[2] <= sent'[recv_mlist'[k].id[1]]
    BY <1>1, <1>7, IdsUnderWay DEF AllSent
  <2>3. ASSUME NEW k \in Sends' PROVE SentId(k)'[2] <= sent'[SentId(k)'[1]]
    <3>1. CASE k \in Sends /\ SentId(k)' = SentId(k)
      BY <1>7, <3>1, IdsUnderWay DEF AllSent
    <3>2. CASE SentId(k)' = p.msg.id
      BY <1>2, <1>3, <3>2
    <3>3. QED BY <1>6, <3>1, <3>2
  <2>4. QED BY <2>1, <2>2, <2>3 DEF AllSent, IsSent
<1>9. SendersOrder'
  <2>1. /\ \A i \in 1..Len(log) : Precedes(log[i].msg, p.msg.id)
        /\ \A i \in 1..Len(recv_mlist) : Precedes(recv_mlist[i].id, p.msg.id)
        /\ \A i \in Sends : Precedes(SentId(i), p.msg.id)
    BY <1>7, IdsUnderWay DEF AllSent
  <2>2. \A i \in 1..Len(log'), j \in Sends' : Precedes(log'[i].msg, SentId(j)')
    BY <1>1, <1>6, <2>1 DEF SendersOrder
  <2>3. \A i \in 1..Len(recv_mlist'), j \in Sends' : Precedes(recv_mlist'[i].id, SentId(j)')
    BY <1>1, <1>6, <2>1 DEF SendersOrder
  <2>4. ASSUME NEW i \in Sends', NEW j \in Sends', i < j PROVE Precedes(SentId(i)', SentId(j)')
    <3>1. i \in Sends /\ SentId(i)' = SentId(i)
      BY <1>6, <2>4 DEF Sends
    <3>2. CASE j \in Sends /\ SentId(j)' = SentId(j)
      BY <2>4, <3>1, <3>2 DEF SendersOrder
    <3>3. CASE SentId(j)' = p.msg.id
      BY <2>1, <3>1, <3>3
    <3>4. QED BY <1>6, <3>2, <3>3
  <2>5. QED BY <1>1, <2>2, <2>3, <2>4 DEF SendersOrder
<1>10. QED BY <1>8, <1>9

\* A packet that the daemon takes leaves the socket; the others move up.
LEMMA SendsTaken ==
    ASSUME TypeOK, NEW iit, Receives(iit)
    PROVE  /\ \A k \in Sends' : k + 1 \in Sends /\ k + 1 > 1 /\ SentId(k)' = SentId(k + 1)
           /\ iit = "MSG_SEND" => 1 \in Sends /\ SentId(1) = Head(toDaemon).msg.id
BY ReceiveKeeps DEF Sends, SentId

LEMMA ReceiveOrdered ==
    ASSUME TypeOK, AllSent, SendersOrder, UNCHANGED <<sent, log, recv_mlist>>,
           NEW iit, Receives(iit)
    PROVE  AllSent' /\ SendersOrder'
<1>1. \A k \in Sends' : k + 1 \in Sends /\ SentId(k)' = SentId(k + 1)
  BY SendsTaken
<1>2. Sends' \subseteq Nat
  BY DEF Sends
<1>3. AllSent'
  BY <1>1 DEF AllSent, IsSent
<1>4. SendersOrder'
  <2>1. \A i, j \in Sends' : i < j => Precedes(SentId(i)', SentId(j)')
    <3>1. \A i, j \in Sends' : i < j => i + 1 < j + 1
      BY <1>2
    <3>2. QED BY <1>1, <3>1 DEF SendersOrder
  <2>2. \A i \in 1..Len(log'), j \in Sends' : Precedes(log'[i].msg, SentId(j)')
    BY <1>1 DEF SendersOrder
  <2>3. \A i \in 1..Len(recv_mlist'), j \in Sends' : Precedes(recv_mlist'[i].id, SentId(j)')
    BY <1>1 DEF SendersOrder
  <2>4. QED BY <2>1, <2>2, <2>3 DEF SendersOrder
<1>5. QED BY <1>3, <1>4

\* The daemon queues the first message of its socket.
LEMMA DaemonSendOrdered ==
    ASSUME TypeOK, AllSent, SendersOrder, DaemonSend
    PROVE  AllSent' /\ SendersOrder'
<1> DEFINE p == Head(toDaemon)
<1>1. /\ sent' = sent /\ log' = log /\ Receives("MSG_SEND")
      /\ recv_mlist' = recv_mlist \/ recv_mlist' = Append(recv_mlist, p.msg)
  BY DEF DaemonSend, Queued, Payload, clientVars
<1>2. /\ \A k \in Sends' : k + 1 \in Sends /\ k + 1 > 1 /\ SentId(k)' = SentId(k + 1)
      /\ 1 \in Sends /\ SentId(1) = p.msg.id
  BY <1>1, SendsTaken
<1>3. p.msg \in Msg
  BY <1>1, ReceiveKeeps, PacketParts
<1> HIDE DEF p
<1>4. CASE recv_mlist' = Append(recv_mlist, p.msg)
  <2>1. recv_mlist \in Seq(Msg)
    BY DEF TypeOK
  <2>2. /\ Len(recv_mlist) \in Nat
        /\ Len(recv_mlist') = Len(recv_mlist) + 1
        /\ \A k \in 1..Len(recv_mlist') :
              \/ k \in 1..Len(recv_mlist) /\ recv_mlist'[k] = recv_mlist[k]
              \/ k = Len(recv_mlist) + 1 /\ recv_mlist'[k] = p.msg
    BY <1>3, <1>4, <2>1, AppendedTo
  <2>3. AllSent'
    BY <1>1, <1>2, <2>2 DEF AllSent, IsSent
  <2>4. Sends' \subseteq Nat
    BY DEF Sends
  <2>5. SendersOrder'
    <3>1. \A i, j \in 1..Len(log') : i < j => Precedes(log'[i].msg, log'[j].msg)
      BY <1>1, <1>2, <2>2, <2>4 DEF SendersOrder
    <3>2. \A i \in 1..Len(log'), j \in 1..Len(recv_mlist') :
             Precedes(log'[i].msg, recv_mlist'[j].id)
      BY <1>1, <1>2, <2>2, <2>4 DEF SendersOrder
    <3>3. \A i \in 1..Len(log'), j \in Sends' : Precedes(log'[i].msg, SentId(j)')
      BY <1>1, <1>2, <2>2, <2>4 DEF SendersOrder
    <3>4. \A i, j \in 1..Len(recv_mlist') : i < j => Precedes(recv_mlist'[i].id, recv_mlist'[j].id)
      BY <1>1, <1>2, <2>2, <2>4 DEF SendersOrder
    <3>5. \A i \in 1..Len(recv_mlist'), j \in Sends' : Precedes(recv_mlist'[i].id, SentId(j)')
      BY <1>1, <1>2, <2>2, <2>4 DEF SendersOrder
    <3>6. \A i, j \in Sends' : i < j => Precedes(SentId(i)', SentId(j)')
      BY <1>1, <1>2, <2>2, <2>4 DEF SendersOrder
    <3>7. QED BY <3>1, <3>2, <3>3, <3>4, <3>5, <3>6 DEF SendersOrder
  <2>6. QED BY <2>3, <2>5
<1>5. QED BY <1>1, <1>4, ReceiveOrdered

\* The daemon puts the first message of recv_mlist in the log.
LEMMA MsgProbeOrdered ==
    ASSUME TypeOK, AllSent, SendersOrder, MsgProbe
    PROVE  AllSent' /\ SendersOrder'
<1> DEFINE r == [msg |-> Head(recv_mlist).id, to |-> Recipients(Head(recv_mlist))]
           Relays == [msg : MsgIds, to : SUBSET Handles]
<1>1. sent' = sent /\ toDaemon' = toDaemon
  BY DEF MsgProbe, clientVars
<1>2. /\ r.msg = recv_mlist[1].id /\ 1 \in 1..Len(recv_mlist)
      /\ \A k \in 1..Len(recv_mlist') :
            k + 1 \in 1..Len(recv_mlist) /\ recv_mlist'[k] = recv_mlist[k + 1]
      /\ log' = Append(log, r)
      /\ r \in Relays
  BY ProbeKeeps DEF Recipients
<1>3. log \in Seq(Relays)
  BY DEF TypeOK
<1> HIDE DEF r, Relays
<1>4. /\ Len(log) \in Nat
      /\ \A k \in 1..Len(log') : \/ k \in 1..Len(log) /\ log'[k] = log[k]
                                 \/ k = Len(log) + 1 /\ log'[k] = r
  BY <1>2, <1>3, AppendedTo
<1>5. Sends' = Sends /\ \A k \in Sends : SentId(k)' = SentId(k)
  BY <1>1 DEF Sends, SentId
<1>6. AllSent'
  BY <1>1, <1>2, <1>4, <1>5 DEF AllSent, IsSent
<1>7. SendersOrder'
  <2>1. \A i, j \in 1..Len(log') : i < j => Precedes(log'[i].msg, log'[j].msg)
    BY <1>2, <1>4, <1>5 DEF SendersOrder
  <2>2. \A i \in 1..Len(log'), j \in 1..Len(recv_mlist') : Precedes(log'[i].msg, recv_mlist'[j].id)
    BY <1>2, <1>4, <1>5 DEF SendersOrder
  <2>3. \A i \in 1..Len(log'), j \in Sends' : Precedes(log'[i].msg, SentId(j)')
    BY <1>2, <1>4, <1>5 DEF SendersOrder
  <2>4. \A i, j \in 1..Len(recv_mlist') : i < j => Precedes(recv_mlist'[i].id, recv_mlist'[j].id)
    BY <1>2, <1>4, <1>5 DEF SendersOrder
  <2>5. \A i \in 1..Len(recv_mlist'), j \in Sends' : Precedes(recv_mlist'[i].id, SentId(j)')
    BY <1>2, <1>4, <1>5 DEF SendersOrder
  <2>6. \A i, j \in Sends' : i < j => Precedes(SentId(i)', SentId(j)')
    BY <1>2, <1>4, <1>5 DEF SendersOrder
  <2>7. QED BY <2>1, <2>2, <2>3, <2>4, <2>5, <2>6 DEF SendersOrder
<1>8. QED BY <1>6, <1>7

-----------------------------------------------------------------------------
\* The order of messages, from the log to the handlers

\* Message id was relayed to h.
Relayed(h, id) == \E k \in 1..Len(log) : log[k].msg = id /\ h \in log[k].to

\* The log has a before b.
Later(a, b) == \A i, j \in 1..Len(log) : log[i].msg = a /\ log[j].msg = b => i < j

AllRelayed(h) ==
    /\ \A k \in 1..Len(heard[h]) : Relayed(h, heard[h][k])
    /\ \A k \in 1..Len(msg_recv_list[h]) : Relayed(h, msg_recv_list[h][k].id)
    /\ \A k \in 1..Len(toClient[h]) : Relayed(h, toClient[h][k].id)

\* What the handlers of h were given, then its msg_recv_list, then its socket are
\* in the order of the log.
LogsOrder(h) ==
    /\ \A i, j \in 1..Len(heard[h]) : i < j => Later(heard[h][i], heard[h][j])
    /\ \A i \in 1..Len(heard[h]), j \in 1..Len(msg_recv_list[h]) :
          Later(heard[h][i], msg_recv_list[h][j].id)
    /\ \A i \in 1..Len(heard[h]), j \in 1..Len(toClient[h]) :
          Later(heard[h][i], toClient[h][j].id)
    /\ \A i, j \in 1..Len(msg_recv_list[h]) :
          i < j => Later(msg_recv_list[h][i].id, msg_recv_list[h][j].id)
    /\ \A i \in 1..Len(msg_recv_list[h]), j \in 1..Len(toClient[h]) :
          Later(msg_recv_list[h][i].id, toClient[h][j].id)
    /\ \A i, j \in 1..Len(toClient[h]) : i < j => Later(toClient[h][i].id, toClient[h][j].id)

OneOrder == \A h \in Handles : AllRelayed(h) /\ LogsOrder(h)

OrderInv == TypeOK /\ AllSent /\ SendersOrder /\ OneOrder

\* The log grows: what was relayed stays so, in its order, and comes before the
\* new message.
LEMMA LogGrows ==
    ASSUME TypeOK, AllSent, SendersOrder, MsgProbe, NEW m, m = Head(recv_mlist)
    PROVE  /\ \A h \in Handles : \A a : Relayed(h, a) => Relayed(h, a)'
           /\ \A h \in Recipients(m) : Relayed(h, m.id)'
           /\ \A h \in Handles : \A a, b :
                 Relayed(h, a) /\ Relayed(h, b) /\ Later(a, b) => Later(a, b)'
           /\ \A h \in Handles : \A a : Relayed(h, a) => Later(a, m.id)'
<1> DEFINE r == [msg |-> m.id, to |-> Recipients(m)]
           Relays == [msg : MsgIds, to : SUBSET Handles]
<1>1. log \in Seq(Relays) /\ r \in Relays /\ log' = Append(log, r)
  BY ProbeKeeps DEF TypeOK, Recipients
<1>2. r.msg = m.id /\ r.to = Recipients(m) /\ m = recv_mlist[1] /\ 1 \in 1..Len(recv_mlist)
  BY ProbeKeeps
<1> HIDE DEF r, Relays
<1>3. /\ Len(log) \in Nat
      /\ Len(log') = Len(log) + 1
      /\ \A k \in 1..Len(log) : log'[k] = log[k] /\ k \in 1..Len(log')
      /\ \A k \in 1..Len(log') : \/ k \in 1..Len(log) /\ log'[k] = log[k]
                                 \/ k = Len(log) + 1 /\ log'[k] = r
      /\ Len(log) + 1 \in 1..Len(log')
      /\ log'[Len(log) + 1] = r
  BY <1>1, AppendedTo
<1>4. \A k \in 1..Len(log) : log[k].msg # r.msg
  <2>1. m.id[2] \in Nat
    BY ProbeKeeps, IdParts
  <2>2. \A k \in 1..Len(log) : Precedes(log[k].msg, m.id)
    BY <1>2 DEF SendersOrder
  <2>3. QED BY <1>2, <2>1, <2>2 DEF Precedes
<1>5. \A h \in Handles : \A a : Relayed(h, a) => Relayed(h, a)'
  BY <1>3 DEF Relayed
<1>6. ASSUME NEW h \in Recipients(m) PROVE Relayed(h, m.id)'
  BY <1>2, <1>3 DEF Relayed
<1>7. ASSUME NEW h \in Handles, NEW a, NEW b, Relayed(h, a), Relayed(h, b), Later(a, b)
      PROVE  Later(a, b)'
  <2>1. a # r.msg /\ b # r.msg
    BY <1>4, <1>7 DEF Relayed
  <2>2. QED BY <1>3, <1>7, <2>1 DEF Later
<1>8. ASSUME NEW h \in Handles, NEW a, Relayed(h, a)
      PROVE  Later(a, m.id)'
  <2>1. a # r.msg
    BY <1>4, <1>8 DEF Relayed
  <2>2. QED BY <1>2, <1>3, <1>4, <2>1 DEF Later
<1>9. QED BY <1>5, <1>6, <1>7, <1>8

\* A step in which the log stays: who is not h keeps its lists, and so its order.
LEMMA OthersKeepOrder ==
    ASSUME OneOrder, UNCHANGED log, NEW g \in Handles,
           heard'[g] = heard[g], msg_recv_list'[g] = msg_recv_list[g],
           toClient'[g] = toClient[g]
    PROVE  (AllRelayed(g) /\ LogsOrder(g))'
<1>1. AllRelayed(g) /\ LogsOrder(g)
  BY DEF OneOrder
<1>2. /\ \A id : Relayed(g, id) => Relayed(g, id)'
      /\ \A a, b : Later(a, b) => Later(a, b)'
  BY DEF Relayed, Later
<1>3. AllRelayed(g)'
  BY <1>1, <1>2 DEF AllRelayed
<1>4. LogsOrder(g)'
  BY <1>1, <1>2 DEF LogsOrder
<1>5. QED BY <1>3, <1>4

LEMMA RecvRelayInOrder ==
    ASSUME TypeOK, OneOrder, NEW h \in Handles, RecvRelay(h)
    PROVE  OneOrder'
<1> DEFINE m == Head(toClient[h])
<1>1. /\ toClient[h] \in Seq(Msg) /\ toClient[h] # <<>> /\ msg_recv_list[h] \in Seq(Msg)
      /\ log' = log /\ heard' = heard
      /\ msg_recv_list' = [msg_recv_list EXCEPT ![h] = Append(@, m)]
      /\ toClient' = [toClient EXCEPT ![h] = Tail(@)]
  BY DEF RecvRelay, TypeOK, Queued
<1>2. /\ toClient'[h] = Tail(toClient[h]) /\ msg_recv_list'[h] = Append(msg_recv_list[h], m)
      /\ \A g \in Handles : g # h => /\ toClient'[g] = toClient[g]
                                     /\ msg_recv_list'[g] = msg_recv_list[g]
  BY <1>1 DEF TypeOK
<1>3. /\ m \in Msg /\ m = toClient[h][1] /\ 1 \in 1..Len(toClient[h])
      /\ \A k \in 1..Len(toClient'[h]) :
            k + 1 \in 1..Len(toClient[h]) /\ k + 1 > 1 /\ toClient'[h][k] = toClient[h][k + 1]
  <2>1. /\ m \in Msg /\ m = toClient[h][1] /\ 1 \in 1..Len(toClient[h])
        /\ \A k \in 1..Len(Tail(toClient[h])) :
              /\ k + 1 \in 1..Len(toClient[h]) /\ k + 1 > 1
              /\ Tail(toClient[h])[k] = toClient[h][k + 1]
    BY <1>1, TakenFrom
  <2>2. QED BY <1>2, <2>1
<1> HIDE DEF m
<1>4. /\ Len(msg_recv_list[h]) \in Nat
      /\ \A k \in 1..Len(msg_recv_list'[h]) :
            \/ k \in 1..Len(msg_recv_list[h]) /\ msg_recv_list'[h][k] = msg_recv_list[h][k]
            \/ k = Len(msg_recv_list[h]) + 1 /\ msg_recv_list'[h][k] = m
  BY <1>1, <1>2, <1>3, AppendedTo
<1>5. AllRelayed(h) /\ LogsOrder(h)
  BY DEF OneOrder
<1>6. /\ \A id : Relayed(h, id) => Relayed(h, id)'
      /\ \A a, b : Later(a, b) => Later(a, b)'
  BY <1>1 DEF Relayed, Later
<1>7. AllRelayed(h)'
  BY <1>1, <1>3, <1>4, <1>5, <1>6 DEF AllRelayed
<1>8. LogsOrder(h)'
  <2>1. (\A i, j \in 1..Len(heard[h]) : i < j => Later(heard[h][i], heard[h][j]))'
    BY <1>1, <1>5, <1>6 DEF LogsOrder
  <2>2. (\A i \in 1..Len(heard[h]), j \in 1..Len(msg_recv_list[h]) :
            Later(heard[h][i], msg_recv_list[h][j].id))'
    BY <1>1, <1>3, <1>4, <1>5, <1>6 DEF LogsOrder
  <2>3. (\A i \in 1..Len(heard[h]), j \in 1..Len(toClient[h]) :
            Later(heard[h][i], toClient[h][j].id))'
    BY <1>1, <1>3, <1>5, <1>6 DEF LogsOrder
  <2>4. (\A i, j \in 1..Len(msg_recv_list[h]) :
            i < j => Later(msg_recv_list[h][i].id, msg_recv_list[h][j].id))'
    <3>1. \A i \in 1..Len(msg_recv_list[h]) : Later(msg_recv_list[h][i].id, m.id)
      BY <1>3, <1>5 DEF LogsOrder
    <3>2. QED BY <1>4, <1>5, <1>6, <3>1 DEF LogsOrder
  <2>5. (\A i \in 1..Len(msg_recv_list[h]), j \in 1..Len(toClient[h]) :
            Later(msg_recv_list[h][i].id, toClient[h][j].id))'
    BY <1>3, <1>4, <1>5, <1>6 DEF LogsOrder
  <2>6. (\A i, j \in 1..Len(toClient[h]) : i < j => Later(toClient[h][i].id, toClient[h][j].id))'
    <3>1. \A i, j \in 1..Len(toClient'[h]) : i < j => i + 1 < j + 1
      OBVIOUS
    <3>2. QED BY <1>3, <1>5, <1>6, <3>1 DEF LogsOrder
  <2>7. QED BY <2>1, <2>2, <2>3, <2>4, <2>5, <2>6 DEF LogsOrder
<1>9. QED BY <1>1, <1>2, <1>7, <1>8, OthersKeepOrder DEF OneOrder

LEMMA DispatchInOrder ==
    ASSUME TypeOK, OneOrder, NEW h \in Handles, Dispatch(h)
    PROVE  OneOrder'
<1> DEFINE m == Head(msg_recv_list[h])
<1>1. /\ msg_recv_list[h] \in Seq(Msg) /\ msg_recv_list[h] # <<>> /\ heard[h] \in Seq(MsgIds)
      /\ log' = log /\ toClient' = toClient
      /\ heard' = heard \/ heard' = [heard EXCEPT ![h] = Append(@, m.id)]
      /\ msg_recv_list' = [msg_recv_list EXCEPT ![h] = Tail(@)]
  BY DEF Dispatch, TypeOK, AfterPull
<1>2. /\ heard'[h] = heard[h] \/ heard'[h] = Append(heard[h], m.id)
      /\ msg_recv_list'[h] = Tail(msg_recv_list[h])
      /\ \A g \in Handles : g # h => /\ heard'[g] = heard[g]
                                     /\ msg_recv_list'[g] = msg_recv_list[g]
  BY <1>1 DEF TypeOK
<1>3. /\ m \in Msg /\ m = msg_recv_list[h][1] /\ 1 \in 1..Len(msg_recv_list[h])
      /\ \A k \in 1..Len(msg_recv_list'[h]) :
            /\ k + 1 \in 1..Len(msg_recv_list[h]) /\ k + 1 > 1
            /\ msg_recv_list'[h][k] = msg_recv_list[h][k + 1]
  <2>1. /\ m \in Msg /\ m = msg_recv_list[h][1] /\ 1 \in 1..Len(msg_recv_list[h])
        /\ \A k \in 1..Len(Tail(msg_recv_list[h])) :
              /\ k + 1 \in 1..Len(msg_recv_list[h]) /\ k + 1 > 1
              /\ Tail(msg_recv_list[h])[k] = msg_recv_list[h][k + 1]
    BY <1>1, TakenFrom
  <2>2. QED BY <1>2, <2>1
<1>4. m.id \in MsgIds
  BY <1>3 DEF Msg
<1> HIDE DEF m
<1>5. /\ Len(heard[h]) \in Nat
      /\ \A k \in 1..Len(heard'[h]) :
            \/ k \in 1..Len(heard[h]) /\ heard'[h][k] = heard[h][k]
            \/ k = Len(heard[h]) + 1 /\ heard'[h][k] = m.id
  BY <1>1, <1>2, <1>4, AppendedTo
<1>6. AllRelayed(h) /\ LogsOrder(h)
  BY DEF OneOrder
<1>7. /\ \A id : Relayed(h, id) => Relayed(h, id)'
      /\ \A a, b : Later(a, b) => Later(a, b)'
  BY <1>1 DEF Relayed, Later
<1>8. AllRelayed(h)'
  BY <1>1, <1>3, <1>5, <1>6, <1>7 DEF AllRelayed
<1>9. LogsOrder(h)'
  <2>1. (\A i, j \in 1..Len(heard[h]) : i < j => Later(heard[h][i], heard[h][j]))'
    <3>1. \A i \in 1..Len(heard[h]) : Later(heard[h][i], m.id)
      BY <1>3, <1>6 DEF LogsOrder
    <3>2. QED BY <1>5, <1>6, <1>7, <3>1 DEF LogsOrder
  <2>2. (\A i \in 1..Len(heard[h]), j \in 1..Len(msg_recv_list[h]) :
            Later(heard[h][i], msg_recv_list[h][j].id))'
    BY <1>3, <1>5, <1>6, <1>7 DEF LogsOrder
  <2>3. (\A i \in 1..Len(heard[h]), j \in 1..Len(toClient[h]) :
            Later(heard[h][i], toClient[h][j].id))'
    BY <1>1, <1>3, <1>5, <1>6, <1>7 DEF LogsOrder
  <2>4. (\A i, j \in 1..Len(msg_recv_list[h]) :
            i < j => Later(msg_recv_list[h][i].id, msg_recv_list[h][j].id))'
    <3>1. \A i, j \in 1..Len(msg_recv_list'[h]) : i < j => i + 1 < j + 1
      OBVIOUS
    <3>2. QED BY <1>3, <1>6, <1>7, <3>1 DEF LogsOrder
  <2>5. (\A i \in 1..Len(msg_recv_list[h]), j \in 1..Len(toClient[h]) :
            Later(msg_recv_list[h][i].id, toClient[h][j].id))'
    BY <1>1, <1>3, <1>6, <1>7 DEF LogsOrder
  <2>6. (\A i, j \in 1..Len(toClient[h]) : i < j => Later(toClient[h][i].id, toClient[h][j].id))'
    BY <1>1, <1>6, <1>7 DEF LogsOrder
  <2>7. QED BY <2>1, <2>2, <2>3, <2>4, <2>5, <2>6 DEF LogsOrder
<1>10. QED BY <1>1, <1>2, <1>8, <1>9, OthersKeepOrder DEF OneOrder

LEMMA CrashInOrder ==
    ASSUME TypeOK, OneOrder, NEW h \in Handles, Crash(h)
    PROVE  OneOrder'
<1>1. /\ log' = log /\ heard' = heard
      /\ msg_recv_list'[h] = <<>> /\ toClient'[h] = <<>>
      /\ \A g \in Handles : g # h => /\ toClient'[g] = toClient[g]
                                     /\ msg_recv_list'[g] = msg_recv_list[g]
  BY DEF Crash, TypeOK
<1>2. AllRelayed(h) /\ LogsOrder(h)
  BY DEF OneOrder
<1>3. /\ \A id : Relayed(h, id) => Relayed(h, id)'
      /\ \A a, b : Later(a, b) => Later(a, b)'
  BY <1>1 DEF Relayed, Later
<1>4. Len(msg_recv_list'[h]) = 0 /\ Len(toClient'[h]) = 0
  BY <1>1
<1>5. (AllRelayed(h) /\ LogsOrder(h))'
  BY <1>1, <1>2, <1>3, <1>4 DEF AllRelayed, LogsOrder
<1>6. QED BY <1>1, <1>5, OthersKeepOrder DEF OneOrder

LEMMA MsgProbeInOrder ==
    ASSUME TypeOK, AllSent, SendersOrder, OneOrder, MsgProbe
    PROVE  OneOrder'
<1>1. PICK m : m = Head(recv_mlist)
  OBVIOUS
<1>2. SUFFICES ASSUME NEW h \in Handles PROVE (AllRelayed(h) /\ LogsOrder(h))'
  BY DEF OneOrder
<1>3. /\ m \in Msg /\ toClient[h] \in Seq(Msg)
      /\ \/ toClient'[h] = toClient[h]
         \/ toClient'[h] = Append(toClient[h], m) /\ h \in Recipients(m)
      /\ heard' = heard /\ msg_recv_list' = msg_recv_list
  BY <1>1, ProbeKeeps DEF TypeOK, MsgProbe, clientVars
<1>4. /\ Len(toClient[h]) \in Nat
      /\ \A k \in 1..Len(toClient'[h]) :
            \/ k \in 1..Len(toClient[h]) /\ toClient'[h][k] = toClient[h][k]
            \/ k = Len(toClient[h]) + 1 /\ toClient'[h][k] = m /\ h \in Recipients(m)
  BY <1>3, AppendedTo
<1>5. AllRelayed(h) /\ LogsOrder(h)
  BY DEF OneOrder
<1>6. /\ \A a : Relayed(h, a) => Relayed(h, a)'
      /\ h \in Recipients(m) => Relayed(h, m.id)'
      /\ \A a, b : Relayed(h, a) /\ Relayed(h, b) /\ Later(a, b) => Later(a, b)'
      /\ \A a : Relayed(h, a) => Later(a, m.id)'
  BY <1>1, LogGrows
<1>7. AllRelayed(h)'
  BY <1>3, <1>4, <1>5, <1>6 DEF AllRelayed
<1>8. LogsOrder(h)'
  <2>1. (\A i, j \in 1..Len(heard[h]) : i < j => Later(heard[h][i], heard[h][j]))'
    BY <1>3, <1>5, <1>6 DEF AllRelayed, LogsOrder
  <2>2. (\A i \in 1..Len(heard[h]), j \in 1..Len(msg_recv_list[h]) :
            Later(heard[h][i], msg_recv_list[h][j].id))'
    BY <1>3, <1>5, <1>6 DEF AllRelayed, LogsOrder
  <2>3. (\A i \in 1..Len(heard[h]), j \in 1..Len(toClient[h]) :
            Later(heard[h][i], toClient[h][j].id))'
    BY <1>3, <1>4, <1>5, <1>6 DEF AllRelayed, LogsOrder
  <2>4. (\A i, j \in 1..Len(msg_recv_list[h]) :
            i < j => Later(msg_recv_list[h][i].id, msg_recv_list[h][j].id))'
    BY <1>3, <1>5, <1>6 DEF AllRelayed, LogsOrder
  <2>5. (\A i \in 1..Len(msg_recv_list[h]), j \in 1..Len(toClient[h]) :
            Later(msg_recv_list[h][i].id, toClient[h][j].id))'
    BY <1>3, <1>4, <1>5, <1>6 DEF AllRelayed, LogsOrder
  <2>6. (\A i, j \in 1..Len(toClient[h]) : i < j => Later(toClient[h][i].id, toClient[h][j].id))'
    BY <1>4, <1>5, <1>6 DEF AllRelayed, LogsOrder
  <2>7. QED BY <2>1, <2>2, <2>3, <2>4, <2>5, <2>6 DEF LogsOrder
<1>9. QED BY <1>7, <1>8

LEMMA OrderInitially == Init => OrderInv
<1> SUFFICES ASSUME Init PROVE OrderInv
  OBVIOUS
<1>1. /\ Len(log) = 0 /\ Len(recv_mlist) = 0 /\ Len(toDaemon) = 0
      /\ \A h \in Handles : /\ Len(heard[h]) = 0 /\ Len(msg_recv_list[h]) = 0
                            /\ Len(toClient[h]) = 0
  BY DEF Init
<1>2. AllSent /\ SendersOrder
  BY <1>1 DEF AllSent, SendersOrder, Sends
<1>3. OneOrder
  BY <1>1 DEF OneOrder, AllRelayed, LogsOrder
<1>4. QED BY <1>2, <1>3, TypeInitially DEF OrderInv

LEMMA OrderKept == OrderInv /\ [Next]_vars => OrderInv'
<1> SUFFICES ASSUME OrderInv, [Next]_vars PROVE OrderInv'
  OBVIOUS
<1>1. TypeOK /\ AllSent /\ SendersOrder /\ OneOrder
  BY DEF OrderInv
<1>2. ASSUME UNCHANGED <<sent, log, recv_mlist, toDaemon>>
      PROVE  AllSent' /\ SendersOrder'
  <2>1. Sends' = Sends /\ \A k \in Sends : SentId(k)' = SentId(k)
    BY <1>2 DEF Sends, SentId
  <2>2. AllSent'
    BY <1>1, <1>2, <2>1 DEF AllSent, IsSent
  <2>3. SendersOrder'
    BY <1>1, <1>2, <2>1 DEF SendersOrder
  <2>4. QED BY <2>2, <2>3
<1>3. ASSUME UNCHANGED <<log, heard, msg_recv_list, toClient>>
      PROVE  OneOrder'
  BY <1>1, <1>3, OthersKeepOrder DEF OneOrder
<1>4. AllSent' /\ SendersOrder'
  <2>1. ASSUME NEW h \in Handles, ClientStep(h) PROVE AllSent' /\ SendersOrder'
    <3>1. ASSUME NEW t \in Topics, SendMsg(h, t) PROVE AllSent' /\ SendersOrder'
      BY <1>1, <3>1, SendMsgOrdered
    <3>2. ASSUME NEW n \in Registered, Register(h, n) \/ Unregister(h, n)
          PROVE  AllSent' /\ SendersOrder'
      <4>1. \A iit \in {"MSG_REGISTER", "MSG_UNREGISTER"} :
               /\ [iit |-> iit, send_pid |-> h, msg_name |-> n] \in DaemonPacket
               /\ [iit |-> iit, send_pid |-> h, msg_name |-> n].iit # "MSG_SEND"
        BY DEF DaemonPacket
      <4>2. QED BY <1>1, <3>2, <4>1, SendsKept DEF Register, Unregister, daemonVars
    <3>3. ASSUME CallExit(h) PROVE AllSent' /\ SendersOrder'
      <4>1. /\ [iit |-> "EXIT", send_pid |-> h] \in DaemonPacket
            /\ [iit |-> "EXIT", send_pid |-> h].iit # "MSG_SEND"
        BY DEF DaemonPacket
      <4>2. QED BY <1>1, <3>3, <4>1, SendsKept DEF CallExit, clientVars, daemonVars
    <3>4. ASSUME Crash(h) \/ RecvRelay(h) \/ Dispatch(h) PROVE AllSent' /\ SendersOrder'
      BY <1>2, <3>4 DEF Crash, RecvRelay, Dispatch, daemonVars
    <3>5. QED BY <2>1, <3>1, <3>2, <3>3, <3>4 DEF ClientStep
  <2>2. ASSUME NEW h \in Handles, DaemonLive(h) \/ Suspend(h) PROVE AllSent' /\ SendersOrder'
    BY <1>2, <2>2 DEF DaemonLive, Suspend, clientVars
  <2>3. CASE DaemonSend
    BY <1>1, <2>3, DaemonSendOrdered
  <2>4. CASE DaemonRegister \/ DaemonUnregister \/ DaemonExit
    BY <1>1, <2>4, ReceiveOrdered DEF DaemonRegister, DaemonUnregister, DaemonExit, clientVars
  <2>5. CASE MsgProbe
    BY <1>1, <2>5, MsgProbeOrdered
  <2>6. CASE UNCHANGED vars
    BY <1>2, <2>6 DEF vars, clientVars, daemonVars
  <2>7. QED BY <2>1, <2>2, <2>3, <2>4, <2>5, <2>6 DEF Next, DaemonStep
<1>5. OneOrder'
  <2>1. ASSUME NEW h \in Handles, ClientStep(h) PROVE OneOrder'
    <3>1. ASSUME NEW t \in Topics, SendMsg(h, t) PROVE OneOrder'
      BY <1>3, <3>1 DEF SendMsg
    <3>2. ASSUME NEW n \in Registered, Register(h, n) \/ Unregister(h, n) PROVE OneOrder'
      BY <1>3, <3>2 DEF Register, Unregister
    <3>3. ASSUME CallExit(h) PROVE OneOrder'
      BY <1>3, <3>3 DEF CallExit, clientVars
    <3>4. QED BY <1>1, <2>1, <3>1, <3>2, <3>3, CrashInOrder, RecvRelayInOrder,
                 DispatchInOrder DEF ClientStep
  <2>2. ASSUME NEW h \in Handles, DaemonLive(h) \/ Suspend(h) PROVE OneOrder'
    BY <1>3, <2>2 DEF DaemonLive, Suspend, clientVars
  <2>3. CASE DaemonStep
    BY <1>3, <2>3 DEF DaemonStep, DaemonSend, DaemonRegister, DaemonUnregister, DaemonExit,
                      clientVars
  <2>4. CASE MsgProbe
    BY <1>1, <2>4, MsgProbeInOrder
  <2>5. CASE UNCHANGED vars
    BY <1>3, <2>5 DEF vars, clientVars
  <2>6. QED BY <2>1, <2>2, <2>3, <2>4, <2>5 DEF Next
<1>6. QED BY <1>1, <1>4, <1>5, TypeKept DEF OrderInv

-----------------------------------------------------------------------------
\* The refinement

\* A step of MsgBus is a step of Bus, or one that Bus does not see.
LEMMA StepIsBusStep ==
    ASSUME OrderInv, [Next]_vars
    PROVE  [B!Next]_<<sent, log, heard>>
<1>1. ASSUME NEW h \in Handles, ClientStep(h) PROVE [B!Next]_<<sent, log, heard>>
  <2>1. ASSUME NEW t \in Topics, SendMsg(h, t) PROVE B!Send(h)
    BY <2>1 DEF SendMsg, B!Send
  <2>2. ASSUME Dispatch(h), heard' # heard PROVE B!Hear(h)
    <3> DEFINE m == Head(msg_recv_list[h])
    <3>1. /\ heard' = [heard EXCEPT ![h] = Append(@, m.id)]
          /\ sent' = sent /\ log' = log
      BY <2>2 DEF Dispatch
    <3>2. m = msg_recv_list[h][1] /\ 1 \in 1..Len(msg_recv_list[h])
      BY <2>2, TakenFrom DEF Dispatch, OrderInv, TypeOK
    <3>3. AllRelayed(h) /\ LogsOrder(h) /\ heard[h] \in Seq(MsgIds)
      BY DEF OrderInv, OneOrder, TypeOK
    <3>4. PICK k \in 1..Len(log) : log[k].msg = m.id /\ h \in log[k].to
      BY <3>2, <3>3 DEF AllRelayed, Relayed
    <3>5. \A i \in 1..Len(heard[h]), l \in 1..Len(log) : log[l].msg = heard[h][i] => l < k
      BY <3>2, <3>3, <3>4 DEF LogsOrder, Later
    <3> HIDE DEF m
    <3>6. DOMAIN log = 1..Len(log) /\ DOMAIN heard[h] = 1..Len(heard[h])
      BY <3>3 DEF OrderInv, TypeOK
    <3>7. QED BY <3>1, <3>4, <3>5, <3>6 DEF B!Hear
  <2>3. ASSUME ~ \E t \in Topics : SendMsg(h, t), ~ (Dispatch(h) /\ heard' # heard)
        PROVE  UNCHANGED <<sent, log, heard>>
    BY <1>1, <2>3 DEF ClientStep, Register, Unregister, CallExit, Crash, RecvRelay, Dispatch,
                      clientVars
  <2>4. QED BY <2>1, <2>2, <2>3 DEF B!Next
<1>2. CASE MsgProbe
  <2> DEFINE m  == Head(recv_mlist)
             to == Recipients(m)
  <2>1. /\ m.id \in MsgIds /\ m = recv_mlist[1] /\ 1 \in 1..Len(recv_mlist)
        /\ log' = Append(log, [msg |-> m.id, to |-> to])
        /\ sent' = sent /\ heard' = heard
    BY <1>2, ProbeKeeps DEF OrderInv, MsgProbe, clientVars
  <2>2. to \in SUBSET Handles
    BY DEF Recipients
  <2> HIDE DEF m, to
  <2>3. /\ m.id[1] \in Handles /\ m.id[2] \in 1..MaxMsgs /\ m.id[2] \in Nat
        /\ m.id = <<m.id[1], m.id[2]>>
    BY <2>1, IdParts
  <2>4. m.id[2] <= sent[m.id[1]] /\ sent[m.id[1]] \in Nat
    BY <2>1, <2>3, BoundsAssumption DEF OrderInv, AllSent, IsSent, TypeOK
  <2>5. m.id[2] \in 1..sent[m.id[1]]
    BY <2>3, <2>4, BoundsAssumption
  <2>6. \A k \in 1..Len(log) : log[k].msg[1] = m.id[1] => log[k].msg[2] < m.id[2]
    BY <2>1 DEF OrderInv, SendersOrder, Precedes
  <2>7. DOMAIN log = 1..Len(log)
    BY DEF OrderInv, TypeOK
  <2>8. B!Order(m.id[1], m.id[2], to)
    BY <2>1, <2>3, <2>6, <2>7 DEF B!Order
  <2>9. QED BY <2>2, <2>3, <2>5, <2>8 DEF B!Next
<1>3. ASSUME NEW h \in Handles, DaemonLive(h) \/ Suspend(h) PROVE UNCHANGED <<sent, log, heard>>
  BY <1>3 DEF DaemonLive, Suspend, clientVars
<1>4. CASE DaemonStep
  BY <1>4 DEF DaemonStep, DaemonSend, DaemonRegister, DaemonUnregister, DaemonExit, clientVars
<1>5. CASE UNCHANGED vars
  BY <1>5 DEF vars, clientVars
<1>6. QED BY <1>1, <1>2, <1>3, <1>4, <1>5 DEF Next

\* The path of a message keeps the promises of Bus: all handlers hear messages in
\* one common order, which respects the order of each sender, and none twice,
\* whichever datagrams ipc_data_to_daemon and the daemon's relay lose.
THEOREM OneOrderForAll == Spec => BusKept
<1>1. Init => B!Init
  BY DEF Init, B!Init
<1>2. OrderInv /\ [Next]_vars => [B!Next]_<<sent, log, heard>>
  BY StepIsBusStep
<1>3. QED BY <1>1, <1>2, OrderInitially, OrderKept, PTL DEF Spec, BusKept, B!Spec

-----------------------------------------------------------------------------
\* Early subscribers: registrations that are under way

\* Packet p registers n for g, or withdraws it.
Registers(p, g, n) == p.iit = "MSG_REGISTER" /\ p.send_pid = g /\ p.msg_name = n
Withdraws(p, g, n) == p.iit = "MSG_UNREGISTER" /\ p.send_pid = g /\ p.msg_name = n

\* Once the daemon has handled the first i packets, n is in the pmsg_list of g.
InEffect(g, n, i) ==
    \/ \E k \in 1..i : /\ Registers(toDaemon[k], g, n)
                       /\ \A j \in 1..i : j > k => ~Withdraws(toDaemon[j], g, n)
    \/ n \in pmsg_list[g] /\ \A j \in 1..i : ~Withdraws(toDaemon[j], g, n)

\* What a client has handlers for is what the daemon will know it wants.
WillAgree == \A g \in Handles : ~Exited(g) =>
                \A n \in Registered : n \in msg_list[g] <=> InEffect(g, n, Len(toDaemon))

\* Message m finds g subscribed from when the daemon has handled i packets.
Served(g, m, i) ==
    \E n \in Registered : /\ n = m.msg_name \/ n = AnyMsg
                          /\ \A j \in i..Len(toDaemon) : InEffect(g, n, j)

\* A message that waits in the socket or in recv_mlist will find those subscribed
\* where it is due.
WillBeServed ==
    /\ \A k \in Sends : \A g \in due[SentId(k)] : Served(g, toDaemon[k].msg, k)
    /\ \A k \in 1..Len(recv_mlist) : \A g \in due[recv_mlist[k].id] : Served(g, recv_mlist[k], 0)

DueAreMembers == \A id \in MsgIds : \A g \in due[id] : member[g] = "active" /\ ~Exited(g)

LogServes == \A k \in 1..Len(log) : due[log[k].msg] \subseteq log[k].to

EarlyInv == OrderInv /\ WillAgree /\ WillBeServed /\ DueAreMembers /\ LogServes

\* A packet arrives behind the others.
LEMMA EffectOfArrival ==
    ASSUME TypeOK, NEW p \in DaemonPacket, toDaemon' = Append(toDaemon, p),
           UNCHANGED pmsg_list, NEW g \in Handles, NEW n
    PROVE  /\ \A i \in 0..Len(toDaemon) : InEffect(g, n, i)' <=> InEffect(g, n, i)
           /\ \A i : i = Len(toDaemon) + 1 =>
                 (InEffect(g, n, i)' <=> \/ Registers(p, g, n)
                                         \/ InEffect(g, n, i - 1) /\ ~Withdraws(p, g, n))
           /\ Len(toDaemon') = Len(toDaemon) + 1
<1>1. toDaemon \in Seq(DaemonPacket)
  BY DEF TypeOK
<1>2. /\ Len(toDaemon) \in Nat
      /\ Len(toDaemon') = Len(toDaemon) + 1
      /\ \A k \in 1..Len(toDaemon) : toDaemon'[k] = toDaemon[k]
      /\ toDaemon'[Len(toDaemon) + 1] = p
  BY <1>1, AppendedTo
<1>3. ASSUME NEW i \in 0..Len(toDaemon) PROVE InEffect(g, n, i)' <=> InEffect(g, n, i)
  <2>1. \A k \in 1..i : toDaemon'[k] = toDaemon[k]
    BY <1>2
  <2>2. QED BY <2>1 DEF InEffect, Registers, Withdraws
<1>4. ASSUME NEW i, i = Len(toDaemon) + 1
      PROVE  InEffect(g, n, i)' <=> \/ Registers(p, g, n)
                                    \/ InEffect(g, n, i - 1) /\ ~Withdraws(p, g, n)
  <2>1. /\ i \in Nat /\ toDaemon'[i] = p /\ i \in 1..i
        /\ \A k \in 1..(i - 1) : toDaemon'[k] = toDaemon[k] /\ k \in 1..i /\ i > k
        /\ \A k \in 1..i : k = i \/ k \in 1..(i - 1)
    BY <1>2, <1>4
  <2>2. ~(Registers(p, g, n) /\ Withdraws(p, g, n))
    BY DEF Registers, Withdraws
  <2>3. ASSUME InEffect(g, n, i)'
        PROVE  Registers(p, g, n) \/ (InEffect(g, n, i - 1) /\ ~Withdraws(p, g, n))
    <3>1. ASSUME NEW k \in 1..i, Registers(toDaemon'[k], g, n),
                 \A j \in 1..i : j > k => ~Withdraws(toDaemon'[j], g, n)
          PROVE  Registers(p, g, n) \/ (InEffect(g, n, i - 1) /\ ~Withdraws(p, g, n))
      <4>1. CASE k = i
        <5>1. toDaemon'[k] = p
          BY <2>1, <4>1
        <5>2. Registers(p, g, n)
          BY <3>1, <5>1 DEF Registers
        <5>3. QED BY <5>2
      <4>2. CASE k \in 1..(i - 1)
        <5>1. ~Withdraws(p, g, n)
          BY <2>1, <3>1, <4>2
        <5>2. Registers(toDaemon[k], g, n)
          BY <2>1, <3>1, <4>2
        <5>3. \A j \in 1..(i - 1) : j > k => ~Withdraws(toDaemon[j], g, n)
          BY <2>1, <3>1
        <5>4. QED BY <4>2, <5>1, <5>2, <5>3 DEF InEffect
      <4>3. QED BY <2>1, <3>1, <4>1, <4>2
    <3>2. ASSUME n \in pmsg_list[g], \A j \in 1..i : ~Withdraws(toDaemon'[j], g, n)
          PROVE  InEffect(g, n, i - 1) /\ ~Withdraws(p, g, n)
      BY <2>1, <3>2 DEF InEffect
    <3>3. QED BY <2>3, <3>1, <3>2 DEF InEffect, Registers, Withdraws
  <2>4. ASSUME Registers(p, g, n) PROVE InEffect(g, n, i)'
    <3>1. \A j \in 1..i : ~(j > i)
      BY <2>1
    <3>2. QED BY <2>1, <2>4, <3>1 DEF InEffect, Registers
  <2>5. ASSUME InEffect(g, n, i - 1), ~Withdraws(p, g, n) PROVE InEffect(g, n, i)'
    <3>1. ASSUME NEW k \in 1..(i - 1), Registers(toDaemon[k], g, n),
                 \A j \in 1..(i - 1) : j > k => ~Withdraws(toDaemon[j], g, n)
          PROVE  InEffect(g, n, i)'
      <4>1. k \in 1..i /\ Registers(toDaemon'[k], g, n)
        BY <2>1, <3>1
      <4>2. ASSUME NEW j \in 1..i, j > k PROVE ~Withdraws(toDaemon'[j], g, n)
        BY <2>1, <2>5, <3>1, <4>2
      <4>3. QED BY <4>1, <4>2 DEF InEffect, Registers, Withdraws
    <3>2. ASSUME n \in pmsg_list[g], \A j \in 1..(i - 1) : ~Withdraws(toDaemon[j], g, n)
          PROVE  InEffect(g, n, i)'
      <4>1. ASSUME NEW j \in 1..i PROVE ~Withdraws(toDaemon'[j], g, n)
        BY <2>1, <2>5, <3>2
      <4>2. QED BY <3>2, <4>1 DEF InEffect, Withdraws
    <3>3. QED BY <2>5, <3>1, <3>2 DEF InEffect
  <2>6. QED BY <2>3, <2>4, <2>5
<1>5. QED BY <1>2, <1>3, <1>4

\* The daemon handles the first packet: what was to come with it has come.
LEMMA EffectOfReceipt ==
    ASSUME TypeOK, NEW iit, Receives(iit), NEW g \in Handles, NEW n,
           n \in pmsg_list'[g] <=> \/ Registers(toDaemon[1], g, n)
                                   \/ n \in pmsg_list[g] /\ ~Withdraws(toDaemon[1], g, n)
    PROVE  \A i \in 0..Len(toDaemon') : InEffect(g, n, i)' <=> InEffect(g, n, i + 1)
<1>1. SUFFICES ASSUME NEW i \in 0..Len(toDaemon')
               PROVE  InEffect(g, n, i)' <=> InEffect(g, n, i + 1)
  OBVIOUS
<1>2. /\ \A k \in 1..i : toDaemon'[k] = toDaemon[k + 1] /\ k + 1 \in 1..(i + 1) /\ k + 1 > 1
      /\ 1 \in 1..(i + 1)
      /\ \A k \in 1..(i + 1) : k = 1 \/ (k - 1 \in 1..i /\ toDaemon'[k - 1] = toDaemon[k])
  BY ReceiveKeeps
<1>3. ~(Registers(toDaemon[1], g, n) /\ Withdraws(toDaemon[1], g, n))
  BY DEF Registers, Withdraws
<1>4. (\A j \in 1..i : ~Withdraws(toDaemon'[j], g, n))
        <=> \A j \in 1..(i + 1) : j > 1 => ~Withdraws(toDaemon[j], g, n)
  <2>1. ASSUME \A j \in 1..i : ~Withdraws(toDaemon'[j], g, n), NEW j \in 1..(i + 1), j > 1
        PROVE  ~Withdraws(toDaemon[j], g, n)
    <3>1. j - 1 \in 1..i /\ toDaemon'[j - 1] = toDaemon[j]
      BY <1>2, <2>1
    <3>2. QED BY <2>1, <3>1 DEF Withdraws
  <2>2. ASSUME \A j \in 1..(i + 1) : j > 1 => ~Withdraws(toDaemon[j], g, n), NEW j \in 1..i
        PROVE  ~Withdraws(toDaemon'[j], g, n)
    <3>1. j + 1 \in 1..(i + 1) /\ j + 1 > 1 /\ toDaemon'[j] = toDaemon[j + 1]
      BY <1>2
    <3>2. QED BY <2>2, <3>1 DEF Withdraws
  <2>3. QED BY <2>1, <2>2
<1>5. \A k \in 1..i : (\A j \in 1..i : j > k => ~Withdraws(toDaemon'[j], g, n))
        <=> \A j \in 1..(i + 1) : j > k + 1 => ~Withdraws(toDaemon[j], g, n)
  BY <1>2
<1>6. ASSUME InEffect(g, n, i)' PROVE InEffect(g, n, i + 1)
  <2>1. ASSUME NEW k \in 1..i, Registers(toDaemon'[k], g, n),
               \A j \in 1..i : j > k => ~Withdraws(toDaemon'[j], g, n)
        PROVE  InEffect(g, n, i + 1)
    BY <1>2, <1>5, <2>1 DEF InEffect
  <2>2. ASSUME n \in pmsg_list'[g], \A j \in 1..i : ~Withdraws(toDaemon'[j], g, n)
        PROVE  InEffect(g, n, i + 1)
    <3>1. CASE Registers(toDaemon[1], g, n)
      BY <1>2, <1>4, <2>2, <3>1 DEF InEffect
    <3>2. CASE n \in pmsg_list[g] /\ ~Withdraws(toDaemon[1], g, n)
      BY <1>2, <1>4, <2>2, <3>2 DEF InEffect
    <3>3. QED BY <2>2, <3>1, <3>2
  <2>3. QED BY <1>6, <2>1, <2>2 DEF InEffect, Registers, Withdraws
<1>7. ASSUME InEffect(g, n, i + 1) PROVE InEffect(g, n, i)'
  <2>1. ASSUME NEW k \in 1..(i + 1), Registers(toDaemon[k], g, n),
               \A j \in 1..(i + 1) : j > k => ~Withdraws(toDaemon[j], g, n)
        PROVE  InEffect(g, n, i)'
    <3>1. CASE k = 1
      BY <1>4, <2>1, <3>1 DEF InEffect, Withdraws
    <3>2. CASE k # 1
      <4>1. k - 1 \in 1..i /\ Registers(toDaemon'[k - 1], g, n) /\ k - 1 + 1 = k
        BY <1>2, <2>1, <3>2
      <4>2. \A j \in 1..i : j > k - 1 => ~Withdraws(toDaemon'[j], g, n)
        BY <1>5, <2>1, <4>1
      <4>3. QED BY <4>1, <4>2 DEF InEffect, Registers, Withdraws
    <3>3. QED BY <3>1, <3>2
  <2>2. ASSUME n \in pmsg_list[g], \A j \in 1..(i + 1) : ~Withdraws(toDaemon[j], g, n)
        PROVE  InEffect(g, n, i)'
    BY <1>2, <1>4, <2>2 DEF InEffect, Withdraws
  <2>3. QED BY <1>7, <2>1, <2>2 DEF InEffect
<1>8. QED BY <1>6, <1>7

\* What a client does to the queues leaves who is served alone, if it adds at most
\* one packet, and that withdraws nothing from whom a message is due.
LEMMA ArrivalServes ==
    ASSUME EarlyInv, NEW p \in DaemonPacket, toDaemon' = Append(toDaemon, p),
           UNCHANGED <<pmsg_list, recv_mlist, log>>,
           \A k \in Sends : \A g \in due'[SentId(k)] :
              g \in due[SentId(k)] /\ \A n : ~Withdraws(p, g, n),
           \A k \in 1..Len(recv_mlist) : \A g \in due'[recv_mlist[k].id] :
              g \in due[recv_mlist[k].id] /\ \A n : ~Withdraws(p, g, n),
           \A k \in 1..Len(log) : due'[log[k].msg] \subseteq due[log[k].msg],
           p.iit = "MSG_SEND" => \A i : i = Len(toDaemon) + 1 =>
              \A g \in due'[p.msg.id] : Served(g, p.msg, i)',
           \A id \in MsgIds : due[id] \subseteq Handles /\ due'[id] \subseteq Handles
    PROVE  WillBeServed' /\ LogServes'
<1>1. TypeOK /\ toDaemon \in Seq(DaemonPacket)
  BY DEF EarlyInv, OrderInv, TypeOK
<1>2. /\ Len(toDaemon) \in Nat
      /\ Len(toDaemon') = Len(toDaemon) + 1
      /\ \A k \in 1..Len(toDaemon) : toDaemon'[k] = toDaemon[k]
      /\ toDaemon'[Len(toDaemon) + 1] = p
  BY <1>1, AppendedTo
<1>3. ASSUME NEW g \in Handles, NEW m, NEW i \in 0..Len(toDaemon), Served(g, m, i),
             \A n : ~Withdraws(p, g, n)
      PROVE  Served(g, m, i)'
  <2>1. PICK n \in Registered : /\ n = m.msg_name \/ n = AnyMsg
                                /\ \A j \in i..Len(toDaemon) : InEffect(g, n, j)
    BY <1>3 DEF Served
  <2>2. /\ \A j \in 0..Len(toDaemon) : InEffect(g, n, j)' <=> InEffect(g, n, j)
        /\ \A j : j = Len(toDaemon) + 1 =>
              (InEffect(g, n, j)' <=> \/ Registers(p, g, n)
                                      \/ InEffect(g, n, j - 1) /\ ~Withdraws(p, g, n))
    BY <1>1, EffectOfArrival
  <2>3. ASSUME NEW j \in i..Len(toDaemon') PROVE InEffect(g, n, j)'
    <3>1. CASE j \in i..Len(toDaemon)
      <4>1. j \in 0..Len(toDaemon)
        BY <1>2, <3>1
      <4>2. QED BY <2>1, <2>2, <3>1, <4>1
    <3>2. CASE j = Len(toDaemon) + 1
      <4>1. j - 1 = Len(toDaemon) /\ Len(toDaemon) \in i..Len(toDaemon)
        BY <1>2, <3>2
      <4>2. InEffect(g, n, j - 1)
        BY <2>1, <4>1
      <4>3. QED BY <1>3, <2>2, <3>2, <4>2
    <3>3. QED BY <1>2, <3>1, <3>2
  <2>4. QED BY <2>1, <2>3 DEF Served
<1>4. ASSUME NEW k \in Sends', NEW g \in due'[SentId(k)'] PROVE Served(g, toDaemon[k].msg, k)'
  <2>1. CASE k \in 1..Len(toDaemon)
    <3>1. k \in Sends /\ SentId(k)' = SentId(k) /\ toDaemon'[k].msg = toDaemon[k].msg
      BY <1>2, <2>1 DEF Sends, SentId
    <3>2. g \in due[SentId(k)] /\ (\A n : ~Withdraws(p, g, n)) /\ g \in Handles
      BY <1>1, <1>4, <3>1, IdsUnderWay
    <3>3. Served(g, toDaemon[k].msg, k) /\ k \in 0..Len(toDaemon)
      BY <1>2, <2>1, <3>1, <3>2 DEF EarlyInv, WillBeServed
    <3>4. PICK m : m = toDaemon[k].msg
      OBVIOUS
    <3>5. Served(g, m, k)'
      BY <1>3, <3>2, <3>3, <3>4
    <3>6. QED BY <3>1, <3>4, <3>5 DEF Served
  <2>2. CASE k = Len(toDaemon) + 1
    <3>1. toDaemon'[k] = p /\ p.iit = "MSG_SEND" /\ SentId(k)' = p.msg.id
      BY <1>2, <2>2 DEF Sends, SentId
    <3>2. QED BY <1>4, <2>2, <3>1 DEF Served
  <2>3. QED BY <1>2, <2>1, <2>2 DEF Sends
<1>5. ASSUME NEW k \in 1..Len(recv_mlist), NEW g \in due'[recv_mlist[k].id]
      PROVE  Served(g, recv_mlist[k], 0)'
  <2>1. g \in due[recv_mlist[k].id] /\ (\A n : ~Withdraws(p, g, n)) /\ g \in Handles
    BY <1>1, <1>5, IdsUnderWay
  <2>2. PICK m : m = recv_mlist[k]
    OBVIOUS
  <2>3. Served(g, m, 0) /\ 0 \in 0..Len(toDaemon)
    BY <1>2, <2>1, <2>2 DEF EarlyInv, WillBeServed
  <2>4. Served(g, m, 0)'
    BY <1>3, <2>1, <2>3
  <2>5. QED BY <2>2, <2>4 DEF Served
<1>6. WillBeServed'
  BY <1>4, <1>5 DEF WillBeServed
<1>7. LogServes'
  BY DEF EarlyInv, LogServes
<1>8. QED BY <1>6, <1>7

\* A packet that says of the client's table what became of it keeps the views in
\* agreement.
LEMMA ArrivalAgrees ==
    ASSUME EarlyInv, NEW p \in DaemonPacket, toDaemon' = Append(toDaemon, p),
           UNCHANGED <<pmsg_list, member>>,
           \A g \in Handles : \A n \in Registered :
              n \in msg_list'[g] <=> \/ Registers(p, g, n)
                                     \/ n \in msg_list[g] /\ ~Withdraws(p, g, n),
           \A id \in MsgIds : \A g \in due'[id] :
              /\ g \in Handles /\ member[g] = "active" /\ ~Exited(g)
              /\ ~(p.iit = "EXIT" /\ p.send_pid = g)
    PROVE  WillAgree' /\ DueAreMembers'
<1>1. TypeOK /\ toDaemon \in Seq(DaemonPacket)
  BY DEF EarlyInv, OrderInv, TypeOK
<1>2. /\ Len(toDaemon) \in Nat
      /\ Len(toDaemon') = Len(toDaemon) + 1
      /\ DOMAIN toDaemon = 1..Len(toDaemon) /\ DOMAIN toDaemon' = 1..(Len(toDaemon) + 1)
      /\ \A k \in 1..Len(toDaemon) : toDaemon'[k] = toDaemon[k]
      /\ toDaemon'[Len(toDaemon) + 1] = p
  BY <1>1, AppendedTo
<1>3. \A g \in Handles : Exited(g)' => Exited(g) \/ (p.iit = "EXIT" /\ p.send_pid = g)
  BY <1>2 DEF Exited
<1>4. \A g \in Handles : Exited(g) => Exited(g)'
  BY <1>2 DEF Exited
<1>5. ASSUME NEW g \in Handles, ~Exited(g)', NEW n \in Registered
      PROVE  (n \in msg_list[g] <=> InEffect(g, n, Len(toDaemon)))'
  <2>1. n \in msg_list[g] <=> InEffect(g, n, Len(toDaemon))
    BY <1>4, <1>5 DEF EarlyInv, WillAgree
  <2>2. PICK i : i = Len(toDaemon) + 1
    OBVIOUS
  <2>3. /\ InEffect(g, n, i)' <=> \/ Registers(p, g, n)
                                  \/ InEffect(g, n, i - 1) /\ ~Withdraws(p, g, n)
        /\ i - 1 = Len(toDaemon)
    BY <1>1, <1>2, <2>2, EffectOfArrival
  <2>4. InEffect(g, n, i)' <=> n \in msg_list'[g]
    BY <2>1, <2>3
  <2>5. i = Len(toDaemon')
    BY <1>2, <2>2
  <2>6. QED BY <2>4, <2>5 DEF InEffect
<1>6. WillAgree'
  BY <1>5 DEF WillAgree
<1>7. DueAreMembers'
  BY <1>3 DEF DueAreMembers
<1>8. QED BY <1>6, <1>7

\* A step that leaves the queues alone and makes nothing due.
LEMMA QuietServes ==
    ASSUME EarlyInv, UNCHANGED <<msg_list, toDaemon, pmsg_list, recv_mlist, log>>,
           \A id \in MsgIds : \A g \in due'[id] : g \in due[id] /\ member'[g] = member[g],
           \A g \in Handles : member'[g] = "absent" <=> member[g] = "absent"
    PROVE  WillAgree' /\ WillBeServed' /\ DueAreMembers' /\ LogServes'
<1>1. TypeOK /\ \A id \in MsgIds : due[id] \subseteq Handles
  BY DEF EarlyInv, OrderInv, TypeOK
<1>2. \A g \in Handles : Exited(g)' <=> Exited(g)
  BY DEF Exited
<1>3. \A g, n, i : InEffect(g, n, i)' <=> InEffect(g, n, i)
  BY DEF InEffect
<1>4. WillAgree'
  BY <1>2, <1>3 DEF EarlyInv, WillAgree
<1>5. Sends' = Sends /\ \A k \in Sends : SentId(k)' = SentId(k)
  BY DEF Sends, SentId
<1>6. \A g, m, i : Served(g, m, i) => Served(g, m, i)'
  BY <1>3 DEF Served
<1>7. WillBeServed'
  <2>1. ASSUME NEW k \in Sends', NEW g \in due'[SentId(k)'] PROVE Served(g, toDaemon[k].msg, k)'
    <3>1. g \in due[SentId(k)] /\ k \in Sends
      BY <1>1, <1>5, <2>1, IdsUnderWay
    <3>2. Served(g, toDaemon[k].msg, k)
      BY <3>1 DEF EarlyInv, WillBeServed
    <3>3. QED BY <1>3, <3>2 DEF Served
  <2>2. ASSUME NEW k \in 1..Len(recv_mlist'), NEW g \in due'[recv_mlist'[k].id]
        PROVE  Served(g, recv_mlist[k], 0)'
    <3>1. g \in due[recv_mlist[k].id]
      BY <1>1, <2>2, IdsUnderWay
    <3>2. Served(g, recv_mlist[k], 0)
      BY <2>2, <3>1 DEF EarlyInv, WillBeServed
    <3>3. QED BY <1>3, <3>2 DEF Served
  <2>3. QED BY <2>1, <2>2 DEF WillBeServed
<1>8. DueAreMembers'
  BY <1>1, <1>2 DEF EarlyInv, DueAreMembers
<1>9. LogServes'
  BY <1>1, IdsUnderWay DEF EarlyInv, LogServes
<1>10. QED BY <1>4, <1>7, <1>8, <1>9

LEMMA SendMsgServes ==
    ASSUME EarlyInv, ~MayLose, NEW h \in Handles, NEW t \in Topics, SendMsg(h, t)
    PROVE  WillAgree' /\ WillBeServed' /\ DueAreMembers' /\ LogServes'
<1>0. PICK number : number = sent'[h]
  OBVIOUS
<1> DEFINE m  == [id |-> <<h, number>>, msg_name |-> t]
           p  == [iit |-> "MSG_SEND", send_pid |-> h, msg |-> m]
           to == {g \in Handles : /\ alive[g] /\ ~Exited(g)
                                  /\ member[g] = "active"
                                  /\ Wanted(msg_list[g], m)}
<1>1. TypeOK /\ AllSent
  BY DEF EarlyInv, OrderInv
<1>2. /\ toDaemon' = Append(toDaemon, p) /\ due' = [due EXCEPT ![m.id] = to]
      /\ h \in Senders /\ sent' = [sent EXCEPT ![h] = @ + 1] /\ sent[h] < MaxMsgs
      /\ UNCHANGED <<msg_list, member, pmsg_list, recv_mlist, log>>
  BY <1>0 DEF SendMsg, ToDaemon, daemonVars
<1>3. number = sent[h] + 1 /\ sent[h] \in Nat /\ number \in 1..MaxMsgs
  BY <1>0, <1>1, <1>2, BoundsAssumption DEF TypeOK
<1>4. m.id \in MsgIds /\ p \in DaemonPacket
  BY <1>2, <1>3 DEF MsgIds, DaemonPacket, Msg
<1>5. /\ m.id[1] = h /\ m.id[2] = sent[h] + 1 /\ p.iit = "MSG_SEND" /\ p.msg = m
      /\ m.msg_name = t
  BY <1>3
<1>6. \A id \in MsgIds : IsSent(id) => id # m.id
  BY <1>3, <1>5 DEF IsSent
<1>7. to \in SUBSET Handles
  OBVIOUS
<1>8. \A g \in to : member[g] = "active" /\ ~Exited(g) /\ Wanted(msg_list[g], m)
  OBVIOUS
<1> HIDE DEF m, p, to
<1>9. /\ due'[m.id] = to
      /\ \A id \in MsgIds : id # m.id => due'[id] = due[id]
      /\ \A id \in MsgIds : due[id] \subseteq Handles /\ due'[id] \subseteq Handles
  BY <1>1, <1>2, <1>4, <1>7 DEF TypeOK
<1>10. \A g, n : ~Withdraws(p, g, n) /\ ~Registers(p, g, n)
  BY <1>5 DEF Withdraws, Registers
<1>11. WillAgree' /\ DueAreMembers'
  <2>1. \A id \in MsgIds : \A g \in due'[id] :
           g \in Handles /\ member[g] = "active" /\ ~Exited(g)
    BY <1>8, <1>9 DEF EarlyInv, DueAreMembers
  <2>2. QED BY <1>2, <1>4, <1>5, <1>10, <2>1, ArrivalAgrees
<1>12. /\ \A k \in Sends : due'[SentId(k)] = due[SentId(k)]
       /\ \A k \in 1..Len(recv_mlist) : due'[recv_mlist[k].id] = due[recv_mlist[k].id]
       /\ \A k \in 1..Len(log) : due'[log[k].msg] = due[log[k].msg]
  BY <1>1, <1>6, <1>9, IdsUnderWay DEF AllSent
<1>13. ASSUME NEW i, i = Len(toDaemon) + 1, NEW g \in to
       PROVE  Served(g, m, i)'
  <2>1. PICK n \in msg_list[g] : n = t \/ n = AnyMsg
    BY <1>5, <1>8, <1>13 DEF Wanted
  <2>2. n \in Registered /\ g \in Handles
    BY <1>1, <1>7, <2>1 DEF TypeOK
  <2>3. i - 1 = Len(toDaemon) /\ Len(toDaemon) \in Nat
    BY <1>1, <1>13 DEF TypeOK
  <2>4. InEffect(g, n, i - 1)
    BY <1>8, <2>1, <2>2, <2>3 DEF EarlyInv, WillAgree
  <2>5. InEffect(g, n, i)' /\ Len(toDaemon') = i
    BY <1>1, <1>2, <1>4, <1>10, <1>13, <2>2, <2>4, EffectOfArrival
  <2>6. ASSUME NEW j \in i..Len(toDaemon') PROVE InEffect(g, n, j)'
    <3>1. j = i
      BY <1>13, <2>3, <2>5
    <3>2. QED BY <2>5, <3>1
  <2>7. QED BY <1>5, <2>1, <2>2, <2>6 DEF Served
<1>14. \A i : i = Len(toDaemon) + 1 => \A g \in due'[p.msg.id] : Served(g, p.msg, i)'
  BY <1>5, <1>9, <1>13
<1>15. QED BY <1>2, <1>4, <1>9, <1>10, <1>11, <1>12, <1>14, ArrivalServes

LEMMA ClientServes ==
    ASSUME EarlyInv, ~MayLose, NEW h \in Handles, ClientStep(h)
    PROVE  WillAgree' /\ WillBeServed' /\ DueAreMembers' /\ LogServes'
<1>1. TypeOK /\ DueAreMembers
  BY DEF EarlyInv, OrderInv
<1>2. \A id \in MsgIds : due[id] \subseteq Handles
  BY <1>1 DEF TypeOK
<1>3. ASSUME NEW n \in Registered, Register(h, n)
      PROVE  WillAgree' /\ WillBeServed' /\ DueAreMembers' /\ LogServes'
  <2> DEFINE p == [iit |-> "MSG_REGISTER", send_pid |-> h, msg_name |-> n]
  <2>1. /\ p \in DaemonPacket /\ toDaemon' = Append(toDaemon, p) /\ due' = due
        /\ msg_list' = [msg_list EXCEPT ![h] = @ \cup {n}]
        /\ UNCHANGED <<member, pmsg_list, recv_mlist, log>>
    BY <1>3 DEF Register, ToDaemon, DaemonPacket, daemonVars
  <2>2. /\ \A g, o : Registers(p, g, o) <=> g = h /\ o = n
        /\ \A g, o : ~Withdraws(p, g, o)
        /\ p.iit # "EXIT" /\ p.iit # "MSG_SEND"
    BY DEF Registers, Withdraws
  <2> HIDE DEF p
  <2>3. \A g \in Handles : \A o \in Registered :
           o \in msg_list'[g] <=> \/ Registers(p, g, o)
                                  \/ o \in msg_list[g] /\ ~Withdraws(p, g, o)
    BY <1>1, <2>1, <2>2 DEF TypeOK
  <2>4. WillAgree' /\ DueAreMembers'
    BY <1>1, <1>2, <2>1, <2>2, <2>3, ArrivalAgrees DEF DueAreMembers
  <2>5. QED BY <1>2, <2>1, <2>2, <2>4, ArrivalServes
<1>4. ASSUME NEW n \in Registered, Unregister(h, n)
      PROVE  WillAgree' /\ WillBeServed' /\ DueAreMembers' /\ LogServes'
  <2> DEFINE p == [iit |-> "MSG_UNREGISTER", send_pid |-> h, msg_name |-> n]
  <2>1. /\ p \in DaemonPacket /\ toDaemon' = Append(toDaemon, p)
        /\ due' = [m \in MsgIds |-> due[m] \ {h}]
        /\ msg_list' = [msg_list EXCEPT ![h] = @ \ {n}]
        /\ UNCHANGED <<member, pmsg_list, recv_mlist, log>>
    BY <1>4 DEF Unregister, Withdrawn, ToDaemon, DaemonPacket, daemonVars
  <2>2. /\ \A g, o : Withdraws(p, g, o) <=> g = h /\ o = n
        /\ \A g, o : ~Registers(p, g, o)
        /\ p.iit # "EXIT" /\ p.iit # "MSG_SEND"
    BY DEF Registers, Withdraws
  <2> HIDE DEF p
  <2>3. \A g \in Handles : \A o \in Registered :
           o \in msg_list'[g] <=> \/ Registers(p, g, o)
                                  \/ o \in msg_list[g] /\ ~Withdraws(p, g, o)
    BY <1>1, <2>1, <2>2 DEF TypeOK
  <2>4. \A id \in MsgIds : /\ due'[id] \subseteq due[id]
                           /\ \A g \in due'[id] : g # h
    BY <2>1
  <2>5. WillAgree' /\ DueAreMembers'
    BY <1>1, <1>2, <2>1, <2>2, <2>3, <2>4, ArrivalAgrees DEF DueAreMembers
  <2>6. /\ \A k \in Sends : \A g \in due'[SentId(k)] :
              g \in due[SentId(k)] /\ \A o : ~Withdraws(p, g, o)
        /\ \A k \in 1..Len(recv_mlist) : \A g \in due'[recv_mlist[k].id] :
              g \in due[recv_mlist[k].id] /\ \A o : ~Withdraws(p, g, o)
        /\ \A k \in 1..Len(log) : due'[log[k].msg] \subseteq due[log[k].msg]
    BY <1>1, <2>2, <2>4, IdsUnderWay
  <2>7. QED BY <1>2, <2>1, <2>2, <2>4, <2>5, <2>6, ArrivalServes
<1>5. ASSUME CallExit(h)
      PROVE  WillAgree' /\ WillBeServed' /\ DueAreMembers' /\ LogServes'
  <2> DEFINE p == [iit |-> "EXIT", send_pid |-> h]
  <2>1. /\ p \in DaemonPacket /\ toDaemon' = Append(toDaemon, p)
        /\ due' = [m \in MsgIds |-> due[m] \ {h}]
        /\ UNCHANGED <<msg_list, member, pmsg_list, recv_mlist, log>>
    BY <1>5 DEF CallExit, Withdrawn, ToDaemon, DaemonPacket, clientVars, daemonVars
  <2>2. /\ \A g, o : ~Withdraws(p, g, o) /\ ~Registers(p, g, o)
        /\ p.iit # "MSG_SEND" /\ p.send_pid = h
    BY DEF Registers, Withdraws
  <2> HIDE DEF p
  <2>3. \A id \in MsgIds : /\ due'[id] \subseteq due[id]
                           /\ \A g \in due'[id] : g # h
    BY <2>1
  <2>4. WillAgree' /\ DueAreMembers'
    BY <1>1, <1>2, <2>1, <2>2, <2>3, ArrivalAgrees DEF DueAreMembers
  <2>5. /\ \A k \in Sends : due'[SentId(k)] \subseteq due[SentId(k)]
        /\ \A k \in 1..Len(recv_mlist) : due'[recv_mlist[k].id] \subseteq due[recv_mlist[k].id]
        /\ \A k \in 1..Len(log) : due'[log[k].msg] \subseteq due[log[k].msg]
    BY <1>1, <2>3, IdsUnderWay
  <2>6. QED BY <1>2, <2>1, <2>2, <2>3, <2>4, <2>5, ArrivalServes
<1>6. ASSUME Crash(h) \/ RecvRelay(h) \/ Dispatch(h)
      PROVE  WillAgree' /\ WillBeServed' /\ DueAreMembers' /\ LogServes'
  <2>1. /\ UNCHANGED <<msg_list, toDaemon, member, pmsg_list, recv_mlist, log>>
        /\ due' = due \/ due' = [m \in MsgIds |-> due[m] \ {h}]
    BY <1>6 DEF Crash, RecvRelay, Dispatch, Withdrawn, daemonVars
  <2>2. QED BY <2>1, QuietServes
<1>7. QED BY <1>3, <1>4, <1>5, <1>6, SendMsgServes DEF ClientStep

\* The daemon handles a packet as its kind says: all that waits moves up.
LEMMA ReceiptServes ==
    ASSUME EarlyInv, TypeOK', NEW iit, Receives(iit), UNCHANGED <<msg_list, due, log>>,
           \A g \in Handles : member'[g] = "absent" <=>
              member[g] = "absent" \/ (iit = "EXIT" /\ toDaemon[1].send_pid = g),
           \A g \in Handles : member[g] = "active" =>
              member'[g] = "active" \/ (iit = "EXIT" /\ toDaemon[1].send_pid = g),
           \A g \in Handles : member'[g] # "absent" => \A n \in Registered :
              n \in pmsg_list'[g] <=> \/ Registers(toDaemon[1], g, n)
                                      \/ n \in pmsg_list[g] /\ ~Withdraws(toDaemon[1], g, n),
           \/ recv_mlist' = recv_mlist
           \/ iit = "MSG_SEND" /\ recv_mlist' = Append(recv_mlist, toDaemon[1].msg)
    PROVE  WillAgree' /\ WillBeServed' /\ DueAreMembers' /\ LogServes'
<1>1. /\ TypeOK /\ DueAreMembers
      /\ \A id \in MsgIds : due[id] \subseteq Handles
  BY DEF EarlyInv, OrderInv, TypeOK
<1>2. /\ toDaemon[1].iit = iit /\ 1 \in 1..Len(toDaemon)
      /\ Len(toDaemon) \in Nat
      /\ Len(toDaemon') = Len(toDaemon) - 1
      /\ DOMAIN toDaemon = 1..Len(toDaemon) /\ DOMAIN toDaemon' = 1..(Len(toDaemon) - 1)
      /\ \A k \in 1..Len(toDaemon') :
            k + 1 \in 1..Len(toDaemon) /\ toDaemon'[k] = toDaemon[k + 1]
      /\ \A k \in 1..Len(toDaemon) : k = 1 \/ k - 1 \in 1..Len(toDaemon')
  BY <1>1, ReceiveKeeps DEF TypeOK
<1>3. ASSUME NEW g \in Handles PROVE Exited(g)' <=> Exited(g)
  <2>1. ASSUME Exited(g)' PROVE Exited(g)
    <3>1. CASE member'[g] = "absent"
      BY <1>2, <3>1 DEF Exited
    <3>2. ASSUME NEW k \in 1..Len(toDaemon'), toDaemon'[k].iit = "EXIT",
                 toDaemon'[k].send_pid = g
          PROVE  Exited(g)
      BY <1>2, <3>2 DEF Exited
    <3>3. QED BY <1>2, <2>1, <3>1, <3>2 DEF Exited
  <2>2. ASSUME Exited(g) PROVE Exited(g)'
    <3>1. CASE member[g] = "absent"
      BY <3>1 DEF Exited
    <3>2. ASSUME NEW k \in 1..Len(toDaemon), toDaemon[k].iit = "EXIT",
                 toDaemon[k].send_pid = g
          PROVE  Exited(g)'
      <4>1. CASE k = 1
        BY <1>2, <3>2, <4>1 DEF Exited
      <4>2. CASE k # 1
        <5>1. k - 1 \in 1..Len(toDaemon') /\ toDaemon'[k - 1] = toDaemon[k]
          BY <1>2, <3>2, <4>2
        <5>2. QED BY <1>2, <3>2, <5>1 DEF Exited
      <4>3. QED BY <4>1, <4>2
    <3>3. QED BY <1>2, <2>2, <3>1, <3>2 DEF Exited
  <2>3. QED BY <2>1, <2>2
<1>4. ASSUME NEW g \in Handles, ~Exited(g), NEW n \in Registered
      PROVE  \A i \in 0..Len(toDaemon') : InEffect(g, n, i)' <=> InEffect(g, n, i + 1)
  <2>1. member'[g] # "absent"
    BY <1>3, <1>4 DEF Exited
  <2>2. QED BY <1>1, <2>1, EffectOfReceipt
<1>5. WillAgree'
  <2>1. ASSUME NEW g \in Handles, ~Exited(g)', NEW n \in Registered
        PROVE  (n \in msg_list[g] <=> InEffect(g, n, Len(toDaemon)))'
    <3>1. n \in msg_list[g] <=> InEffect(g, n, Len(toDaemon))
      BY <1>3, <2>1 DEF EarlyInv, WillAgree
    <3>2. PICK i : i = Len(toDaemon')
      OBVIOUS
    <3>3. i \in 0..Len(toDaemon') /\ i + 1 = Len(toDaemon)
      BY <1>2, <3>2
    <3>4. InEffect(g, n, i)' <=> InEffect(g, n, i + 1)
      BY <1>3, <1>4, <2>1, <3>3
    <3>5. InEffect(g, n, i)' <=> n \in msg_list'[g]
      BY <3>1, <3>3, <3>4
    <3>6. QED BY <3>2, <3>5 DEF InEffect
  <2>2. QED BY <2>1 DEF WillAgree
<1>6. ASSUME NEW g \in Handles, ~Exited(g), NEW m, NEW i \in Nat, Served(g, m, i + 1)
      PROVE  Served(g, m, i)'
  <2>1. PICK n \in Registered : /\ n = m.msg_name \/ n = AnyMsg
                                /\ \A j \in (i + 1)..Len(toDaemon) : InEffect(g, n, j)
    BY <1>6 DEF Served
  <2>2. ASSUME NEW j \in i..Len(toDaemon') PROVE InEffect(g, n, j)'
    <3>1. j \in 0..Len(toDaemon') /\ j + 1 \in (i + 1)..Len(toDaemon)
      BY <1>2
    <3>2. QED BY <1>4, <1>6, <2>1, <3>1
  <2>3. QED BY <2>1, <2>2 DEF Served
<1>7. ASSUME NEW g, NEW m, Served(g, m, 0) PROVE Served(g, m, 0 + 1)
  BY <1>7 DEF Served
<1>8. ASSUME NEW k \in Sends', NEW g \in due'[SentId(k)'] PROVE Served(g, toDaemon[k].msg, k)'
  <2>1. k + 1 \in Sends /\ SentId(k)' = SentId(k + 1) /\ k \in Nat
    BY <1>1, SendsTaken DEF Sends
  <2>2. g \in due[SentId(k + 1)] /\ g \in Handles /\ ~Exited(g)
    BY <1>1, <1>8, <2>1, IdsUnderWay DEF DueAreMembers
  <2>3. PICK m : m = toDaemon[k + 1].msg
    OBVIOUS
  <2>4. Served(g, m, k + 1)
    BY <2>1, <2>2, <2>3 DEF EarlyInv, WillBeServed
  <2>5. Served(g, m, k)'
    BY <1>6, <2>1, <2>2, <2>4
  <2>6. m = toDaemon'[k].msg
    BY <1>2, <2>3 DEF Sends
  <2>7. QED BY <2>5, <2>6 DEF Served
<1>9. ASSUME NEW k \in 1..Len(recv_mlist'), NEW g \in due'[recv_mlist'[k].id]
      PROVE  Served(g, recv_mlist[k], 0)'
  <2>1. recv_mlist \in Seq(Msg)
    BY <1>1 DEF TypeOK
  <2>2. CASE k \in 1..Len(recv_mlist) /\ recv_mlist'[k] = recv_mlist[k]
    <3>1. g \in due[recv_mlist[k].id] /\ g \in Handles /\ ~Exited(g)
      BY <1>1, <1>9, <2>2, IdsUnderWay DEF DueAreMembers
    <3>2. PICK m : m = recv_mlist[k]
      OBVIOUS
    <3>3. Served(g, m, 0 + 1)
      BY <1>7, <2>2, <3>1, <3>2 DEF EarlyInv, WillBeServed
    <3>4. Served(g, m, 0)'
      BY <1>6, <3>1, <3>3
    <3>5. QED BY <2>2, <3>2, <3>4 DEF Served
  <2>3. CASE iit = "MSG_SEND" /\ recv_mlist'[k] = toDaemon[1].msg
    <3>1. 1 \in Sends /\ SentId(1) = toDaemon[1].msg.id
      BY <1>2, <2>3 DEF Sends, SentId
    <3>2. g \in due[SentId(1)] /\ g \in Handles /\ ~Exited(g)
      BY <1>1, <1>9, <2>3, <3>1, IdsUnderWay DEF DueAreMembers
    <3>3. PICK m : m = toDaemon[1].msg
      OBVIOUS
    <3>4. Served(g, m, 0 + 1)
      BY <3>1, <3>2, <3>3 DEF EarlyInv, WillBeServed
    <3>5. Served(g, m, 0)'
      BY <1>6, <3>2, <3>4
    <3>6. QED BY <2>3, <3>3, <3>5 DEF Served
  <2>4. CASE recv_mlist' = recv_mlist
    BY <1>9, <2>2, <2>4
  <2>5. CASE iit = "MSG_SEND" /\ recv_mlist' = Append(recv_mlist, toDaemon[1].msg)
    <3>1. toDaemon[1].msg \in Msg
      BY <1>1, <2>5, ReceiveKeeps, PacketParts
    <3>2. QED BY <1>9, <2>1, <2>2, <2>3, <2>5, <3>1, AppendedTo
  <2>6. QED BY <2>4, <2>5
<1>10. WillBeServed'
  BY <1>8, <1>9 DEF WillBeServed
<1>11. DueAreMembers'
  <2>1. ASSUME NEW id \in MsgIds, NEW g \in due'[id] PROVE member'[g] = "active" /\ ~Exited(g)'
    <3>1. g \in Handles /\ member[g] = "active" /\ ~Exited(g)
      BY <1>1, <2>1 DEF DueAreMembers
    <3>2. member'[g] # "absent"
      BY <1>3, <3>1 DEF Exited
    <3>3. QED BY <1>3, <3>1, <3>2
  <2>2. QED BY <2>1 DEF DueAreMembers
<1>12. LogServes'
  BY DEF EarlyInv, LogServes
<1>13. QED BY <1>5, <1>10, <1>11, <1>12

LEMMA DaemonServes ==
    ASSUME EarlyInv, DaemonStep
    PROVE  WillAgree' /\ WillBeServed' /\ DueAreMembers' /\ LogServes'
<1> DEFINE p == toDaemon[1]
<1>1. TypeOK /\ TypeOK'
  BY DaemonStepTypes DEF EarlyInv, OrderInv
<1>2. ASSUME NEW iit, Receives(iit)
      PROVE  p = Head(toDaemon) /\ p.iit = iit /\ p \in DaemonPacket
  BY <1>1, <1>2, ReceiveKeeps
<1>3. CASE DaemonSend
  <2>1. /\ Receives("MSG_SEND") /\ p = Head(toDaemon) /\ p.iit = "MSG_SEND"
        /\ p \in DaemonPacket
    BY <1>2, <1>3 DEF DaemonSend
  <2>2. /\ member' = [member EXCEPT ![p.send_pid] = IF @ = "absent" THEN @ ELSE "active"]
        /\ recv_mlist' = recv_mlist \/ recv_mlist' = Append(recv_mlist, p.msg)
        /\ UNCHANGED <<msg_list, due, log, pmsg_list>>
    BY <1>3, <2>1 DEF DaemonSend, Heard, Queued, Payload, clientVars
  <2>3. \A g \in Handles : /\ member'[g] = "absent" <=> member[g] = "absent"
                           /\ member[g] = "active" => member'[g] = "active"
    BY <1>1, <2>1, <2>2, PacketParts DEF TypeOK
  <2>4. \A g, n : ~Registers(p, g, n) /\ ~Withdraws(p, g, n)
    BY <2>1 DEF Registers, Withdraws
  <2>5. QED BY <1>1, <2>1, <2>2, <2>3, <2>4, ReceiptServes
<1>4. CASE DaemonRegister
  <2>1. /\ Receives("MSG_REGISTER") /\ p = Head(toDaemon) /\ p.iit = "MSG_REGISTER"
        /\ p \in DaemonPacket
    BY <1>2, <1>4 DEF DaemonRegister
  <2>2. /\ pmsg_list' = IF member[p.send_pid] = "absent" THEN pmsg_list
                        ELSE [pmsg_list EXCEPT ![p.send_pid] = @ \cup {p.msg_name}]
        /\ UNCHANGED <<msg_list, due, log, recv_mlist, member>>
    BY <1>4, <2>1 DEF DaemonRegister, clientVars
  <2>3. ASSUME NEW g \in Handles, member'[g] # "absent", NEW n
        PROVE  n \in pmsg_list'[g] <=> \/ Registers(p, g, n)
                                       \/ n \in pmsg_list[g] /\ ~Withdraws(p, g, n)
    BY <1>1, <2>1, <2>2, <2>3, PacketParts DEF TypeOK, Registers, Withdraws
  <2>4. QED BY <1>1, <2>1, <2>2, <2>3, ReceiptServes
<1>5. CASE DaemonUnregister
  <2>1. /\ Receives("MSG_UNREGISTER") /\ p = Head(toDaemon) /\ p.iit = "MSG_UNREGISTER"
        /\ p \in DaemonPacket
    BY <1>2, <1>5 DEF DaemonUnregister
  <2>2. /\ pmsg_list' = [pmsg_list EXCEPT ![p.send_pid] = @ \ {p.msg_name}]
        /\ UNCHANGED <<msg_list, due, log, recv_mlist, member>>
    BY <1>5, <2>1 DEF DaemonUnregister, clientVars
  <2>3. ASSUME NEW g \in Handles, NEW n
        PROVE  n \in pmsg_list'[g] <=> \/ Registers(p, g, n)
                                       \/ n \in pmsg_list[g] /\ ~Withdraws(p, g, n)
    BY <1>1, <2>1, <2>2, PacketParts DEF TypeOK, Registers, Withdraws
  <2>4. QED BY <1>1, <2>1, <2>2, <2>3, ReceiptServes
<1>6. CASE DaemonExit
  <2>1. /\ Receives("EXIT") /\ p = Head(toDaemon) /\ p.iit = "EXIT" /\ p \in DaemonPacket
    BY <1>2, <1>6 DEF DaemonExit
  <2>2. /\ member' = [member EXCEPT ![p.send_pid] = "absent"]
        /\ pmsg_list' = [pmsg_list EXCEPT ![p.send_pid] = {}]
        /\ UNCHANGED <<msg_list, due, log, recv_mlist>>
    BY <1>6, <2>1 DEF DaemonExit, clientVars
  <2>3. \A g \in Handles : member'[g] = IF g = p.send_pid THEN "absent" ELSE member[g]
    BY <1>1, <2>2 DEF TypeOK
  <2>4. \A g, n : ~Registers(p, g, n) /\ ~Withdraws(p, g, n)
    BY <2>1 DEF Registers, Withdraws
  <2>5. \A g \in Handles : member'[g] # "absent" => pmsg_list'[g] = pmsg_list[g]
    BY <1>1, <2>2, <2>3 DEF TypeOK
  <2>6. QED BY <1>1, <2>1, <2>2, <2>3, <2>4, <2>5, ReceiptServes
<1>7. QED BY <1>3, <1>4, <1>5, <1>6 DEF DaemonStep

\* The daemon relays a message: those where it is due are active, and what they
\* asked for is in effect.
LEMMA MsgProbeServes ==
    ASSUME EarlyInv, MsgProbe
    PROVE  WillAgree' /\ WillBeServed' /\ DueAreMembers' /\ LogServes'
<1> DEFINE m == Head(recv_mlist)
           r == [msg |-> m.id, to |-> Recipients(m)]
           Relays == [msg : MsgIds, to : SUBSET Handles]
<1>1. /\ TypeOK /\ DueAreMembers
      /\ \A id \in MsgIds : due[id] \subseteq Handles
  BY DEF EarlyInv, OrderInv, TypeOK
<1>2. UNCHANGED <<msg_list, toDaemon, member, pmsg_list, due>>
  BY DEF MsgProbe, clientVars
<1>3. /\ m.id \in MsgIds /\ m = recv_mlist[1] /\ 1 \in 1..Len(recv_mlist)
      /\ \A k \in 1..Len(recv_mlist') :
            k + 1 \in 1..Len(recv_mlist) /\ recv_mlist'[k] = recv_mlist[k + 1]
      /\ log' = Append(log, r)
  BY <1>1, ProbeKeeps
<1>4. log \in Seq(Relays) /\ r \in Relays /\ r.msg = m.id /\ r.to = Recipients(m)
  BY <1>1, <1>3 DEF TypeOK, Recipients
<1> HIDE DEF m, r, Relays
<1>5. \A k \in 1..Len(log') : \/ k \in 1..Len(log) /\ log'[k] = log[k]
                              \/ log'[k] = r
  BY <1>3, <1>4, AppendedTo
<1>6. ASSUME NEW g \in due[m.id] PROVE g \in Recipients(m)
  <2>1. g \in Handles /\ member[g] = "active"
    BY <1>1, <1>3, <1>6 DEF DueAreMembers
  <2>2. Served(g, m, 0)
    BY <1>3, <1>6 DEF EarlyInv, WillBeServed
  <2>3. PICK n \in Registered : (n = m.msg_name \/ n = AnyMsg) /\ InEffect(g, n, 0)
    <3>1. 0 \in 0..Len(toDaemon)
      BY <1>1 DEF TypeOK
    <3>2. QED BY <2>2, <3>1 DEF Served
  <2>4. n \in pmsg_list[g]
    BY <2>3 DEF InEffect
  <2>5. QED BY <2>1, <2>3, <2>4 DEF Recipients, Wanted
<1>7. LogServes'
  BY <1>2, <1>4, <1>5, <1>6 DEF EarlyInv, LogServes
<1>8. /\ \A g \in Handles : Exited(g)' <=> Exited(g)
      /\ \A g, n, i : InEffect(g, n, i)' <=> InEffect(g, n, i)
      /\ Sends' = Sends
  BY <1>2 DEF Exited, InEffect, Sends
<1>9. WillAgree' /\ DueAreMembers'
  BY <1>1, <1>2, <1>8 DEF EarlyInv, WillAgree, DueAreMembers
<1>10. WillBeServed'
  <2>1. ASSUME NEW k \in Sends', NEW g \in due'[SentId(k)'] PROVE Served(g, toDaemon[k].msg, k)'
    <3>1. g \in due[SentId(k)]
      BY <1>2, <2>1 DEF SentId
    <3>2. Served(g, toDaemon[k].msg, k)
      BY <1>8, <2>1, <3>1 DEF EarlyInv, WillBeServed
    <3>3. QED BY <1>2, <1>8, <3>2 DEF Served
  <2>2. ASSUME NEW k \in 1..Len(recv_mlist'), NEW g \in due'[recv_mlist'[k].id]
        PROVE  Served(g, recv_mlist[k], 0)'
    <3>1. Served(g, recv_mlist[k + 1], 0)
      BY <1>2, <1>3, <2>2 DEF EarlyInv, WillBeServed
    <3>2. recv_mlist'[k] = recv_mlist[k + 1]
      BY <1>3
    <3>3. QED BY <1>2, <1>8, <3>1, <3>2 DEF Served
  <2>3. QED BY <2>1, <2>2 DEF WillBeServed
<1>11. QED BY <1>7, <1>9, <1>10

LEMMA EarlyInitially == Init => EarlyInv
<1> SUFFICES ASSUME Init PROVE EarlyInv
  OBVIOUS
<1>1. OrderInv
  BY OrderInitially
<1>2. WillAgree
  BY DEF Init, WillAgree, InEffect
<1>3. WillBeServed
  BY DEF Init, WillBeServed, Sends
<1>4. DueAreMembers /\ LogServes
  BY DEF Init, DueAreMembers, LogServes
<1>5. QED BY <1>1, <1>2, <1>3, <1>4 DEF EarlyInv

LEMMA EarlyKept == ASSUME ~MayLose, EarlyInv, [Next]_vars PROVE EarlyInv'
<1>1. OrderInv' /\ TypeOK
  BY OrderKept DEF EarlyInv, OrderInv
<1>2. WillAgree' /\ WillBeServed' /\ DueAreMembers' /\ LogServes'
  <2>1. ASSUME NEW h \in Handles, ClientStep(h)
        PROVE  WillAgree' /\ WillBeServed' /\ DueAreMembers' /\ LogServes'
    BY <2>1, ClientServes
  <2>2. ASSUME NEW h \in Handles, DaemonLive(h)
        PROVE  WillAgree' /\ WillBeServed' /\ DueAreMembers' /\ LogServes'
    <3>1. /\ UNCHANGED <<msg_list, toDaemon, pmsg_list, recv_mlist, log, due>>
          /\ member[h] = "suspended"
          /\ \A g \in Handles : member'[g] = IF g = h THEN "active" ELSE member[g]
      BY <1>1, <2>2 DEF DaemonLive, Heard, TypeOK, clientVars
    <3>2. \A id \in MsgIds : \A g \in due[id] : g \in Handles /\ g # h
      BY <1>1, <3>1 DEF EarlyInv, DueAreMembers, TypeOK
    <3>3. QED BY <3>1, <3>2, QuietServes
  <2>3. ASSUME NEW h \in Handles, Suspend(h)
        PROVE  WillAgree' /\ WillBeServed' /\ DueAreMembers' /\ LogServes'
    <3>1. /\ UNCHANGED <<msg_list, toDaemon, pmsg_list, recv_mlist, log>>
          /\ member[h] = "active"
          /\ \A g \in Handles : member'[g] = IF g = h THEN "suspended" ELSE member[g]
          /\ due' = [id \in MsgIds |-> due[id] \ {h}]
      BY <1>1, <2>3 DEF Suspend, Withdrawn, TypeOK, clientVars
    <3>2. \A id \in MsgIds : \A g \in due'[id] : g \in due[id] /\ g \in Handles /\ g # h
      BY <1>1, <3>1 DEF TypeOK
    <3>3. QED BY <3>1, <3>2, QuietServes
  <2>4. CASE DaemonStep
    BY <2>4, DaemonServes
  <2>5. CASE MsgProbe
    BY <2>5, MsgProbeServes
  <2>6. CASE UNCHANGED vars
    BY <2>6, QuietServes DEF vars, clientVars, daemonVars
  <2>7. QED BY <2>1, <2>2, <2>3, <2>4, <2>5, <2>6 DEF Next
<1>3. QED BY <1>1, <1>2 DEF EarlyInv

LEMMA EarlyAlways == ASSUME ~MayLose PROVE Spec => []EarlyInv
<1>1. EarlyInv /\ [Next]_vars => EarlyInv'
  BY EarlyKept
<1>2. QED BY <1>1, EarlyInitially, PTL DEF Spec

\* Where no datagram is lost, who registered before a message was sent, and has
\* not unregistered, left, died or been suspended since, is among those to whom
\* _ipcd_msg_probe relays it, although messages wait in recv_mlist and
\* registrations do not.
THEOREM EarlyBirdsAlwaysServed == ASSUME ~MayLose PROVE Spec => []EarlyBirdsAreServed
<1>1. EarlyInv => EarlyBirdsAreServed
  <2>1. TypeOK => DOMAIN log = 1..Len(log)
    BY DEF TypeOK
  <2>2. QED BY <2>1 DEF EarlyInv, OrderInv, LogServes, EarlyBirdsAreServed
<1>2. QED BY <1>1, EarlyAlways, PTL

\* Where no datagram is lost, the pmsg_list of a member is the msg_list of its
\* client as soon as the daemon has handled the registrations on their way.
THEOREM ViewsAlwaysAgree == ASSUME ~MayLose PROVE Spec => []ViewsAgree
<1>1. ASSUME EarlyInv, NEW g \in Handles, ~Exited(g), Pending(g) = {}
      PROVE  pmsg_list[g] = msg_list[g]
  <2>1. TypeOK /\ DOMAIN toDaemon = 1..Len(toDaemon)
    BY <1>1 DEF EarlyInv, OrderInv, TypeOK
  <2>2. \A k \in 1..Len(toDaemon) : \A n : /\ ~Registers(toDaemon[k], g, n)
                                           /\ ~Withdraws(toDaemon[k], g, n)
    BY <1>1, <2>1 DEF Pending, Registers, Withdraws
  <2>3. \A n \in Registered : InEffect(g, n, Len(toDaemon)) <=> n \in pmsg_list[g]
    BY <2>2 DEF InEffect
  <2>4. QED BY <1>1, <2>1, <2>3 DEF EarlyInv, WillAgree, TypeOK
<1>2. EarlyInv => ViewsAgree
  BY <1>1 DEF ViewsAgree
<1>3. QED BY <1>2, EarlyAlways, PTL

=============================================================================
