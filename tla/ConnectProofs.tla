--------------------------- MODULE ConnectProofs ---------------------------
(***************************************************************************)
(* That the daemon lists each handle that ipc_creat returned, for any      *)
(* number of processes, names, losses and restarts.                        *)
(***************************************************************************)
EXTENDS Connect, TLAPS

Packet == [iit : {"JOIN", "EXIT"}, pid : Handles]

Listed(h) == mlist[NameOf[h]] # NoEntry /\ mlist[NameOf[h]].pid = h

\* h has been told, or is about to be, that the daemon has listed it.
Told(h) == \/ pc[h] = "connected"
           \/ connect_sem[h] > 0
           \/ \E k \in 1..Len(toClient[h]) : toClient[h][k] = "JOIN_ACK"

Gone == {h \in Handles : pc[h] \in {"exited", "dead"}}

\* Whose EXIT is under way.
Exiting == {toDaemon[k].pid : k \in {j \in 1..Len(toDaemon) : toDaemon[j].iit = "EXIT"}}

\* An answer that is under way says the same as one that has arrived.
ToldIsListed == \A h \in Handles : Told(h) /\ h \notin Gone => Listed(h) \/ h \in evicted \cup misled

ExitOfGone == Exiting \subseteq Gone

ConnectInv == TypeOK /\ ToldIsListed /\ ExitOfGone

-----------------------------------------------------------------------------
\* What was appended to or taken from a queue.
LEMMA AppendedTo ==
    ASSUME NEW S, NEW q \in Seq(S), NEW e \in S
    PROVE  /\ Append(q, e) \in Seq(S)
           /\ \A k \in 1..Len(Append(q, e)) :
                 \/ Append(q, e)[k] = e
                 \/ k \in 1..Len(q) /\ Append(q, e)[k] = q[k]
OBVIOUS

LEMMA TakenFrom ==
    ASSUME NEW S, NEW q \in Seq(S), q # <<>>
    PROVE  /\ Head(q) \in S /\ Head(q) = q[1] /\ 1 \in 1..Len(q)
           /\ Tail(q) \in Seq(S)
           /\ \A k \in 1..Len(Tail(q)) : k + 1 \in 1..Len(q) /\ Tail(q)[k] = q[k + 1]
OBVIOUS

-----------------------------------------------------------------------------
\* ToDaemon keeps the types, and adds no more than the packet of h.
LEMMA SendKeeps ==
    ASSUME TypeOK, NEW h \in Handles, NEW iit \in {"JOIN", "EXIT"}, ToDaemon(iit, h)
    PROVE  /\ toDaemon' \in Seq(Packet)
           /\ faults' \in 0..MaxFaults
           /\ Exiting' \subseteq Exiting \cup (IF iit = "EXIT" THEN {h} ELSE {})
<1> DEFINE p == [iit |-> iit, pid |-> h]
<1>1. toDaemon \in Seq(Packet) /\ faults \in 0..MaxFaults /\ p \in Packet
  BY DEF TypeOK, Packet
<1>2. CASE toDaemon' = Append(toDaemon, p) /\ faults' = faults
  <2>1. Append(toDaemon, p) \in Seq(Packet)
    BY <1>1, AppendedTo
  <2>2. \A k \in 1..Len(toDaemon') :
            \/ toDaemon'[k] = p
            \/ k \in 1..Len(toDaemon) /\ toDaemon'[k] = toDaemon[k]
    BY <1>1, <1>2, AppendedTo
  <2>3. p.iit = iit /\ p.pid = h
    OBVIOUS
  <2> HIDE DEF p
  <2>4. Exiting' \subseteq Exiting \cup (IF iit = "EXIT" THEN {h} ELSE {})
    BY <2>2, <2>3 DEF Exiting
  <2>5. QED BY <1>1, <1>2, <2>1, <2>4
<1>3. CASE faults < MaxFaults /\ faults' = faults + 1 /\ toDaemon' = toDaemon
  <2>1. faults' \in 0..MaxFaults
    BY <1>1, <1>3, BoundsAssumption
  <2>2. QED BY <1>1, <1>3, <2>1 DEF Exiting
<1>4. QED BY <1>2, <1>3 DEF ToDaemon

\* The thread ipcd_msg_recv takes a packet of a client.
LEMMA ReceiveKeeps ==
    ASSUME TypeOK, NEW iit, Receives(iit)
    PROVE  /\ Head(toDaemon) \in Packet
           /\ toDaemon' \in Seq(Packet)
           /\ Exiting' \subseteq Exiting
           /\ iit = "EXIT" => Head(toDaemon).pid \in Exiting
<1>1. toDaemon \in Seq(Packet)
  BY DEF TypeOK, Packet
<1>2. /\ Head(toDaemon) \in Packet /\ Head(toDaemon) = toDaemon[1] /\ 1 \in 1..Len(toDaemon)
      /\ toDaemon' \in Seq(Packet)
      /\ \A k \in 1..Len(toDaemon') :
            k + 1 \in 1..Len(toDaemon) /\ toDaemon'[k] = toDaemon[k + 1]
  BY <1>1, TakenFrom DEF Receives
<1>3. Exiting' \subseteq Exiting
  BY <1>2 DEF Exiting
<1>4. iit = "EXIT" => Head(toDaemon).pid \in Exiting
  BY <1>2 DEF Exiting, Receives
<1>5. QED BY <1>2, <1>3, <1>4

\* Nobody is told anything new, but those that hear a JOIN_ACK.
ToldOnly(iit, told) ==
    \A g \in Handles : Told(g)' => Told(g) \/ (iit = "JOIN_ACK" /\ g \in misled' \cup told)

\* The daemon answers h: nobody else is told anything, and h only by JOIN_ACK.
LEMMA AnswerKeeps ==
    ASSUME TypeOK, NEW h \in Handles, NEW iit \in {"JOIN_ACK", "JOIN_ACK_FAIL"},
           NEW told \in SUBSET Handles, Answer(h, iit, told), UNCHANGED <<pc, connect_sem>>
    PROVE  /\ misled' \subseteq Handles /\ misled \ told \subseteq misled'
           /\ toClient' \in [Handles -> Seq({"JOIN_ACK", "JOIN_ACK_FAIL"})]
           /\ faults' \in 0..MaxFaults
           /\ ToldOnly(iit, told)
<1> DEFINE Iits == {"JOIN_ACK", "JOIN_ACK_FAIL"}
           heard == {g \in Handles : Alive(g) /\ port[g] = port[h]}
<1>1. toClient \in [Handles -> Seq(Iits)] /\ faults \in 0..MaxFaults /\ misled \subseteq Handles
  BY DEF TypeOK
<1>2. CASE /\ toClient' = [g \in Handles |-> IF g \in heard THEN Append(toClient[g], iit)
                                                           ELSE toClient[g]]
           /\ misled' = (misled \cup IF iit = "JOIN_ACK" THEN heard ELSE {}) \ told
           /\ faults' = faults
  <2>1. ASSUME NEW g \in Handles
        PROVE  /\ Append(toClient[g], iit) \in Seq(Iits)
               /\ \A k \in 1..Len(Append(toClient[g], iit)) :
                     \/ Append(toClient[g], iit)[k] = iit
                     \/ k \in 1..Len(toClient[g]) /\ Append(toClient[g], iit)[k] = toClient[g][k]
    BY <1>1, AppendedTo
  <2>2. \A g \in Handles : toClient'[g] = IF g \in heard THEN Append(toClient[g], iit)
                                                         ELSE toClient[g]
    BY <1>2
  <2>3. toClient' \in [Handles -> Seq(Iits)]
    BY <1>1, <1>2, <2>1
  <2>4. ASSUME NEW g \in Handles, Told(g)'
        PROVE  Told(g) \/ (g \in heard /\ iit = "JOIN_ACK")
    BY <2>1, <2>2, <2>4 DEF Told
  <2>5. heard \subseteq Handles
    OBVIOUS
  <2> HIDE DEF heard
  <2>6. /\ misled' \subseteq Handles /\ misled \ told \subseteq misled'
        /\ faults' \in 0..MaxFaults
        /\ iit = "JOIN_ACK" => heard \subseteq misled' \cup told
    BY <1>1, <1>2, <2>5
  <2>7. ASSUME NEW g \in Handles, Told(g)'
        PROVE  Told(g) \/ (iit = "JOIN_ACK" /\ g \in misled' \cup told)
    BY <2>4, <2>6, <2>7
  <2>8. ToldOnly(iit, told)
    BY <2>7 DEF ToldOnly
  <2>9. QED BY <2>3, <2>6, <2>8
<1>4. CASE /\ faults < MaxFaults /\ faults' = faults + 1 /\ toClient' = toClient
           /\ misled' = misled \ told
  <2>1. faults' \in 0..MaxFaults
    BY <1>1, <1>4, BoundsAssumption
  <2>2. misled' \subseteq Handles /\ misled \ told \subseteq misled'
    BY <1>1, <1>4
  <2>3. ToldOnly(iit, told)
    BY <1>4 DEF ToldOnly, Told
  <2>4. toClient' = toClient
    BY <1>4
  <2>5. QED BY <1>1, <2>1, <2>2, <2>3, <2>4
<1>5. QED BY <1>2, <1>4 DEF Answer

-----------------------------------------------------------------------------
LEMMA InvInitially == Init => ConnectInv
<1> SUFFICES ASSUME Init PROVE ConnectInv
  OBVIOUS
<1>1. TypeOK
  BY BoundsAssumption DEF Init, TypeOK
<1>2. ToldIsListed
  BY DEF Init, ToldIsListed, Told
<1>3. ExitOfGone
  BY DEF Init, ExitOfGone, Exiting
<1>4. QED BY <1>1, <1>2, <1>3 DEF ConnectInv

\* A step of a client keeps the invariant if it tells nobody anything new and
\* brings nobody back: the lists of the daemon stay.
LEMMA ClientStepKeeps ==
    ASSUME ConnectInv, TypeOK', UNCHANGED <<mlist, evicted>>, misled \subseteq misled',
           \A g \in Handles : Told(g)' /\ g \notin Gone' => Told(g),
           Gone \subseteq Gone', Exiting' \subseteq Gone'
    PROVE  ConnectInv'
<1>1. ToldIsListed'
  BY DEF ConnectInv, ToldIsListed, Listed
<1>2. QED BY <1>1 DEF ConnectInv, ExitOfGone

\* What ipc_creat spent is forgotten.
LEMMA ForgetKeeps ==
    ASSUME TypeOK, NEW h \in Handles, Forget(h)
    PROVE  sockets' \in [Handles -> Nat] /\ waited' \in [Handles -> 0..TicksPerRetry]
BY BoundsAssumption DEF TypeOK, Forget

LEMMA CreateKeeps == ASSUME ConnectInv, NEW h \in Handles, Create(h) PROVE ConnectInv'
<1> USE DEF Create
<1>1. TypeOK'
  <2>1. \E p \in Ports : port' = [port EXCEPT ![h] = p]
    BY DEF FreePorts
  <2>2. port' \in [Handles -> Ports \cup {NoPort}]
    BY <2>1 DEF ConnectInv, TypeOK
  <2>3. QED BY <2>2 DEF ConnectInv, TypeOK
<1>2. \A g \in Handles : pc'[g] = IF g = h THEN "connect" ELSE pc[g]
  BY DEF ConnectInv, TypeOK
<1>3. \A g \in Handles : Told(g)' => Told(g)
  BY <1>2 DEF Told
<1>4. Gone \subseteq Gone'
  BY <1>2 DEF Gone
<1>5. Exiting' \subseteq Gone'
  BY <1>4 DEF ConnectInv, ExitOfGone, Exiting
<1>6. QED BY <1>1, <1>3, <1>4, <1>5, ClientStepKeeps

LEMMA SendJoinKeeps == ASSUME ConnectInv, NEW h \in Handles, SendJoin(h) PROVE ConnectInv'
<1> USE DEF SendJoin
<1>1. toDaemon' \in Seq(Packet) /\ faults' \in 0..MaxFaults /\ Exiting' \subseteq Exiting
  <2>1. CASE ToDaemon("JOIN", h)
    BY <2>1, SendKeeps DEF ConnectInv
  <2>2. CASE UNCHANGED <<sockets, toDaemon, faults>>
    BY <2>2 DEF ConnectInv, TypeOK, Packet, Exiting
  <2>3. QED BY <2>1, <2>2
<1>2. TypeOK'
  <2>1. sockets' \in [Handles -> Nat]
    <3>1. sockets \in [Handles -> Nat]
      BY DEF ConnectInv, TypeOK
    <3>2. sockets' = [sockets EXCEPT ![h] = @ + 1] \/ sockets' = sockets
      OBVIOUS
    <3>3. QED BY <3>1, <3>2
  <2>2. waited' \in [Handles -> 0..TicksPerRetry]
    BY BoundsAssumption DEF ConnectInv, TypeOK
  <2>3. pc' \in [Handles -> {"idle", "connect", "wait", "connected", "exited", "dead"}]
    BY DEF ConnectInv, TypeOK
  <2>4. QED BY <1>1, <2>1, <2>2, <2>3 DEF ConnectInv, TypeOK, Packet
<1>3. \A g \in Handles : pc'[g] = IF g = h THEN "wait" ELSE pc[g]
  BY DEF ConnectInv, TypeOK
<1>4. \A g \in Handles : Told(g)' => Told(g)
  BY <1>3 DEF Told
<1>5. Gone \subseteq Gone'
  BY <1>3 DEF Gone
<1>6. Exiting' \subseteq Gone'
  BY <1>1, <1>5 DEF ConnectInv, ExitOfGone
<1>7. QED BY <1>2, <1>4, <1>5, <1>6, ClientStepKeeps

LEMMA TimeoutKeeps == ASSUME ConnectInv, NEW h \in Handles, Timeout(h) PROVE ConnectInv'
<1> USE DEF Timeout
<1>1. TypeOK'
  BY DEF ConnectInv, TypeOK, tryVars, Forget
<1>2. \A g \in Handles : pc'[g] = IF g = h THEN "connect" ELSE pc[g]
  BY DEF ConnectInv, TypeOK
<1>3. \A g \in Handles : Told(g)' => Told(g)
  BY <1>2 DEF Told
<1>4. Gone \subseteq Gone'
  BY <1>2 DEF Gone
<1>5. Exiting' \subseteq Gone'
  BY <1>4 DEF ConnectInv, ExitOfGone, Exiting
<1>6. QED BY <1>1, <1>3, <1>4, <1>5, ClientStepKeeps

\* sem_timedwait took what a JOIN_ACK had posted: h was told before.
LEMMA ConnectedKeeps == ASSUME ConnectInv, NEW h \in Handles, Connected(h) PROVE ConnectInv'
<1> USE DEF Connected
<1>1. TypeOK'
  <2>1. sockets' \in [Handles -> Nat] /\ waited' \in [Handles -> 0..TicksPerRetry]
    BY ForgetKeeps DEF ConnectInv
  <2>2. pc' \in [Handles -> {"idle", "connect", "wait", "connected", "exited", "dead"}]
    BY DEF ConnectInv, TypeOK
  <2>3. connect_sem' \in [Handles -> Nat]
    BY DEF ConnectInv, TypeOK
  <2>4. QED BY <2>1, <2>2, <2>3 DEF ConnectInv, TypeOK
<1>2. \A g \in Handles : /\ pc'[g] = IF g = h THEN "connected" ELSE pc[g]
                         /\ g # h => connect_sem'[g] = connect_sem[g]
  BY DEF ConnectInv, TypeOK
<1>3. \A g \in Handles : Told(g)' => Told(g)
  BY <1>2 DEF Told
<1>4. Gone \subseteq Gone'
  BY <1>2 DEF Gone
<1>5. Exiting' \subseteq Gone'
  BY <1>4 DEF ConnectInv, ExitOfGone, Exiting
<1>6. QED BY <1>1, <1>3, <1>4, <1>5, ClientStepKeeps

\* The semaphore is posted for a JOIN_ACK only, which was in the socket.
LEMMA RecvAnswerKeeps == ASSUME ConnectInv, NEW h \in Handles, RecvAnswer(h) PROVE ConnectInv'
<1> USE DEF RecvAnswer
<1> DEFINE Iits == {"JOIN_ACK", "JOIN_ACK_FAIL"}
<1>1. /\ Head(toClient[h]) = toClient[h][1] /\ 1 \in 1..Len(toClient[h])
      /\ Tail(toClient[h]) \in Seq(Iits)
      /\ \A k \in 1..Len(Tail(toClient[h])) :
            k + 1 \in 1..Len(toClient[h]) /\ Tail(toClient[h])[k] = toClient[h][k + 1]
  <2>1. toClient[h] \in Seq(Iits) /\ toClient[h] # <<>>
    BY DEF ConnectInv, TypeOK
  <2>2. QED BY <2>1, TakenFrom
<1>2. TypeOK'
  <2>1. connect_sem' \in [Handles -> Nat]
    BY DEF ConnectInv, TypeOK
  <2>2. toClient' \in [Handles -> Seq(Iits)]
    BY <1>1 DEF ConnectInv, TypeOK
  <2>3. QED BY <2>1, <2>2 DEF ConnectInv, TypeOK, tryVars
<1>3. \A g \in Handles : toClient'[g] = IF g = h THEN Tail(toClient[h]) ELSE toClient[g]
  BY DEF ConnectInv, TypeOK
<1>4. \A g \in Handles : connect_sem'[g] = connect_sem[g]
                            \/ (g = h /\ Head(toClient[h]) = "JOIN_ACK")
  BY DEF ConnectInv, TypeOK
<1>5. ASSUME NEW g \in Handles, Told(g)'
      PROVE  Told(g)
  BY <1>1, <1>3, <1>4, <1>5 DEF Told
<1>6. Gone' = Gone /\ Exiting' = Exiting
  BY DEF Gone, Exiting
<1>7. QED BY <1>2, <1>5, <1>6, ClientStepKeeps DEF ConnectInv, ExitOfGone

LEMMA CallExitKeeps == ASSUME ConnectInv, NEW h \in Handles, CallExit(h) PROVE ConnectInv'
<1> USE DEF CallExit
<1>1. /\ toDaemon' \in Seq(Packet) /\ faults' \in 0..MaxFaults
      /\ Exiting' \subseteq Exiting \cup {h}
  BY SendKeeps DEF ConnectInv
<1>2. TypeOK'
  BY <1>1 DEF ConnectInv, TypeOK, tryVars, Packet
<1>3. \A g \in Handles : pc'[g] = IF g = h THEN "exited" ELSE pc[g]
  BY DEF ConnectInv, TypeOK
<1>4. \A g \in Handles : Told(g)' => Told(g)
  BY <1>3 DEF Told
<1>5. Gone \cup {h} \subseteq Gone'
  BY <1>3 DEF Gone
<1>6. Exiting' \subseteq Gone'
  BY <1>1, <1>5 DEF ConnectInv, ExitOfGone
<1>7. QED BY <1>2, <1>4, <1>5, <1>6, ClientStepKeeps

LEMMA CrashKeeps == ASSUME ConnectInv, NEW h \in Handles, Crash(h) PROVE ConnectInv'
<1> USE DEF Crash
<1>1. TypeOK'
  <2>1. sockets' \in [Handles -> Nat] /\ waited' \in [Handles -> 0..TicksPerRetry]
    BY ForgetKeeps DEF ConnectInv
  <2>2. pc' \in [Handles -> {"idle", "connect", "wait", "connected", "exited", "dead"}]
    BY DEF ConnectInv, TypeOK
  <2>3. connect_sem' \in [Handles -> Nat]
    BY DEF ConnectInv, TypeOK
  <2>4. toClient' \in [Handles -> Seq({"JOIN_ACK", "JOIN_ACK_FAIL"})]
    BY DEF ConnectInv, TypeOK
  <2>5. QED BY <2>1, <2>2, <2>3, <2>4 DEF ConnectInv, TypeOK
<1>2. \A g \in Handles : /\ pc'[g] = IF g = h THEN "dead" ELSE pc[g]
                         /\ g # h => toClient'[g] = toClient[g]
  BY DEF ConnectInv, TypeOK
<1>3. Gone \cup {h} \subseteq Gone'
  BY <1>2 DEF Gone
<1>4. \A g \in Handles : Told(g)' /\ g \notin Gone' => Told(g)
  BY <1>2, <1>3 DEF Told
<1>5. Exiting' \subseteq Gone'
  BY <1>3 DEF ConnectInv, ExitOfGone, Exiting
<1>6. QED BY <1>1, <1>3, <1>4, <1>5, ClientStepKeeps

-----------------------------------------------------------------------------
\* The name of h is given to h: whoever had it is evicted.
LEMMA DaemonJoinKeeps == ASSUME ConnectInv, DaemonJoin PROVE ConnectInv'
<1> DEFINE h == Head(toDaemon).pid
           n == NameOf[h]
           new == [pid |-> h, live_cnt |-> 0, suspend |-> FALSE]
<1>1. /\ h \in Handles /\ n \in Names /\ new \in Entry
      /\ toDaemon' \in Seq(Packet) /\ Exiting' \subseteq Exiting
  <2>1. Head(toDaemon) \in Packet /\ toDaemon' \in Seq(Packet) /\ Exiting' \subseteq Exiting
    BY ReceiveKeeps DEF ConnectInv, DaemonJoin
  <2>2. QED BY <2>1, NameOfAssumption, BoundsAssumption DEF Packet, Entry, LiveCap
<1>2. Gone' = Gone
  BY DEF DaemonJoin, Gone
<1>3. ExitOfGone'
  BY <1>1, <1>2 DEF ConnectInv, ExitOfGone
<1> HIDE DEF h, n, new
<1>4. CASE Refused(n)
  <2>1. Answer(h, "JOIN_ACK_FAIL", {}) /\ UNCHANGED <<pc, tryVars, connect_sem, mlist, evicted>>
    BY <1>4 DEF DaemonJoin, h, n
  <2>2. /\ toClient' \in [Handles -> Seq({"JOIN_ACK", "JOIN_ACK_FAIL"})]
        /\ faults' \in 0..MaxFaults
        /\ misled' \subseteq Handles /\ misled \subseteq misled'
        /\ ToldOnly("JOIN_ACK_FAIL", {})
    BY <1>1, <2>1, AnswerKeeps DEF ConnectInv
  <2>5. \A g \in Handles : Told(g)' => Told(g)
    BY <2>2 DEF ToldOnly
  <2>3. TypeOK'
    BY <1>1, <2>1, <2>2 DEF ConnectInv, TypeOK, tryVars, Packet
  <2>4. QED BY <1>1, <1>2, <2>1, <2>2, <2>3, <2>5, ClientStepKeeps DEF ConnectInv, ExitOfGone
<1>5. CASE ~Refused(n)
  <2>1. /\ Answer(h, "JOIN_ACK", {h}) /\ UNCHANGED <<pc, tryVars, connect_sem>>
        /\ mlist' = [mlist EXCEPT ![n] = new]
        /\ evicted' = (evicted \cup IF mlist[n] = NoEntry THEN {} ELSE {mlist[n].pid}) \ {h}
    BY <1>5 DEF DaemonJoin, h, n, new
  <2>2. /\ toClient' \in [Handles -> Seq({"JOIN_ACK", "JOIN_ACK_FAIL"})]
        /\ faults' \in 0..MaxFaults
        /\ misled' \subseteq Handles /\ misled \ {h} \subseteq misled'
        /\ ToldOnly("JOIN_ACK", {h})
    BY <1>1, <2>1, AnswerKeeps DEF ConnectInv
  <2>3. mlist \in [Names -> Entry \cup {NoEntry}] /\ evicted \subseteq Handles
    BY DEF ConnectInv, TypeOK
  <2>4. mlist' \in [Names -> Entry \cup {NoEntry}]
    BY <1>1, <2>1, <2>3
  <2>5. evicted' \subseteq Handles
    <3>1. mlist[n] # NoEntry => mlist[n].pid \in Handles
      BY <1>1, <2>3 DEF Entry
    <3>2. QED BY <2>1, <2>3, <3>1
  <2>6. TypeOK'
    BY <1>1, <2>1, <2>2, <2>4, <2>5 DEF ConnectInv, TypeOK, tryVars, Packet
  <2>7. ToldIsListed'
    <3> SUFFICES ASSUME NEW g \in Handles, Told(g)', g \notin Gone'
                 PROVE  Listed(g)' \/ g \in evicted' \cup misled'
      BY DEF ToldIsListed
    <3>1. CASE g = h
      <4>1. mlist'[NameOf[h]] = new
        BY <1>1, <2>1, <2>3 DEF n
      <4>2. new # NoEntry /\ new.pid = h
        BY <1>1, NoEntryAssumption DEF new
      <4>3. QED BY <3>1, <4>1, <4>2 DEF Listed
    <3>2. CASE g # h
      <4>1. Listed(g) \/ g \in evicted \/ g \in misled'
        BY <1>2, <2>2, <3>2 DEF ConnectInv, ToldIsListed, ToldOnly
      <4>2. CASE g \in evicted
        BY <2>1, <3>2, <4>2
      <4>3. CASE Listed(g) /\ NameOf[g] = n
        BY <2>1, <3>2, <4>3 DEF Listed
      <4>4. CASE Listed(g) /\ NameOf[g] # n
        BY <2>1, <2>3, <4>4, NameOfAssumption DEF Listed
      <4>5. QED BY <4>1, <4>2, <4>3, <4>4
    <3>3. QED BY <3>1, <3>2
  <2>8. QED BY <1>3, <2>6, <2>7 DEF ConnectInv
<1>6. QED BY <1>4, <1>5

\* Only the entries of a handle that has gone are removed.
LEMMA DaemonExitKeeps == ASSUME ConnectInv, DaemonExit PROVE ConnectInv'
<1> DEFINE h == Head(toDaemon).pid
<1>1. /\ toDaemon' \in Seq(Packet) /\ Exiting' \subseteq Exiting /\ h \in Exiting
  BY ReceiveKeeps DEF ConnectInv, DaemonExit
<1>2. /\ mlist' = [n \in Names |-> IF mlist[n] # NoEntry /\ mlist[n].pid = h
                                     THEN NoEntry ELSE mlist[n]]
      /\ UNCHANGED <<pc, tryVars, connect_sem, toClient, faults, evicted, misled>>
  BY DEF DaemonExit
<1> HIDE DEF h
<1>3. Gone' = Gone /\ h \in Gone /\ \A g \in Handles : Told(g)' = Told(g)
  BY <1>1, <1>2 DEF ConnectInv, ExitOfGone, Gone, Told
<1>4. TypeOK'
  BY <1>1, <1>2 DEF ConnectInv, TypeOK, tryVars, Packet
<1>5. ToldIsListed'
  <2> SUFFICES ASSUME NEW g \in Handles, Told(g)', g \notin Gone'
               PROVE  Listed(g)' \/ g \in evicted' \cup misled'
    BY DEF ToldIsListed
  <2>1. g # h /\ (Listed(g) \/ g \in evicted \cup misled)
    BY <1>3 DEF ConnectInv, ToldIsListed
  <2>2. NameOf[g] \in Names
    BY NameOfAssumption
  <2>3. QED BY <1>2, <2>1, <2>2 DEF Listed
<1>6. QED BY <1>1, <1>3, <1>4, <1>5 DEF ConnectInv, ExitOfGone

\* A step of the daemon that changes who is listed under no name.
LEMMA DaemonStepKeeps ==
    ASSUME ConnectInv, TypeOK', UNCHANGED <<pc, connect_sem, toClient, toDaemon, evicted, misled>>,
           \A n \in Names : mlist[n] # NoEntry
                                => mlist'[n] # NoEntry /\ mlist'[n].pid = mlist[n].pid
    PROVE  ConnectInv'
<1>1. Gone' = Gone /\ Exiting' = Exiting /\ \A g \in Handles : Told(g)' = Told(g)
  BY DEF Gone, Exiting, Told
<1>2. \A g \in Handles : Listed(g) => Listed(g)'
  BY NameOfAssumption DEF Listed
<1>3. QED BY <1>1, <1>2 DEF ConnectInv, ToldIsListed, ExitOfGone

LEMMA DaemonLiveKeeps == ASSUME ConnectInv, NEW h \in Handles, DaemonLive(h) PROVE ConnectInv'
<1> DEFINE n == NameOf[h]
           revived == [mlist[n] EXCEPT !.live_cnt = 0, !.suspend = FALSE]
<1>1. n \in Names /\ mlist \in [Names -> Entry \cup {NoEntry}] /\ mlist[n] # NoEntry
  BY NameOfAssumption DEF ConnectInv, TypeOK, DaemonLive
<1>2. mlist' = [mlist EXCEPT ![n] = revived]
  BY <1>1 DEF DaemonLive
<1>3. mlist[n] \in Entry
  BY <1>1
<1>4. revived \in Entry /\ revived.pid = mlist[n].pid
  <2>1. 0 \in 0..LiveCap
    BY BoundsAssumption DEF LiveCap
  <2>2. revived \in Entry
    BY <1>3, <2>1, Zenon DEF Entry
  <2>3. revived.pid = mlist[n].pid
    BY <1>3 DEF Entry
  <2>4. QED BY <2>2, <2>3
<1> HIDE DEF n, revived
<1>5. mlist' \in [Names -> Entry \cup {NoEntry}]
  BY <1>1, <1>2, <1>4
<1>6. TypeOK'
  BY <1>5 DEF ConnectInv, TypeOK, DaemonLive, tryVars
<1>7. ASSUME NEW k \in Names, mlist[k] # NoEntry
      PROVE  mlist'[k] # NoEntry /\ mlist'[k].pid = mlist[k].pid
  BY <1>1, <1>2, <1>4, <1>7, NoEntryAssumption
<1>8. QED BY <1>6, <1>7, DaemonStepKeeps DEF DaemonLive

LEMMA LiveTickKeeps == ASSUME ConnectInv, LiveTick PROVE ConnectInv'
<1>1. mlist \in [Names -> Entry \cup {NoEntry}]
  BY DEF ConnectInv, TypeOK
<1>2. ASSUME NEW m \in Entry
      PROVE  Aged(m) \in Entry /\ Aged(m).pid = m.pid
  <2>1. (IF m.live_cnt < LiveCap THEN m.live_cnt + 1 ELSE m.live_cnt) \in 0..LiveCap
    BY BoundsAssumption DEF LiveCap, Entry
  <2>2. (m.suspend \/ m.live_cnt > LiveTimeoutNum) \in BOOLEAN
    OBVIOUS
  <2>3. Aged(m) \in Entry
    BY <2>1, <2>2, Zenon DEF Aged, Entry
  <2>4. Aged(m).pid = m.pid
    BY DEF Aged, Entry
  <2>5. QED BY <2>3, <2>4
<1>3. ASSUME NEW n \in Names
      PROVE  /\ mlist'[n] \in Entry \cup {NoEntry}
             /\ mlist[n] # NoEntry => mlist'[n] # NoEntry /\ mlist'[n].pid = mlist[n].pid
  <2>1. mlist'[n] = IF mlist[n] = NoEntry THEN NoEntry ELSE Aged(mlist[n])
    BY DEF LiveTick
  <2>2. QED BY <1>1, <1>2, <2>1, NoEntryAssumption
<1>4. mlist' \in [Names -> Entry \cup {NoEntry}]
  BY <1>3 DEF LiveTick
<1>5. TypeOK'
  <2>1. waited' \in [Handles -> 0..TicksPerRetry]
    BY BoundsAssumption DEF ConnectInv, TypeOK, LiveTick
  <2>2. QED BY <1>4, <2>1 DEF ConnectInv, TypeOK, LiveTick
<1>6. QED BY <1>3, <1>5, DaemonStepKeeps DEF LiveTick

\* Who was listed went with the daemon that died, and so did what was under way
\* to it.
LEMMA RestartKeeps == ASSUME ConnectInv, Restart PROVE ConnectInv'
<1> USE DEF Restart
<1>1. mlist \in [Names -> Entry \cup {NoEntry}]
  BY DEF ConnectInv, TypeOK
<1>2. evicted' \subseteq Handles
  <2>1. \A n \in Names : mlist[n] # NoEntry => mlist[n].pid \in Handles
    BY <1>1 DEF Entry
  <2>2. QED BY <2>1 DEF ConnectInv, TypeOK
<1>3. faults' \in 0..MaxFaults
  BY BoundsAssumption DEF ConnectInv, TypeOK
<1>4. TypeOK'
  BY <1>2, <1>3 DEF ConnectInv, TypeOK, tryVars
<1>5. \A g \in Handles : Listed(g) \/ g \in evicted \cup misled => g \in evicted' \cup misled'
  BY NameOfAssumption DEF Listed
<1>6. Gone' = Gone /\ Exiting' = {} /\ \A g \in Handles : Told(g)' = Told(g)
  BY DEF Gone, Exiting, Told
<1>7. QED BY <1>4, <1>5, <1>6 DEF ConnectInv, ToldIsListed, ExitOfGone

LEMMA InvKept == ConnectInv /\ [Next]_vars => ConnectInv'
<1> SUFFICES ASSUME ConnectInv, [Next]_vars PROVE ConnectInv'
  OBVIOUS
<1>1. ASSUME NEW h \in Handles,
             \/ Create(h) \/ SendJoin(h) \/ Timeout(h) \/ Connected(h)
             \/ RecvAnswer(h) \/ CallExit(h) \/ Crash(h) \/ DaemonLive(h)
      PROVE  ConnectInv'
  BY <1>1, CreateKeeps, SendJoinKeeps, TimeoutKeeps, ConnectedKeeps, RecvAnswerKeeps,
     CallExitKeeps, CrashKeeps, DaemonLiveKeeps
<1>2. CASE DaemonJoin \/ DaemonExit \/ LiveTick \/ Restart
  BY <1>2, DaemonJoinKeeps, DaemonExitKeeps, LiveTickKeeps, RestartKeeps
<1>3. CASE UNCHANGED vars
  BY <1>3 DEF vars, tryVars, ConnectInv, TypeOK, ToldIsListed, ExitOfGone, Exiting, Gone, Told, Listed
<1>4. QED BY <1>1, <1>2, <1>3 DEF Next

LEMMA InvAlways == Spec => []ConnectInv
BY InvInitially, InvKept, PTL DEF Spec

-----------------------------------------------------------------------------
\* Semaphores, sockets and the member list keep their types.
THEOREM TypeCorrect == Spec => []TypeOK
<1>1. ConnectInv => TypeOK
  BY DEF ConnectInv
<1>2. QED BY <1>1, InvAlways, PTL

\* A handle that ipc_creat returned is listed by the daemon, or somebody took its
\* name while it was suspended, or the daemon that listed it died, or it had read
\* the answer to a process that was gone: for any number of processes, and whatever
\* was lost, late or sent twice.
THEOREM WhoReturnedIsListed == Spec => []ReturnedIsListed
<1>1. ConnectInv => ReturnedIsListed
  BY DEF ConnectInv, ToldIsListed, ReturnedIsListed, Told, Gone, Listed
<1>2. QED BY <1>1, InvAlways, PTL

=============================================================================
