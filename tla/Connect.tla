------------------------------ MODULE Connect ------------------------------
(***************************************************************************)
(* How ipc_creat connects a handle to the daemon: it sends JOIN, waits two *)
(* seconds for JOIN_ACK and starts over, for ever. The daemon refuses a    *)
(* name that an active member holds; the client ignores the refusal. So a  *)
(* name whose owner died, or whose JOIN_ACK or EXIT was lost, comes free   *)
(* again only when ipc_live_thread suspends the entry.                     *)
(*                                                                         *)
(* Registry shows that the daemon never lists a name twice: here mlist is  *)
(* a function of the name. A handle stands for its pid. Time is coarse:    *)
(* sem_timedwait times out after TicksPerRetry ticks of the live thread or *)
(* more.                                                                   *)
(*                                                                         *)
(* Each retry opens a socket and leaves the one before open; a process     *)
(* that has no descriptors left retries for ever without a word to the     *)
(* daemon. A process takes any port that no live process has bound, so it  *)
(* may get an answer that was meant for a process that is gone.            *)
(*                                                                         *)
(* The daemon may die and be started again. It then knows nobody; clients  *)
(* that are connected go on without noticing, those in ipc_creat retry.    *)
(***************************************************************************)
EXTENDS Naturals, Sequences, FiniteSets

CONSTANTS
    Handles,          \* the handles that are ever created, one per process
    Names,            \* alias names
    NameOf,           \* the name that each handle asks for
    Ports,            \* UDP ports from IPC_CLI_PORT_BASE on
    NoPort,           \* value of port[h] before ipc_creat
    LiveTimeoutNum,   \* IPC_LIVE_TIMEOUT_NUM
    TicksPerRetry,    \* ticks of the live thread in the two seconds of a try
    MaxSockets,       \* how many sockets each process can open to send
    JoinsNeeded,      \* how many of them always suffice for ipc_creat
    NoEntry,          \* value of mlist[n] when the name is free
    MaxPackets,       \* bound on the datagrams in transit from and to a handle
    MaxFaults         \* bound on lost datagrams and restarts of the daemon

ASSUME NameOfAssumption == NameOf \in [Handles -> Names]
ASSUME PortsAssumption == Ports \subseteq Nat
ASSUME SocketsAssumption == MaxSockets \in [Handles -> Nat]
ASSUME BoundsAssumption == {LiveTimeoutNum, TicksPerRetry, JoinsNeeded, MaxPackets,
                            MaxFaults} \subseteq Nat

LiveCap == LiveTimeoutNum + 2

VARIABLES
    pc,               \* client: where the application is with its handle
    port,             \* client: the port of its message socket, or NoPort
    sockets,          \* client: sockets that ipc_creat has opened to send
    waited,           \* client: ticks since ipc_creat waits
    connect_sem,      \* client: the semaphore that ipc_creat waits for
    toClient,         \* client: answers in the socket of its message port
    toDaemon,         \* packets in the daemon's socket
    mlist,            \* daemon: the member under each name
    faults,           \* datagrams lost and restarts of the daemon so far
    evicted,          \* history: handles whose entry another one replaced, or
                      \*   went with the daemon that died
    misled            \* history: handles that got the JOIN_ACK of another one,
                      \*   and were not listed since

tryVars == <<port, sockets, waited>>
vars == <<pc, tryVars, connect_sem, toClient, toDaemon, mlist, faults,
          evicted, misled>>

Entry == [pid : Handles, live_cnt : 0..LiveCap, suspend : BOOLEAN]

ASSUME NoEntryAssumption == NoEntry \notin Entry

Init == /\ pc = [h \in Handles |-> "idle"]
        /\ port = [h \in Handles |-> NoPort]
        /\ sockets = [h \in Handles |-> 0]
        /\ waited = [h \in Handles |-> 0]
        /\ connect_sem = [h \in Handles |-> 0]
        /\ toClient = [h \in Handles |-> <<>>]
        /\ toDaemon = <<>>
        /\ mlist = [n \in Names |-> NoEntry]
        /\ faults = 0
        /\ evicted = {}
        /\ misled = {}

\* Names with an underscore are mutants: a plausible slip in the definition that
\* follows them, which some property has to notice.

-----------------------------------------------------------------------------
\* The client

InTransit(h) == Cardinality({i \in DOMAIN toDaemon : toDaemon[i].pid = h})
                    + Len(toClient[h])

\* A datagram leaves: it arrives, or is lost. The first conjunct is the bound.
ToDaemon(iit, h) ==
    /\ InTransit(h) < MaxPackets
    /\ \/ /\ toDaemon' = Append(toDaemon, [iit |-> iit, pid |-> h])
          /\ UNCHANGED faults
       \/ /\ faults < MaxFaults
          /\ faults' = faults + 1
          /\ UNCHANGED toDaemon

\* The process has not died. Its threads go on after ipc_exit.
Alive(h) == pc[h] \notin {"idle", "dead"}

FreePorts == {p \in Ports : \A g \in Handles : Alive(g) => port[g] # p}

\* ipc_creat is called, and binds the first port that is free.
Create(h) ==
    /\ pc[h] = "idle"
    /\ \E p \in FreePorts : /\ \A q \in FreePorts : p <= q
                            /\ port' = [port EXCEPT ![h] = p]
    /\ pc' = [pc EXCEPT ![h] = "connect"]
    /\ UNCHANGED <<sockets, waited, connect_sem, toClient, toDaemon, mlist, faults,
                   evicted, misled>>

\* ipc_connect_daemon: without a new socket it sends nothing. ipc_creat waits in
\* either case.
SendJoin(h) ==
    /\ pc[h] = "connect"
    /\ \/ /\ sockets[h] < MaxSockets[h]
          /\ sockets' = [sockets EXCEPT ![h] = @ + 1]
          /\ ToDaemon("JOIN", h)
       \/ /\ sockets[h] = MaxSockets[h]
          /\ UNCHANGED <<sockets, toDaemon, faults>>
    /\ pc' = [pc EXCEPT ![h] = "wait"]
    /\ waited' = [waited EXCEPT ![h] = 0]
    /\ UNCHANGED <<port, connect_sem, toClient, mlist, evicted, misled>>

\* sem_timedwait gives up: retry_connect_daemon.
Timeout(h) ==
    /\ pc[h] = "wait"
    /\ connect_sem[h] = 0
    /\ waited[h] >= TicksPerRetry
    /\ pc' = [pc EXCEPT ![h] = "connect"]
    /\ UNCHANGED <<tryVars, connect_sem, toClient, toDaemon, mlist, faults,
                   evicted, misled>>

\* No longer in ipc_creat: what it spent there is not followed.
Forget(h) == /\ sockets' = [sockets EXCEPT ![h] = 0]
             /\ waited' = [waited EXCEPT ![h] = 0]

\* sem_timedwait succeeds, and ipc_creat returns the handle. It starts the
\* thread that sends LIVE.
Connected(h) ==
    /\ pc[h] = "wait"
    /\ connect_sem[h] > 0
    /\ connect_sem' = [connect_sem EXCEPT ![h] = @ - 1]
    /\ pc' = [pc EXCEPT ![h] = "connected"]
    /\ Forget(h)
    /\ UNCHANGED <<port, toClient, toDaemon, mlist, faults, evicted, misled>>

RecvAnswer_IgnoresKind(h) ==
    /\ Alive(h)
    /\ toClient[h] # <<>>
    /\ connect_sem' = [connect_sem EXCEPT ![h] = @ + 1]
    /\ toClient' = [toClient EXCEPT ![h] = Tail(@)]
    /\ UNCHANGED <<pc, tryVars, toDaemon, mlist, faults, evicted, misled>>

\* ipc_recv_analysis: JOIN_ACK posts the semaphore, JOIN_ACK_FAIL does nothing.
RecvAnswer(h) ==
    /\ Alive(h)
    /\ toClient[h] # <<>>
    /\ connect_sem' = IF Head(toClient[h]) = "JOIN_ACK"
                        THEN [connect_sem EXCEPT ![h] = @ + 1] ELSE connect_sem
    /\ toClient' = [toClient EXCEPT ![h] = Tail(@)]
    /\ UNCHANGED <<pc, tryVars, toDaemon, mlist, faults, evicted, misled>>

\* ipc_exit of a handle that ipc_creat returned.
CallExit(h) ==
    /\ pc[h] = "connected"
    /\ ToDaemon("EXIT", h)
    /\ pc' = [pc EXCEPT ![h] = "exited"]
    /\ UNCHANGED <<tryVars, connect_sem, toClient, mlist, evicted, misled>>

\* The process dies without a word.
Crash(h) ==
    /\ Alive(h)
    /\ pc' = [pc EXCEPT ![h] = "dead"]
    /\ toClient' = [toClient EXCEPT ![h] = <<>>]
    /\ connect_sem' = [connect_sem EXCEPT ![h] = 0]
    /\ Forget(h)
    /\ UNCHANGED <<port, toDaemon, mlist, faults, evicted, misled>>

-----------------------------------------------------------------------------
\* The daemon

\* The daemon's thread ipcd_msg_recv takes the next packet, of the given kind.
Receives(iit) == toDaemon # <<>> /\ Head(toDaemon).iit = iit /\ toDaemon' = Tail(toDaemon)

\* The answer to h arrives at the port that h had, or is lost. Told stands for
\* the handles that misled has to forget.
Answer(h, iit, told) ==
    \/ LET heard == {g \in Handles : Alive(g) /\ port[g] = port[h]}
       IN  /\ toClient' = [g \in Handles |-> IF g \in heard THEN Append(toClient[g], iit)
                                                           ELSE toClient[g]]
           /\ misled' = (misled \cup IF iit = "JOIN_ACK" THEN heard ELSE {}) \ told
           /\ UNCHANGED faults
    \/ /\ faults < MaxFaults
       /\ faults' = faults + 1
       /\ misled' = misled \ told
       /\ UNCHANGED toClient

Refused_Always(n) == mlist[n] # NoEntry

\* ipcd_join returns NULL: an active member holds the name, be it the same
\* handle or another one. A suspended one is removed.
Refused(n) == mlist[n] # NoEntry /\ ~mlist[n].suspend

DaemonJoin ==
    /\ Receives("JOIN")
    /\ LET h == Head(toDaemon).pid
           n == NameOf[h]
       IN  IF Refused(n)
             THEN /\ Answer(h, "JOIN_ACK_FAIL", {})
                  /\ UNCHANGED <<mlist, evicted>>
             ELSE /\ Answer(h, "JOIN_ACK", {h})
                  /\ mlist' = [mlist EXCEPT ![n] =
                                  [pid |-> h, live_cnt |-> 0, suspend |-> FALSE]]
                  /\ evicted' = (evicted \cup IF mlist[n] = NoEntry THEN {}
                                              ELSE {mlist[n].pid}) \ {h}
    /\ UNCHANGED <<pc, tryVars, connect_sem>>

DaemonExit ==
    /\ Receives("EXIT")
    /\ LET h == Head(toDaemon).pid IN
         mlist' = [n \in Names |-> IF mlist[n] # NoEntry /\ mlist[n].pid = h
                                     THEN NoEntry ELSE mlist[n]]
    /\ UNCHANGED <<pc, tryVars, connect_sem, toClient, faults, evicted, misled>>

\* A LIVE packet of h is handled. Its thread sends on after ipc_exit.
DaemonLive(h) ==
    /\ pc[h] \in {"connected", "exited"}
    /\ LET n == NameOf[h] IN
         /\ mlist[n] # NoEntry /\ mlist[n].pid = h
         /\ mlist' = [mlist EXCEPT ![n].live_cnt = 0, ![n].suspend = FALSE]
    /\ UNCHANGED <<pc, tryVars, connect_sem, toClient, toDaemon, faults, evicted, misled>>

Aged_Uncapped(m) == [m EXCEPT !.live_cnt = @ + 1,
                              !.suspend = @ \/ m.live_cnt > LiveTimeoutNum]

Aged(m) == [m EXCEPT !.live_cnt = IF @ < LiveCap THEN @ + 1 ELSE @,
                     !.suspend = @ \/ m.live_cnt > LiveTimeoutNum]

\* ipc_live_thread, every 300 ms, and the clock of those that wait.
LiveTick ==
    /\ mlist' = [n \in Names |-> IF mlist[n] = NoEntry THEN NoEntry ELSE Aged(mlist[n])]
    /\ waited' = [h \in Handles |-> IF pc[h] = "wait" /\ waited[h] < TicksPerRetry
                                      THEN waited[h] + 1 ELSE waited[h]]
    /\ UNCHANGED <<pc, port, sockets, connect_sem, toClient, toDaemon, faults,
                   evicted, misled>>

\* The daemon dies, with what was in its socket and its list, and is started again.
Restart ==
    /\ faults < MaxFaults
    /\ faults' = faults + 1
    /\ toDaemon' = <<>>
    /\ mlist' = [n \in Names |-> NoEntry]
    /\ evicted' = evicted \cup {mlist[n].pid : n \in {k \in Names : mlist[k] # NoEntry}}
    /\ UNCHANGED <<pc, tryVars, connect_sem, toClient, misled>>

-----------------------------------------------------------------------------
Next == \/ \E h \in Handles :
              \/ Create(h) \/ SendJoin(h) \/ Timeout(h) \/ Connected(h)
              \/ RecvAnswer(h) \/ CallExit(h) \/ Crash(h) \/ DaemonLive(h)
        \/ DaemonJoin
        \/ DaemonExit
        \/ LiveTick
        \/ Restart

Spec == Init /\ [][Next]_vars

\* The threads of the daemon and of the client library are always scheduled.
\* Nothing is asked of LIVE packets, nor that anybody exits or dies.
Fairness == /\ \A h \in Handles : /\ WF_vars(SendJoin(h))
                                  /\ WF_vars(Timeout(h))
                                  /\ WF_vars(Connected(h))
                                  /\ WF_vars(RecvAnswer(h))
            /\ WF_vars(DaemonJoin \/ DaemonExit)
            /\ WF_vars(LiveTick)

FairSpec == Spec /\ Fairness

-----------------------------------------------------------------------------
\* Every variable keeps its type.
TypeOK ==
    /\ pc \in [Handles -> {"idle", "connect", "wait", "connected", "exited", "dead"}]
    /\ port \in [Handles -> Ports \cup {NoPort}]
    /\ sockets \in [Handles -> Nat]
    /\ waited \in [Handles -> 0..TicksPerRetry]
    /\ connect_sem \in [Handles -> Nat]
    /\ toClient \in [Handles -> Seq({"JOIN_ACK", "JOIN_ACK_FAIL"})]
    /\ toDaemon \in Seq([iit : {"JOIN", "EXIT"}, pid : Handles])
    /\ mlist \in [Names -> Entry \cup {NoEntry}]
    /\ faults \in 0..MaxFaults
    /\ evicted \subseteq Handles /\ misled \subseteq Handles

Creating(h) == pc[h] \in {"connect", "wait"}

\* The name that h asks for belongs to another process, whose thread goes on to
\* say that it is alive, after ipc_exit as well.
NameHeld(h) ==
    LET m == mlist[NameOf[h]]
    IN  m # NoEntry /\ m.pid # h /\ pc[m.pid] \in {"connected", "exited"}

\* ipc_creat does not wait for ever for a name that the daemon holds for no other
\* live process, whichever JOIN, JOIN_ACK or EXIT was lost, although the process
\* that used the name before died without a word, and although the daemon is
\* started again. It needs JoinsNeeded sockets from then on: each try costs one,
\* and a process that has spent all of them never gets the name.
CreateReturns ==
    \A h \in Handles : (Creating(h) /\ sockets[h] + JoinsNeeded <= MaxSockets[h])
                          ~> (~Creating(h) \/ NameHeld(h))

\* The daemon holds an entry for each handle that ipc_creat returned, unless
\* another process took its name while it was suspended, the daemon that had it
\* died, or it took the answer to a process that had its port before: apart from
\* that, two processes never both own a name.
ReturnedIsListed ==
    \A h \in Handles :
        pc[h] = "connected" =>
            \/ mlist[NameOf[h]] # NoEntry /\ mlist[NameOf[h]].pid = h
            \/ h \in evicted \cup misled

=============================================================================
