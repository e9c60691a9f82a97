---------------------------- MODULE DaemonLocks ----------------------------
(***************************************************************************)
(* What the six threads of the daemon lock and touch, in which order. The  *)
(* member list is touched under mlist_mutex, the three work lists each     *)
(* under a mutex of its own, the list of log records under                 *)
(* debug_save_mutex; the settings that eipcprint changes have none, and    *)
(* rest on mlist_mutex.                                                    *)
(*                                                                         *)
(* A turn begins when sem_wait, recvfrom or a sleep returns. Loops are     *)
(* given with one round and with none: what a round locks it unlocks. The  *)
(* log goes to memory, where it locks most.                                *)
(***************************************************************************)
EXTENDS LockProgram

CONSTANTS mlist_mutex, msg_list_mutex, api_list_mutex, api_ack_list_mutex,
          debug_print_mutex, debug_save_mutex

\* mlist and what hangs from it, the work lists, the log, the switches of
\* what is printed and the address that ipcd_console_print sends to.
DaemonData == {"mlist", "recv_mlist", "recv_alist", "recv_acklist", "log_list", "settings"}

DaemonThreads == {"ipcd_msg_recv", "ipcd_ctl_recv", "_ipcd_api_probe", "_ipcd_msg_probe",
                  "ipc_api_timeout_check_thread", "ipc_live_thread"}

DaemonMutexes == {mlist_mutex, msg_list_mutex, api_list_mutex, api_ack_list_mutex,
                  debug_print_mutex, debug_save_mutex}

DaemonGuard == [d \in DaemonData |->
    CASE d = "mlist" -> mlist_mutex
      [] d = "recv_mlist" -> msg_list_mutex
      [] d = "recv_alist" -> api_list_mutex
      [] d = "recv_acklist" -> api_ack_list_mutex
      [] d = "log_list" -> debug_save_mutex
      [] d = "settings" -> mlist_mutex]

DaemonRank == [m \in DaemonMutexes |->
    CASE m = mlist_mutex -> 0
      [] m = msg_list_mutex -> 1
      [] m = api_list_mutex -> 2
      [] m = api_ack_list_mutex -> 3
      [] m = debug_print_mutex -> 4
      [] m = debug_save_mutex -> 5]

-----------------------------------------------------------------------------
\* A name with an underscore and a capital, as in CtlTurns_Unlocked, is a mutant:
\* a plausible slip in the definition that follows it.

\* ipcd_log_save_and_print: it looks for the name of the process in mlist,
\* without locking it, compares the record with the switches and keeps it.
Log == Under(debug_print_mutex,
             <<Touch("mlist")>> \o <<Touch("settings")>>
                 \o Under(debug_save_mutex, <<Touch("log_list")>>))

ipcd_api_push == Under(api_list_mutex, <<Touch("recv_alist")>>)
ipcd_api_pull == Under(api_list_mutex, <<Touch("recv_alist")>>)
ipcd_msg_push == Under(msg_list_mutex, <<Touch("recv_mlist")>>)
ipcd_msg_pull == Under(msg_list_mutex, <<Touch("recv_mlist")>>)

ipcd_api_ack_list_push == Under(api_ack_list_mutex, <<Touch("recv_acklist")>>)

ipcd_debug_log_memory_pull == Under(debug_save_mutex, <<Touch("log_list")>>)

-----------------------------------------------------------------------------
ApiEnd_KeptOnReturn == <<Touch("mlist"), Lock(api_ack_list_mutex), Touch("recv_acklist"),
                         Touch("mlist")>>

\* The end record of an api: the entry of the call is looked for under
\* api_ack_list_mutex, the answer is relayed under both.
ApiEnd == <<Touch("mlist")>>
              \o Under(api_ack_list_mutex, <<Touch("recv_acklist")>> \o <<Touch("mlist")>>)
              \o Log

\* ipcd_analysis_core for one packet: a live packet or a packet of nobody;
\* a registration, a join, an exit or a record to be logged; a call; a message;
\* the end of an api.
HandlePacket == {<<Touch("mlist")>>,
                 <<Touch("mlist")>> \o Log,
                 <<Touch("mlist")>> \o ipcd_api_push \o Log,
                 <<Touch("mlist")>> \o ipcd_msg_push,
                 ApiEnd}

\* ipcctl_analysis_core for one request: help; eipcls and eipcmsg; eipcprint; eipccat
\* with a log of one record; a plugin command, which also logs.
HandleRequest == {<<Touch("settings")>>,
                  <<Touch("mlist")>> \o <<Touch("settings")>>,
                  <<Touch("settings")>> \o ipcd_debug_log_memory_pull
                      \o ipcd_debug_log_memory_pull,
                  <<Touch("mlist")>> \o Log \o <<Touch("settings")>>}

CtlTurns_Unlocked == HandleRequest

CtlTurns == {Under(mlist_mutex, body) : body \in HandleRequest}

MsgRecvTurns == {Under(mlist_mutex, body) : body \in HandlePacket}

\* Nobody by that name or no such api: an answer and a line of the log.
ApiProbeTurns ==
    {ipcd_api_pull \o Under(mlist_mutex, <<Touch("mlist")>> \o ipcd_api_ack_list_push),
     ipcd_api_pull \o Under(mlist_mutex, <<Touch("mlist")>> \o Log)}

MsgProbeTurns == {ipcd_msg_pull \o Under(mlist_mutex, <<Touch("mlist")>> \o Log)}

TimeoutTurns_Swapped ==
    {<<Lock(api_ack_list_mutex), Lock(mlist_mutex), Touch("recv_acklist"), Touch("mlist")>>
         \o Log \o <<Unlock(mlist_mutex), Unlock(api_ack_list_mutex)>>}

\* No call is due, or one is: its caller gets an answer.
TimeoutTurns ==
    {Under(mlist_mutex, Under(api_ack_list_mutex, <<Touch("recv_acklist")>> \o due))
        : due \in {<<>>, <<Touch("mlist")>> \o Log}}

\* No member has been silent for too long, or one has.
LiveTurns == {Under(mlist_mutex, <<Touch("mlist")>> \o silent) : silent \in {<<>>, Log}}

DaemonTurns == [t \in DaemonThreads |->
    CASE t = "ipcd_msg_recv" -> MsgRecvTurns
      [] t = "ipcd_ctl_recv" -> CtlTurns
      [] t = "_ipcd_api_probe" -> ApiProbeTurns
      [] t = "_ipcd_msg_probe" -> MsgProbeTurns
      [] t = "ipc_api_timeout_check_thread" -> TimeoutTurns
      [] t = "ipc_live_thread" -> LiveTurns]

=============================================================================
