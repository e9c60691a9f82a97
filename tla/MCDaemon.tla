------------------------------ MODULE MCDaemon ------------------------------
(***************************************************************************)
(* Three components of the daemon for TLC: the locks of its threads, its   *)
(* log and the tables of its plugins. They share no variable, so one       *)
(* behaviour moves only one of them, and the other two stay as they start. *)
(***************************************************************************)
EXTENDS DaemonLocks, DebugLog, Plugin, TLC

CONSTANTS c1, c2, c3, f1, f2, f3, a, b, along, blong, app

VARIABLE part    \* the component that moves

daemonVars == <<vars, logVars, pluginVars, part>>

MCMaxRank == 5

MCCells == {c1, c2, c3}
MCLogSizes == {-1, 0, 1, 2}

\* A rule; rules with a message and with a unit that are cut to those of the first,
\* the unit differing in its type only, and a document of masks.
MCDocuments ==
    {<<[type |-> "m2m", monitor |-> <<a>>, broadcast |-> <<[type |-> "msg", msg |-> b]>>]>>,
     <<[type |-> "m2m", monitor |-> <<along, a>>,
        broadcast |-> <<[type |-> "msg", msg |-> b], [type |-> "shell", msg |-> blong]>>],
       [type |-> "mask_msg", send |-> <<[pname |-> app, mname |-> a]>>,
        recv |-> <<[pname |-> Star, mname |-> b]>>],
       [type |-> "led"]>>}

MCCutNames == along :> a
MCCutUnits == [type |-> "shell", msg |-> blong] :> [type |-> "shell", msg |-> b]

\* The path f2 is too long, and what is left of it is the path of another file.
MCCutPaths == f2 :> f3

\* A directory with one file and one with two.
MCListings == {<<f2>>, <<f1, f2>>}
MCFiles == {f1, f2, f3}

MCInit == /\ Init /\ LogInit /\ PluginInit
          /\ part \in {"locks", "log", "plugins"}
          /\ part # "log" => debug_log_size = 0 /\ Last(out.files) = <<Start>>
          /\ part # "plugins" => disk = [f \in Files |-> Unusable]

LocksMove == part = "locks" /\ Next /\ UNCHANGED <<logVars, pluginVars, part>>
LogMoves == part = "log" /\ LogNext /\ UNCHANGED <<vars, pluginVars, part>>
PluginsMove == part = "plugins" /\ PluginNext /\ UNCHANGED <<vars, logVars, part>>

\* Records and requests may fail to come, threads must not stop in the middle.
NothingComes == part # "locks" /\ UNCHANGED daemonVars

MCNext == LocksMove \/ LogMoves \/ PluginsMove \/ NothingComes

MCSpec == MCInit /\ [][MCNext]_daemonVars
=============================================================================
