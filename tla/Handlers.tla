------------------------------ MODULE Handlers ------------------------------
(***************************************************************************)
(* The handler tables of one client handle, msg_list and api_list: how     *)
(* they follow the application's registrations, what the daemon is told of *)
(* them, and how ipc_msg_recv_probe walks msg_list while the handlers that *)
(* it calls may themselves register and unregister.                        *)
(*                                                                         *)
(* The tables have no lock. The model covers the calls that do not need    *)
(* one: those of the application between messages, and those a handler     *)
(* makes. The daemon handles the packets of a client in the order in which *)
(* they were sent (MsgBus), so its lists change at once here.              *)
(***************************************************************************)
EXTENDS Naturals, Sequences, SequencesExt

CONSTANTS
    MsgNames,         \* names of messages
    AnyMsg,           \* the name "*", registered to hear all messages
    ApiNames,         \* names of apis
    Funs,             \* the application's handlers, for ipc_register_msg
    ExtFuns,          \* the application's handlers, for ipc_register_msg_ext
    NoDispatch,       \* value of "dispatch" between two messages
    Crashed,          \* value of "dispatch" when the process has crashed
    MaxMsgs,          \* bound on the entries of msg_list
    MaxApis           \* bound on the entries of api_list

ASSUME AnyMsgAssumption == AnyMsg \notin MsgNames
ASSUME FunsAssumption == Funs \cap ExtFuns = {}
ASSUME MaxAssumption == MaxMsgs \in Nat /\ MaxApis \in Nat

VARIABLES
    msg_list,         \* client: DList of _ipc_msg_map_member
    api_list,         \* client: DList of _ipc_api_map_member
    pmsg_list,        \* daemon: message names registered by this member
    papi_list,        \* daemon: api names registered by this member
    dispatch,         \* locals of ipc_msg_recv_probe in its loop
    leftover          \* history: message names whose last unregistration may have
                      \*   left a handler in msg_list

vars == <<msg_list, api_list, pmsg_list, papi_list, dispatch, leftover>>

AllFuns == Funs \cup ExtFuns

\* An entry of msg_list has its function in "fun" or in "fun_ext", and NULL in the
\* other: here ExtFuns tells which.
Handler == [msg_name : MsgNames \cup {AnyMsg} \cup ApiNames, fun : AllFuns]

\* "running" tells whether the last turn of the loop called a handler, which may
\* not have returned. The rest is history: the handlers called for this message,
\* those that were there when it came and that nobody unregistered, and whether
\* something was unregistered before all of those had been called.
Dispatch == [msg_name : MsgNames, i : Nat \ {0}, mlist_size : Nat,
             normal_fun_exist : BOOLEAN, running : BOOLEAN,
             called : Seq(AllFuns), owed : SUBSET AllFuns, careless : BOOLEAN]

ASSUME NoDispatchAssumption == {NoDispatch, Crashed} \cap Dispatch = {} /\ NoDispatch # Crashed

Init == /\ msg_list = <<>>
        /\ api_list = <<>>
        /\ pmsg_list = {}
        /\ papi_list = {}
        /\ dispatch = NoDispatch
        /\ leftover = {}

FunsOf(list, n) == {x.fun : x \in {y \in Range(list) : y.msg_name = n}}

\* Names with an underscore are mutants: a plausible slip in the definition that
\* follows them, which some property has to notice.

-----------------------------------------------------------------------------
\* What the application calls, between messages or in a handler

Dispatching == dispatch \notin {NoDispatch, Crashed}

MayCall == dispatch = NoDispatch \/ (Dispatching /\ dispatch.running)

\* ipc_register_msg and ipc_register_msg_ext: nothing happens, and the daemon is not
\* told, when this handler is there already.
RegisterMsg(n, f) ==
    /\ MayCall
    /\ f \notin FunsOf(msg_list, n)
    /\ Len(msg_list) < MaxMsgs
    /\ msg_list' = Append(msg_list, [msg_name |-> n, fun |-> f])
    /\ pmsg_list' = pmsg_list \cup {n}
    /\ leftover' = leftover \ {n}
    /\ UNCHANGED <<api_list, papi_list, dispatch>>

\* One turn of the loop of ipc_unregister_msg: entry i goes if it has the name,
\* and the entries behind it move up by one.
DeleteIfNamed(n, list, i) ==
    IF i <= Len(list) /\ list[i].msg_name = n THEN RemoveAt(list, i) ELSE list

\* The list after each turn: i counts to the length that it had at first.
AfterTurns(n, list) ==
    LET after[i \in 0..Len(list)] ==
            IF i = 0 THEN list ELSE DeleteIfNamed(n, after[i - 1], i)
    IN  after

WithoutName_Half(n, list) == AfterTurns(n, list)[Len(list) - 1]

\* The whole loop.
WithoutName(n, list) == AfterTurns(n, list)[Len(list)]

\* Where two entries of the name are neighbours, the second moves to the place of
\* the first and the loop does not look at it.
Neighbours(n, list) ==
    \E i \in 1..(Len(list) - 1) : list[i].msg_name = n /\ list[i + 1].msg_name = n

\* ipc_unregister_msg. The daemon is told once, when the first entry goes.
UnregisterMsg(n) ==
    /\ MayCall
    /\ FunsOf(msg_list, n) # {}
    /\ msg_list' = WithoutName(n, msg_list)
    /\ pmsg_list' = pmsg_list \ {n}
    /\ leftover' = IF Neighbours(n, msg_list) THEN leftover \cup {n} ELSE leftover \ {n}
    /\ dispatch' =
          CASE ~Dispatching -> dispatch
            [] Dispatching /\ dispatch.msg_name = n -> [dispatch EXCEPT !.owed = {}]
            [] OTHER -> [dispatch EXCEPT
                            !.careless = @ \/ dispatch.owed \ Range(dispatch.called) # {}]
    /\ UNCHANGED <<api_list, papi_list>>

\* ipc_register_api adds an entry whatever is there.
RegisterApi(n, f) ==
    /\ MayCall
    /\ Len(api_list) < MaxApis
    /\ api_list' = Append(api_list, [msg_name |-> n, fun |-> f])
    /\ papi_list' = papi_list \cup {n}
    /\ UNCHANGED <<msg_list, pmsg_list, dispatch, leftover>>

\* ipc_unregister_api tells the daemon and leaves the client's entry.
UnregisterApi(n) ==
    /\ MayCall
    /\ FunsOf(api_list, n) # {}
    /\ papi_list' = papi_list \ {n}
    /\ UNCHANGED <<msg_list, api_list, pmsg_list, dispatch, leftover>>

-----------------------------------------------------------------------------
\* ipc_msg_recv_probe

DispatchBegin_OneShort(m) ==
    /\ dispatch = NoDispatch
    /\ dispatch' = [msg_name |-> m, i |-> 1, mlist_size |-> Len(msg_list) - 1,
                    normal_fun_exist |-> FALSE, running |-> FALSE,
                    called |-> <<>>, owed |-> FunsOf(msg_list, m), careless |-> FALSE]
    /\ UNCHANGED <<msg_list, api_list, pmsg_list, papi_list, leftover>>

\* A message comes. It may have been relayed before its name was unregistered.
DispatchBegin(m) ==
    /\ dispatch = NoDispatch
    /\ dispatch' = [msg_name |-> m, i |-> 1, mlist_size |-> Len(msg_list),
                    normal_fun_exist |-> FALSE, running |-> FALSE,
                    called |-> <<>>, owed |-> FunsOf(msg_list, m), careless |-> FALSE]
    /\ UNCHANGED <<msg_list, api_list, pmsg_list, papi_list, leftover>>

Named(i, n) == i \in DOMAIN msg_list /\ msg_list[i].msg_name = n

\* The next index, and whether a handler is called on the way.
Turn(next, calls) ==
    dispatch' = [dispatch EXCEPT
        !.i = next,
        !.running = calls,
        !.normal_fun_exist = @ \/ calls,
        !.called = IF calls THEN Append(@, msg_list[dispatch.i].fun) ELSE @]

DispatchStep_Break ==
    /\ Dispatching
    /\ dispatch.i <= dispatch.mlist_size
    /\ IF Named(dispatch.i, dispatch.msg_name) THEN Turn(dispatch.mlist_size + 1, TRUE)
                                              ELSE Turn(dispatch.i + 1, FALSE)
    /\ UNCHANGED <<msg_list, api_list, pmsg_list, papi_list, leftover>>

\* One turn of its loop: entry i is called if it has the name of the message.
\* The calls that its handler makes are the application's next steps.
DispatchStep ==
    /\ Dispatching
    /\ dispatch.i <= dispatch.mlist_size
    /\ Turn(dispatch.i + 1, Named(dispatch.i, dispatch.msg_name))
    /\ UNCHANGED <<msg_list, api_list, pmsg_list, papi_list, leftover>>

DispatchDone == Dispatching /\ dispatch.i > dispatch.mlist_size

Stars == {i \in 1..dispatch.mlist_size : Named(i, AnyMsg)}

\* The handlers that are called at the end: the first one for "*" among those
\* that the loop saw, when there was none for the name itself.
Fallback ==
    IF dispatch.normal_fun_exist \/ Stars = {} THEN {} ELSE {msg_list[Min(Stars)].fun}

\* The fallback is called, and the thread waits for the next message. It is called
\* through "fun" whatever it is, which is NULL in an entry of ipc_register_msg_ext.
DispatchEnd ==
    /\ DispatchDone
    /\ dispatch' = IF Fallback \subseteq Funs THEN NoDispatch ELSE Crashed
    /\ UNCHANGED <<msg_list, api_list, pmsg_list, papi_list, leftover>>

-----------------------------------------------------------------------------
Next ==
    \/ \E n \in MsgNames \cup {AnyMsg}, f \in AllFuns : RegisterMsg(n, f)
    \/ \E n \in MsgNames \cup {AnyMsg} : UnregisterMsg(n)
    \/ \E n \in ApiNames, f \in Funs : RegisterApi(n, f)
    \/ \E n \in ApiNames : UnregisterApi(n)
    \/ \E m \in MsgNames : DispatchBegin(m)
    \/ DispatchStep
    \/ DispatchEnd

Spec == Init /\ [][Next]_vars

-----------------------------------------------------------------------------
\* Every variable keeps its type.
TypeOK ==
    /\ msg_list \in Seq(Handler)
    /\ api_list \in Seq(Handler)
    /\ pmsg_list \subseteq MsgNames \cup {AnyMsg}
    /\ papi_list \subseteq ApiNames
    /\ dispatch \in Dispatch \cup {NoDispatch, Crashed}
    /\ leftover \subseteq MsgNames \cup {AnyMsg}

CalledOnce(f) ==
    \E k \in DOMAIN dispatch.called :
        \A l \in DOMAIN dispatch.called : dispatch.called[l] = f <=> l = k

\* A handler that was registered for a message when it came, and that nobody
\* unregistered while it was handled, is called exactly once; it can be missed only
\* if something else was unregistered before all of those had been called.
EachHandlerIsCalledOnce ==
    DispatchDone =>
        \A f \in dispatch.owed :
            CalledOnce(f) \/ (dispatch.careless /\ f \notin Range(dispatch.called))

\* The same without the exception, as easyipc_base.h has it: when a service sends
\* the message, the handler registered for it is called.
EveryHandlerIsCalled == DispatchDone => \A f \in dispatch.owed : CalledOnce(f)

\* The daemon relays a message or a call to this client only if it has a handler
\* for it, and it relays every message that the client has a handler for, unless
\* the handler is one that ipc_unregister_msg was to delete.
TablesAgree ==
    /\ \A n \in MsgNames \cup {AnyMsg} : n \in pmsg_list => FunsOf(msg_list, n) # {}
    /\ \A n \in MsgNames \cup {AnyMsg} :
          FunsOf(msg_list, n) # {} => n \in pmsg_list \cup leftover
    /\ \A n \in ApiNames : n \in papi_list => FunsOf(api_list, n) # {}

=============================================================================
