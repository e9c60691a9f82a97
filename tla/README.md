# A verification project for easyipc

easyipc lets the processes of one machine broadcast messages and call each
other's functions ("apis"). A daemon, `eipcd`, knows all processes and relays
everything; the library `libeipc` hides it behind `ipc_creat`, `ipc_send_msg`,
`ipc_call_api`, `ipc_register_msg`, `ipc_register_api`. All packets are UDP
datagrams on the loopback interface.

This directory holds TLA+ models of the daemon and the library, configurations
that check them with TLC, and proofs checked with TLAPS. Paths below are
relative to the repository; `daemon.c`, `support.c` and so on stand for
`src/easyipc_daemon.c`, `src/easyipc_support.c`. In `PROJECT.json` these paths
start with `src/`, the directory that holds the repository.

## 1. Inventory

| component | state | operations | what is hard | what makes it correct |
|---|---|---|---|---|
| **member list** of the daemon (`daemon.c`) | `mlist`: pid, name, ports, `live_cnt`, `suspend`, registered apis and messages | `ipcd_join`, `ipcd_exit`, LIVE, HANGUP, register and unregister, `ipc_live_thread` | `ipcd_join` removes entries of the list it walks and reads one that it has freed; silence suspends, and LIVE, API_CALL and MSG_SEND revive, no other packet | one entry for each pid and name; an active member stays; the answer to JOIN is true |
| **api calls** (`support.c`, `daemon.c`) | client: `api_ack_wait_list`, `api_recv_list`, a thread for each handler; daemon: `recv_alist`, `recv_acklist` with countdowns | `ipc_call_api`, `_ipcd_api_probe`, `ipc_api_timeout_check_thread`, the start and end records of handlers | end record races timeout; callee dies, exits, unregisters, is suspended; the caller waits without a timeout of its own, and a signal ends its wait with no answer | one answer to each call, and its own; a handler runs at most once; a call with a timeout returns |
| **message broadcast** (`support.c`, `daemon.c`) | daemon: `recv_mlist`, `pmsg_list` of each member; client: `msg_recv_list` | `ipc_send_msg`, `_ipcd_msg_probe`, `ipc_msg_recv_probe` | three queues and four threads in a row; registrations take effect at once, messages wait | one order for all; early subscribers are served |
| **work queues** (`daemon.c`, `support.c`, `dlist.c`) | a list, a mutex, a semaphore, four times | push, pull | list and counter change apart; `sem_wait` may be interrupted and its result is ignored | nothing lost, stranded, repeated, overtaken; no pull of an empty list |
| **connection** of a client (`support.c`) | `connect_sem`, the entry in `mlist` | `ipc_creat`, JOIN, JOIN_ACK, JOIN_ACK_FAIL, retry after 2 s | lost and late datagrams; the own old entry blocks the retry; a retry costs a socket; a dead owner of the name and of the port; a daemon that starts anew and knows nobody | `ipc_creat` returns while it has sockets; who has a handle is listed |
| **handler tables** of a client (`support.c`) | `msg_list`, `api_list` | register, unregister, dispatch | handlers change the table that is being walked; no lock | each handler is called once; table and daemon agree |
| **list** (`dlist.c`) | nodes between two sentinels | create, len, get, attach, add, delete, remove | two chains that must agree; the walk stops at a node without data | both chains see the same nodes, and these are the entries in order |
| **log** of the daemon and its reader (`easyipc_debug.c`, `easyipc_misc.c`) | `log_list`, `log_size`, `log_fp`, the cursor `index` | `ipcd_log_save_and_print`, `ipcd_debug_creat_logfile`, `ipcd_misc_cat` | the cursor outlives a pass and would lose its place if a record were deleted under it; writes fail and the file is created anew | the latest records in order; each pass of the reader gets the log as it is |
| **locks** of the daemon (`daemon.c`, `easyipc_debug.c`) | six mutexes: `mlist_mutex`, three of work lists, two of the log | lock, unlock, touch, in six threads | nesting; early ways out of a branch; data that rests on a mutex which its own code does not take | no race, no deadlock, nothing left locked |
| **plugins** (`easyipc_plugin.c`) | `plugin_config_jsonlist`, `monitor_msglist`, the masks of members | load a file or a directory, refresh, clean, show | files change and break; a refresh stops half way; masks hang from members that come and go | what is shown is in force, nothing twice, nothing left |
| **time arithmetic** (`easyipc_daemon.h`) | none | `timespec_diff`, `timespec_sum`, `timeraddMS` | carries, 32 bits of microseconds | exact, and a time again |
| control port, status (`daemon.c`, `easyipc_misc.c`) | switches and counters | `ipcctl_analysis_core` | formatting | - |
| command line tools (`easyipc_console.c`), configuration (`easyipc_conf_support.c`) | none | parse, print, look up | text | - |
| backtrace (`easyipc_backtrace.c`) | - | - | not built by the Makefile | - |
| `cjson.c`, `easyipc_script.c`, samples | - | - | vendored, empty, examples | - |

How they interact. A client sends to port 35670; the daemon's thread
`ipcd_msg_recv` handles each packet with `mlist_mutex` held. Registrations, JOIN,
EXIT and LIVE change the member list at once. Calls and messages go to
`recv_alist` and `recv_mlist`, from which `_ipcd_api_probe` and `_ipcd_msg_probe`
relay them, also under `mlist_mutex`. Each client handle has one socket for
messages and JOIN answers and one for calls and answers, a receiving thread and
a queue behind each, and one thread that runs message handlers; each api handler
gets a thread of its own, which reports its end to the daemon.

## 2. Modules

| module | models | state and actions in the code |
|---|---|---|
| `Registry` | the member list | `mlist` is the list; each packet handler and the live thread is an action. The loop of `ipcd_join` is a sequence of `JoinStep`s because it changes the list it walks; `join` holds its locals, and the mutex |
| `ApiCall` | a call from `ipc_call_api` to the handler and back | `toDaemon`, `toClient` are sockets; `waiting` is the thread in `sem_wait`; `recv_alist`, `recv_acklist` as in the code; one action for each handler and thread turn |
| `Rpc` | what a call promises the applications | abstract; `ApiCall` implements it (`RpcKept`) |
| `WorkQueue` | the list-and-semaphore pairs | each lock, attach, unlock, post, wait is an action; `queue` says which pull it is |
| `MsgBus` | a message from `ipc_send_msg` to the handlers | as `ApiCall`; sockets may lose |
| `Bus` | what broadcasting promises | abstract: one common order; `MsgBus` implements it (`BusKept`) |
| `Connect` | `ipc_creat` against `ipcd_join` with loss, retry, death, a new daemon | `pc` is the application's place in `ipc_creat`, `port` and `sockets` what it has bound and opened; `mlist` is a function of the name, which `Registry` justifies |
| `Handlers` | the tables of handlers | `msg_list`, `api_list` as in the code; the walk of `ipc_msg_recv_probe` is a sequence of `DispatchStep`s, between which handlers may call back; `leftover` remembers what an unregistration missed |
| `DList` | the list node by node | operators on a record of functions `next`, `prev`, `data`; a freed node is outside their domains |
| `DebugLog` | the log, on top of `DList` | a record is its number; `out` is the log files with `log_fp`, `cat` the locals of `ipcd_misc_cat`; `SaveAndPrint` is one action (`debug_print_mutex`), the reader takes a record for each |
| `LockProgram` | threads that lock, unlock and touch, in turns | a turn is the sequence of operations between two waits; `owner` is who has locked a mutex |
| `DaemonLocks` | what the daemon's threads do in their turns, on top of `LockProgram` | a constant sequence for each function that locks, and for each thread the set of its turns |
| `Plugin` | the tables of the plugins | `config`, `monitors` are the two lists, `disk` the files; each request on the control port is an action; `CutNames`, `CutUnits`, `CutPaths` say what `snprintf` leaves of a string that is too long |
| `Timespec` | the arithmetic on times, the pause between datagrams, the deadline of `ipc_creat` | operators |
| `RegistryProofs`, `ApiCallProofs`, `WorkQueueProofs`, `MsgBusProofs`, `ConnectProofs`, `HandlersProofs`, `DaemonProofs` | theorems (section 5) | |
| `DataLemmas` | lemmas about lists, theorems about the times of `Timespec` | |
| `MC*` | constants for TLC; `MCDaemon` puts `DaemonLocks`, `DebugLog` and `Plugin` side by side | |

How the modules rest on each other: `DList` implements sequences (section 5;
`DebugLog` checks it under attach and delete, `MemoryHoldsLatest`), and the others use sequences. `DaemonLocks`
shows that what is done under `mlist_mutex` is not disturbed, so in the others a
handler of the daemon is one action. `Registry` shows when a pid and a name
identify one member, so the others use one handle for both. `WorkQueue` shows
that a pair of list and semaphore is a queue, so the others use sequences. `MsgBus`
shows that a client's packets take effect in their order, so in `Handlers` the
daemon's lists change at once. `Handlers` (`TablesAgree`) shows that a call the
daemon lets through finds its handler, which `ApiCall` relies on.

A definition whose name has an underscore before a capital, as in
`CtlTurns_Unlocked`, is a mutant: a slip that a property has to notice. `PROJECT.json` says which.

### Abstractions that matter

- All code of the daemon that touches the member list runs with `mlist_mutex`
  held, so one handler is one action. This includes the two relaying threads and
  both timers.
- Time is abstract. A tick may come at any moment: 300 ms for the live thread,
  100 ms for the timeouts of calls. `live_cnt` stops at `LiveCap`, beyond which
  every test in the code has the same outcome.
- In `Registry` the freed entry that `ipcd_join` reads may still hold its name or
  not, its pid or not, and `suspend` or zero there: every combination is an outcome
  (`JoinReplacePid`, `JoinRefuseFreed`). What a new content of the memory makes of the
  pid or the name is assumed to be nobody's.
- In `ApiCall` a datagram is lost only when the client drops it for its size or
  its receiver is dead; `MsgBus` and `Connect` also lose datagrams at will.
- A port is bound by the first process that finds it free. `Connect` has this: a
  JOIN_ACK to a dead process may reach the one that took its port. In `ApiCall` and
  `MsgBus` all processes exist from the start and none comes later, so an old answer
  never meets a new process, whose `ack_id`s start at 0 again.
- In `ApiCall` a signal may end `sem_wait` (`CallInterrupted`). The result is then what
  the uninitialised `ack_result` holds, which the model calls `INTERRUPTED`; it may
  look like any answer. What the late answer does to the freed entry of
  `api_ack_wait_list`, and what `free` does with a pointer that was never set, is not
  followed. `Call` is one at a time: the next one begins after the return.
- `ipc_exit` may come while a call of the same handle waits, from another thread; the
  daemon then answers nobody, and this call waits for ever.
- In `Connect` time is coarse: at least one tick of the live thread lies between two
  tries (in the code six or seven). What `ipc_creat` spent is forgotten when it
  returns.
- Names of handles, messages and apis that a client passes are taken to fit their 64
  bytes. They are cut where they are stored and compared uncut (`support.c:499`), so
  that a handler under a longer name is neither found nor recognised. `Plugin`, where
  strings come from files, has the cutting: 64 bytes for a message
  (`easyipc_plugin.c:137`), 256 for a broadcast unit (119, 132) and for a path (489).
  The masks of members are not cut.
- The client reports the start and end of message handlers, and the start of api
  handlers; the daemon only counts and prints them, and they are left out.
- A handle has one thread that makes calls (see section 6).
- In `DebugLog` a line of the file is read only when it is complete, and `rm` succeeds.
  Records are written while the reader works only if `mlist_mutex` let them
  (`MayLog`): each caller of the log holds it, as `DaemonLocks` shows.
- In `Handlers` a process that calls NULL is gone (`Crashed`): the fallback calls the
  function of `"*"` through `fun` (`support.c:776`), which is NULL after
  `ipc_register_msg_ext`.
- In `DaemonLocks` a loop is given with one round and with none, since each round
  locks and unlocks alike; what is read and what is written is not told apart.
- In `Plugin` a document is the list of its rules; a broadcast unit has one of the
  four types that `ipcd_plugin_parse_m2m` knows (for any other key `item_type` is
  not initialised, `easyipc_plugin.c:661`).

## 3. Runs

Each run finishes in at most two and a half minutes with two workers.

| run | instance | shows |
|---|---|---|
| `Registry` | 3 pids, 2 names (two pids share one, one pid asks for both), 1 topic, `LiveTimeoutNum` 1, 3 members | types, `UniqueIds`, `RegisteredOnce`, `SuspendedWasSilent`, `ActiveIsKept`, `JoinAnswerIsTrue` |
| `ApiCall` | 2 handles that call each other or themselves, 2 calls in all, timeouts of two ticks, 1 crash, exit or signal; the handles are symmetric | `OneAnswerToCome`, and the path implements `Rpc` |
| `ApiCallTimeout` | 1 caller, 1 call, a timeout of one tick or none, apis also unregistered, 2 crashes, exits or signals; fair | `CallWithTimeoutReturns`, `AnswerToCome`, `HandlerRunsOnce` |
| `WorkQueue` | 2 producers, 3 entries each, the three pulls with and without signals; fair | `NeverBroken`, `NoEntryStranded`, `InOrder`, `EveryEntryIsPulled` |
| `MsgBus` | 1 sender with 2 messages, 1 subscriber of a name and of `"*"`, 1 crash or exit; fair, no loss | `EarlyBirdsAreServed`, `ViewsAgree`, `DueIsHeard` |
| `MsgBusOrder` | 2 handles that send one message each and subscribe, loss | the path implements `Bus`; that each sender's own messages keep their order takes two of one sender, and is proved for any number (`OneOrderForAll`) |
| `Connect` | 2 processes that want one name, 2 ports, 2 datagrams in transit for each, one lost or the daemon restarted once, 2 sockets for the first process and 13 for the second; fair | `ReturnedIsListed`, `CreateReturns` |
| `Handlers` | 2 messages and `"*"`, 2 functions and one of `ipc_register_msg_ext`, tables of 3 and 1 entries; messages and functions are symmetric | `EachHandlerIsCalledOnce`, `TablesAgree` |
| `Daemon`, locks | the six threads, all turns; deadlock is checked | `RaceFree`, `NoWaitCycle`, `NothingLeftLocked` |
| `Daemon`, log | 4 records, 2 passes of the reader, `-t` -1, 0, 1 and 2 | `MemoryHoldsLatest`, `FilesInOrder`, `PassIsSnapshot` |
| `Daemon`, plugins | 3 files, 2 documents that share a rule, with a name and a unit that are cut to those of the other, a path that is cut to another file's, broken files and files without a list, 2 directories, 4 requests, 1 member at a time | `ShownIsInForce`, `NothingTwice`, `NoFileNoTrace` |
| `ApiCallUnregister`, `HandlersUnregister`, `DebugLogLimit` | | end in a violation, below |

`Daemon` is one run of three components that share no variable: `part` says which one
moves, and the others stay as they start. What it explores is the sum of the three and
not their product.

Why the bounds are enough. Each hazard needs few actors: `ipcd_join` goes wrong,
where it can, with one suspended entry for the pid and one for the name, hence
three pids. A late answer needs a second call to be mistaken for, hence two calls.
Total order needs two senders and two listeners. A retry that meets its own old
entry needs two JOINs in transit. In `Handlers` three entries are enough for entries to
move up in front of, at and behind the walk, and for neighbours and others of a name
(with four the properties hold as well: 14 million states, five minutes). The counters in `Registry`, `Connect` and
`WorkQueue` are bounded where larger values are like smaller ones; `MaxCalls`,
`MaxMsgs`, `MaxFaults`, `MaxPackets`, `MaxItems`, `MaxApis`, `MaxPrints`,
`MaxPasses`, `MaxRequests`, `MaxMembers` bound what the environment does. `MaxSockets`
stands for the descriptors a process may have, about a thousand. `JoinsNeeded` is 13,
the tries that always suffice in this instance: each disturbance (a lost datagram, a
restart, a process that joins and dies) costs as many as it takes ticks to suspend an
entry, and datagrams of earlier tries may still be in transit and set it up again. Four
records fill a list of two and delete twice; the second pass of the reader meets
the cursor that the first left behind. In `Plugin` four requests are enough to load
two files, refresh after one broke, and clean or load again. In `ApiCall` a client also has at most one registration and
one unregistration of an api under way.

`CHECK_DEADLOCK FALSE` stands where all bounded work may be done and the system is at
rest.

### What the runs that end in a violation show

`ApiCallUnregister`: an api is unregistered while a call of it runs. The end record
finds no registered api and falls through (`daemon.c:1407`) to code that answers the
*sender of the record* under the caller's `ack_id`. If the callee waits in a call of
its own with that number, it gets the foreign result. `README.md:101` says `ret_data`
is what the called function returned.

`HandlersUnregister`: a handler of a message unregisters another name while
`ipc_msg_recv_probe` walks the table; the entries behind move up, and the next handler
of the message is stepped over (`support.c:743`). `exp_inc/easyipc_base.h:131` says that
a registered handler is called when the message is sent. `EachHandlerIsCalledOnce` says
what is left of this promise, and holds: none is called twice, and one is missed only
after something else was unregistered.

`DebugLogLimit`: with `-t n` the list in memory settles at n + 1 records, for
`easyipc_debug.c:111` tests the length before the new record is attached. `README.md:21`
and the help text (`daemon.c:1663`) say n.

Other limits of the code that the models made visible, without a run of their own:

- A packet larger than `ipc_msg_packet_max_size` is dropped (`support.c:282`), and
  `ipc_call_api` waits for ever although it was given a timeout (`README.md:103`), for
  only the daemon counts. With `Sizes = {"large"}` in `ApiCallTimeout.cfg`,
  `CallWithTimeoutReturns` fails.
- A signal that the process handles ends `ipc_call_api` with a result that was never
  set (`support.c:443`, `450`), and its entry is freed while it is still in
  `api_ack_wait_list`.
- `ipc_unregister_msg` steps over the entry behind each one that it deletes
  (`support.c:571`). After two handlers of a name were registered in a row, as
  `sample/app1.c:54` does, and the name unregistered, one stays, while the daemon relays
  no more; registering that one again returns early and the daemon is never told.
  `TablesAgree` excepts such handlers (`leftover`).
- `"*"` with `ipc_register_msg_ext` crashes the process at the first message that finds
  no handler of its own (`support.c:776`).
- Each try of `ipc_creat` opens a socket and closes none (`support.c:167`). After about a
  thousand tries of two seconds, because the daemon is down or the name is taken,
  `socket` fails, no JOIN is sent any more, and `ipc_creat` tries for ever even when the
  name is free. `CreateReturns` speaks only of who has `JoinsNeeded` sockets left.
- A JOIN_ACK to a process that died may reach the next one on its port: `ipc_creat`
  returns although the daemon does not list this process, and nothing ever tells it
  (`misled` in `Connect`).
- JOIN_ACK_FAIL is ignored (`support.c:1011`): while another process holds its name,
  `ipc_creat` tries for ever; `exp_inc/easyipc_base.h:127` says it returns NULL
  when it fails.
- One failed write of a line end removes the log file with all that it holds, and
  `ipcd_misc_cat` never closes the file it reads.
- A pid that comes back under another name while the list still holds it (a suspended
  entry stays until somebody takes its name) may leave a name or a pid listed twice, and
  an answer to JOIN untrue: `ipcd_join` does not compare the entry that moves up when it
  removes one. Without `~renamed` in them, `UniqueIds`, `ActiveIsKept` and
  `JoinAnswerIsTrue` fail in the run `Registry`; `renamed` is set by exactly this.
- A suspended entry of the own pid that was freed and misread makes the daemon answer
  JOIN_ACK_FAIL after it has removed the entry; the next try gets through. The comment
  at `daemon.c:480` and `494` says that a suspended entry can be deleted and created
  anew.
- A plugin file whose path has more than 255 bytes is loaded again each time, and rules
  with a message name of more than 63 or a unit of more than 255 enter again each time:
  `NothingTwice` excepts what is left of those.
- An api that is unregistered and registered again with another function still
  runs the first: entries of `api_list` are never removed and the first match is
  called.
- A member that was suspended and whose name another process took is never told.
- A lost MSG_REGISTER is never sent again: `ipc_register_msg` returns early.
- After a restart the daemon knows nobody, and connected clients go on with LIVE, which
  it ignores (`support.c:873`); they never join again. This is why `ReturnedIsListed`
  makes an exception of who went with the old daemon.
- `api_public_magic_number` is an `int` that wraps after 2^32 calls.

## 4. Fairness

- The threads of the daemon and the library are scheduled: weak fairness for each
  socket thread, relaying thread and timer. They block only on mutexes held for
  finite work and on semaphores.
- `ApiCallTimeout` asks nothing of handlers and applications: a handler may run for
  ever. `MsgBus` asks that message handlers return, because
  `ipc_msg_recv_probe` calls them itself.
- `WorkQueue` asks strong fairness of the consumer's lock: producers take the
  mutex again and again, and Linux hands it over some time. A producer need not
  push; a push once begun ends.
- `Connect` asks nothing of LIVE packets: the name comes free because nothing more
  is heard, and `CreateReturns` says so only of names that the daemon holds for no
  process which is connected, or which called `ipc_exit` and lives on: its thread goes
  on sending LIVE. `MaxFaults` bounds the losses; a network that loses for ever refutes
  any such property.

## 5. Proofs

Each of these modules is checked by itself, as in `tlapm RegistryProofs.tla`:
`DataLemmas`, `RegistryProofs`, `ApiCallProofs`, `WorkQueueProofs`, `MsgBusProofs`,
`ConnectProofs`, `HandlersProofs`, `DaemonProofs`. None of them bounds the number of
processes, names, calls, messages, producers and callers (any finite number) or threads:
the bounds of section 3 are parameters, of which the modules assume only that they are
natural numbers. `DaemonProofs` is about several components that share no state: the
mutexes, `DList`, `DebugLog` and `Plugin`, whose specifications are therefore called
`LogSpec` and `PluginSpec`.

| theorem | statement | assumes, beyond the module's assumptions |
|---|---|---|
| `RegistryProofs!TypeCorrect` | `[]TypeOK` | - |
| `RegistryProofs!NoPidOrNameTwice` | `[]UniqueIds`: until a listed pid asks for a second name | - |
| `RegistryProofs!ActiveMemberIsKept`, `AnswersAreTrue` | `ActiveIsKept`, `JoinAnswerIsTrue`, until then | - |
| `RegistryProofs!NothingIsRegisteredTwice`, `OnlySilenceSuspends` | `[]RegisteredOnce`, `[]SuspendedWasSilent` | - |
| `ApiCallProofs!TypeCorrect`, `HandlerNeverRunsTwice` | `[]TypeOK`, `[]HandlerRunsOnce` | - |
| `ApiCallProofs!NoCallForgotten` | `[]AnswerToCome` | `"large" \notin Sizes` |
| `ApiCallProofs!OwnCallAnswered` | `[]AckAnswersOwnCall` | `~MayUnregister` |
| `ApiCallProofs!OneAnswerComes` | `[]OneAnswerToCome` | both of these |
| `ApiCallProofs!CallKeepsPromises` | `RpcKept`: `ApiCall` implements `Rpc` | `~MayUnregister` |
| `WorkQueueProofs!TypeCorrect` | `[]TypeOK` | - |
| `WorkQueueProofs!NothingIsStranded` | `[]NoEntryStranded`, for all pulls, with signals | - |
| `WorkQueueProofs!SemaphoreIsHonest`, `PullNeverBreaks` | `[]SemAtMostEntries`, `[]NeverBroken`: where nothing interrupts `sem_wait`, no pull finds its list empty | - |
| `WorkQueueProofs!NothingIsLostOrOvertaken` | `[]InOrder` | - |
| `MsgBusProofs!TypeCorrect` | `[]TypeOK` | - |
| `MsgBusProofs!OneOrderForAll` | `BusKept`: `MsgBus` implements `Bus`, with loss | - |
| `MsgBusProofs!EarlyBirdsAlwaysServed`, `ViewsAlwaysAgree` | `[]EarlyBirdsAreServed`, `[]ViewsAgree` | `~MayLose` |
| `ConnectProofs!TypeCorrect` | `[]TypeOK` | - |
| `ConnectProofs!WhoReturnedIsListed` | `[]ReturnedIsListed`, with loss and restarts | - |
| `HandlersProofs!TypeCorrect`, `TablesAlwaysAgree`, `EachIsCalledOnce` | `[]TypeOK`, `[]TablesAgree`, `[]EachHandlerIsCalledOnce` | - |
| `DaemonProofs!DataIsGuarded`, `NobodyWaitsInACircle`, `AllIsUnlocked` | `[]RaceFree`, `[]NoWaitCycle`, `[]NothingLeftLocked`, for any programs | `DisciplinedTurns` |
| `DaemonProofs!DaemonIsRaceFree`, `DaemonNeverDeadlocks`, `DaemonUnlocksAll` | the same of the daemon | `TheDaemon`: the threads take the daemon's turns, the six mutexes differ |
| `DaemonProofs!WalkIsSequence`, `AttachAppends`, `DeleteRemoves` | the nodes of `DList` implement a sequence | - |
| `DaemonProofs!LogTypeCorrect`, `LatestAlwaysKept`, `FilesAlwaysInOrder` | `[]LogTypeOK`, `[]MemoryHoldsLatest`, `[]FilesInOrder`, with failing writes | - |
| `DaemonProofs!PassIsAlwaysSnapshot` | `PassIsSnapshot` | - |
| `DaemonProofs!ShownIsAlwaysInForce`, `NeverTwice`, `NoFileNeverATrace` | `[]ShownIsInForce`, `[]NothingTwice`, `[]NoFileNoTrace`, for any documents and whatever is cut | - (what was cut is not cut again: `CutAssumption`) |
| `DataLemmas!DiffIsExact`, `SumIsExact`, `SumInAnyOrder` | `timespec_diff`, `timespec_sum` are exact in nanoseconds, and return times | - |
| `DataLemmas!PauseIsKept` | the test in `ipc_data_to_daemon` is one of 50 microseconds | the clock does not go back |
| `DataLemmas!AddMSIsExact`, `DeadlineIsValid` | `timeraddMS` is exact; the deadline of `ipc_creat` is two seconds away, with fewer than a billion nanoseconds | for `timeraddMS`, that `ms * 1000` fits its 32 bits |

**Registry.** `UniqueIds` is not inductive: while `ipcd_join` walks, it depends on
what the walk has passed. `IdsInv` adds `JoinScanned` (no entry before `i` carries the
pid or the name that joins, and the list is not longer than `member_size`) and
`JoinerKeepsName` (who joins is listed, if at all, under the name it asks for), all of it
only while `renamed` is false. Then at most one entry carries the name, so after one
removal the entry that moves up unseen cannot match. `JoinScanned` is also what makes the
answer
to a JOIN true: at the end of the walk it speaks of the whole list. `RegisteredOnce` and `SuspendedWasSilent`
are about one entry at a time; `MembersInv` says them of all entries together with
the types. `DataLemmas` holds what the proofs need of `RemoveAt`, `Append` and ranges
of sequences.

**ApiCall.** Lists and sockets are described by the sets of the calls that lie in them
(`Calls`, `Called`, `RelaysIn`, `AcksIn`, `Ends`), and each action by what it moves from
one set to the next (`ClientEffect`, `DaemonEffect`); every invariant is proved from
these effects. The invariants, each resting on the ones before:

- `Placed`: a call whose handler has not been started is at one place on its way (the
  daemon's socket, `recv_alist`, the callee's socket or its `api_recv_list`), in no list
  twice, and was never run nor told "can't find". This alone gives `HandlerRunsOnce`.
- `Waiters`: the call that a thread waits in is its last one, and all before it have
  returned; a handle that left or died waits in none.
- `NoneForgotten`: a call that waits is in the daemon's socket, in `recv_alist`, in
  `recv_acklist`, or an answer with its number is in the caller's socket. Each step that
  takes it from one of them puts it into another, for what reaches the caller is lost
  only if the caller is gone. A call that is too large to be sent is nowhere, hence
  `"large" \notin Sizes`; the code then waits for ever (section 3).
- `Single`: it is at one of these places only, and only calls that wait or that a signal
  ended are.
- `Numbers`: `api_public_magic_number` is above every number given, and no two calls have
  the same one, so an end record finds the entry of its own call.
- `Registered`: where no api is unregistered, who has a call of an api still has the api
  in the daemon, or has left. This keeps an end record from the branch that
  answers the wrong process, hence `~MayUnregister`.
- `OwnAnswers`: each answer under way carries the number of the call it answers.

`AnswerToCome` and `OneAnswerToCome` count list entries; `SourceCounts` turns the four
counts into membership in the four sets. For the refinement of `Rpc`, `Asks`, `Answers`
and `Begins` are the steps that map to `Issue`, `Return` and `Run`; that the
guards of `Rpc` hold is what `Placed` and `OwnAnswers` say. It needs no assumption on sizes: `Rpc`
does not promise that an answer comes.

**WorkQueue.** The proofs rest on counting: the length of the list differs from the
semaphore by the producers that have attached and not posted (`Posting`) and the
consumer that was woken and has not taken (`Pulling`). `NoEntryStranded` and
`SemAtMostEntries` are the two inequalities; each step changes both sides alike.

**MsgBus.** The refinement needs two orders. `SendersOrder`: through the log,
`recv_mlist` and the daemon's socket, read in this order, the messages of each sender
are in the order in which it sent them; with `AllSent` (nothing is under way whose
number is above its sender's count) a new message fits in. `OneOrder`: through what
the handlers of a process were given, its `msg_recv_list` and its socket, messages are
in the order of the log. A message that is relayed is new to the log, so it comes
behind all that anybody has; a message that is handled is the first of `msg_recv_list`,
so it is later than all that was heard, which is the guard of `Bus!Hear`. That early
subscribers are served needs to know what a registration under way will do:
`InEffect(g, n, i)` says that `n` is in the `pmsg_list` of `g` once the daemon has
handled the first `i` packets. `WillAgree` compares the client's table with it, and
`WillBeServed` says of each message that waits that from its place in the socket on,
a name that asks for it stays in effect wherever it is due. Losing a registration
breaks both, hence `~MayLose`.

**Connect.** `ReturnedIsListed` is about who has a handle; the answer that gives it
may be under way for long. `ToldIsListed` says the same of everybody who was told or
is about to be: by a JOIN_ACK in the socket, or the semaphore. It survives an EXIT
because only who has gone has one under way (`ExitOfGone`). Who read the answer to an
earlier owner of its port is `misled`, and excepted.

**Handlers.** `AfterTurns` is the loop of `ipc_unregister_msg`, a recursive function of
the turn. `TurnsExist`, `EachTurn` and `OneGoes` are proved by the smallest turn at which
they would fail: where one entry has the name, the loop removes this one.
`Follows` says what the loop does to each entry: one with another name is still there,
at its place or before, none is there twice that was not, and without neighbours of the
name none of it is left among the turns done. `EachHandlerIsCalledOnce` needs
`OwedServed`: each handler that is owed a call has its entry (`Serves`) either ahead of
the walk, and was not called, or behind it, and was called once, or was missed after
something was unregistered while somebody was still owed a call (`careless`). An entry
only ever moves up, so one that the walk has passed stays passed and is not called
again. `TablesAgree` needs that a loop which meets no neighbours of the name removes
all its entries.

**Locks.** The mutexes that a thread owns are those which `HeldAt` computes from the
turn it is in, so each property of a state follows from one of the turns. In a circle
of waiting threads, the one that waits for the mutex of highest rank would wait for a
thread that waits for a higher one. `DaemonProofs` then goes through the daemon's turns as
they are composed: a piece is clean (`CleanWith`) where the mutexes around it have lower ranks,
and sequences and nestings of clean pieces are clean.

**Lists.** `Holds(l, s)` relates the nodes of a list to a sequence of cells: the
sentinels and the cells of `s` are all its nodes, `next` and `prev` link them in this
order, and the sentinels alone have no data. `NodeAt` is a recursive function, and by
the smallest turn at which it would differ the walk meets the cells of `s`
(`WalkMeets`). `dlist_len` stops at the first node without data, which is the tail
because no list has as many entries as it has nodes (`WalkIsShort`, by counting).

**Log.** With the list as a sequence, `MemoryInv` says that its entries are the last
`log_size` records and that `log_size` is settled by how many were printed. Two facts
that no property states make the rest inductive: `log_fp` is at the end of the last
file, so a write after a failed one does not overwrite (`UpTo`), and what a pass has
read so far is the log up to its cursor (`CursorInv`). The latter is kept because `MayLog`
keeps records out while a pass holds `mlist_mutex`, and because the cursor is back at
the start whenever no pass is under way.

**Plugin.** Each loop is a recursive function of its turns; `LoopHasTurns` gives it its
value and `AfterEachTurn` is the induction over it (both in `DataLemmas`). A turn adds to
the rules and takes none away (`Grows`; `UnitAdded` and `InsertedSetsOff` do it for one
unit, cut or not), so the invariant `GoodTables`, which says of all
loaded files at once that their rules are in force, survives the parsing of
one of them; for this one `WithRootInForce` says it at the end (`ParsedIsGood`). In a
refresh the documents of the files change and their names do not, so that the turns that
were planned at its start refer to the same files. Masks need no more than their
types: what matters is that they are only there while a file is loaded.

**Only model-checked**: the four liveness properties (`CallWithTimeoutReturns`,
`EveryEntryIsPulled`, `DueIsHeard`, `CreateReturns`). TLAPS does not reach liveness under
fairness and `ENABLED`.

## 6. Not modelled, and what is left

What could follow, in this order:

1. `DList`: `dlist_remove` and `dlist_destroy`, which repeat the code of
   `dlist_delete`, and `dlist_add`, which nothing calls.
2. Two threads that call through one handle: `api_ack_magic_num` and
   `api_ack_wait_list` have no lock. No doc promises that a handle may be shared, and
   no property could hold of it.

Parts of modelled components that are left out: `ipcd_plugin_trigger` and the tests
of the plugins' masks, for the daemon's calls of them are commented out
(`daemon.c:646`); the user data of the `_ext` variants of registration, which the
library only hands through; the start records of handlers, which the daemon counts
and prints.

Left out for good: the command line tools, the control port's formatting of status
and log lines, the configuration file's text (pure input and output), `cjson.c`
(vendored), `easyipc_backtrace.c` (not built), `easyipc_script.c` (empty).
