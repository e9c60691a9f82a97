------------------------------ MODULE Registry ------------------------------
(***************************************************************************)
(* The member list (mlist) of the eipcd daemon: which process handles have *)
(* joined, what they registered and whether the daemon believes they live. *)
(*                                                                         *)
(* Every handler runs with mlist_mutex held, so a handler is one action.   *)
(* ipcd_join is the exception in form only: it walks the list and removes  *)
(* entries while it walks, so its loop is a sequence of JoinStep actions;  *)
(* "join" holds its locals and, while it is set, the mutex, so that no     *)
(* other action interleaves with the walk.                                 *)
(***************************************************************************)
EXTENDS Naturals, Sequences, SequencesExt

CONSTANTS
    Pids,             \* handle identifiers, getpid() + n * 1000000
    Names,            \* alias names given to ipc_creat
    Requests,         \* the <<pid, name>> pairs that clients ask to join with
    Topics,           \* api and message names
    LiveTimeoutNum,   \* IPC_LIVE_TIMEOUT_NUM
    MaxMembers,       \* bound: no join begins beyond so many entries
    NoJoin,           \* value of "join" when ipcd_join is not running
    NoReply           \* value of "reply" before the first answer

ASSUME RequestsAssumption == Requests \subseteq Pids \X Names

ASSUME LiveTimeoutAssumption == LiveTimeoutNum \in Nat

\* Where the counter of a silent member stops in the model: every test in the
\* code compares it with LiveTimeoutNum, so larger values behave the same.
LiveCap == LiveTimeoutNum + 2

ASSUME MembersAssumption == MaxMembers \in Nat

VARIABLES
    mlist,            \* DList of _mlist_member, in join order
    join,             \* locals of a running ipcd_join, or NoJoin
    reply,            \* last JOIN_ACK or JOIN_ACK_FAIL sent
    renamed           \* history: a pid has asked for a name while it was listed
                      \* under another one

vars == <<mlist, join, reply, renamed>>

Member == [pid : Pids, pname : Names, live_cnt : 0..LiveCap,
           suspend : BOOLEAN, pmsg_list : Seq(Topics), api_list : Seq(Topics)]

JoinState == [pid : Pids, pname : Names, i : Nat \ {0}, member_size : Nat]

Reply == [pid : Pids, ok : BOOLEAN]

ASSUME NoJoinAssumption == NoJoin \notin JoinState

ASSUME NoReplyAssumption == NoReply \notin Reply

-----------------------------------------------------------------------------
\* Names with an underscore are mutants: a plausible slip in the definition that
\* follows them, which some property has to notice.

\* Looking a member up, and removing it. A loop over the list acts on the
\* first entry that matches: S is the set of the indexes that do.

\* Indexes of the entries of the list ml that carry pid p.
WithPid(ml, p) == {k \in DOMAIN ml : ml[k].pid = p}

\* The list ml without the first entry of S.
RemoveFirstOf(ml, S) == IF S = {} THEN ml ELSE RemoveAt(ml, Min(S))

\* The list ml with the first entry of S replaced by Change of it.
UpdateFirstOf(ml, S, Change(_)) ==
    [k \in DOMAIN ml |->
        IF k \in S /\ \A l \in S : k <= l THEN Change(ml[k]) ELSE ml[k]]

RemoveViaPid(ml, p) == RemoveFirstOf(ml, WithPid(ml, p))

UpdateViaPid(ml, p, Change(_)) == UpdateFirstOf(ml, WithPid(ml, p), Change)

AttachNew_Always(list, t) == Append(list, t)

\* dlist_attach unless the name is there already.
AttachNew(list, t) == IF t \in Range(list) THEN list ELSE Append(list, t)

Revived_StillSuspended(m) == [m EXCEPT !.live_cnt = 0]
Revived(m) == [m EXCEPT !.live_cnt = 0, !.suspend = FALSE]
WithApi(m, t) == [m EXCEPT !.api_list = AttachNew(@, t)]
WithMsg(m, t) == [m EXCEPT !.pmsg_list = AttachNew(@, t)]
WithoutApi(m, t) == [m EXCEPT !.api_list = RemoveFirst(@, t)]
WithoutMsg(m, t) == [m EXCEPT !.pmsg_list = RemoveFirst(@, t)]

NewMember(p, n) == [pid |-> p, pname |-> n, live_cnt |-> 0, suspend |-> FALSE,
                    pmsg_list |-> <<>>, api_list |-> <<>>]

-----------------------------------------------------------------------------
Init == /\ mlist = <<>>
        /\ join = NoJoin
        /\ reply = NoReply
        /\ renamed = FALSE

\* mlist_mutex is free.
Unlocked == join = NoJoin

\* Pid p asks for name n, and the list still holds p under another name.
Renames(p, n) == \E k \in WithPid(mlist, p) : mlist[k].pname # n

JoinBegin_OneShort(p, n) ==
    /\ Unlocked
    /\ Len(mlist) < MaxMembers
    /\ join' = [pid |-> p, pname |-> n, i |-> 1, member_size |-> Len(mlist) - 1]
    /\ renamed' = (renamed \/ Renames(p, n))
    /\ UNCHANGED <<mlist, reply>>

\* A JOIN packet arrives and ipcd_join starts its loop. Any pid may ask for any
\* name of Requests: a pid comes back in a later process, and getpid() +
\* n * 1000000 may meet getpid() + m * 1000000 of another.
JoinBegin(p, n) ==
    /\ Unlocked
    /\ Len(mlist) < MaxMembers
    /\ join' = [pid |-> p, pname |-> n, i |-> 1, member_size |-> Len(mlist)]
    /\ renamed' = (renamed \/ Renames(p, n))
    /\ UNCHANGED <<mlist, reply>>

InRange == join.i <= Len(mlist)
SamePid == InRange /\ mlist[join.i].pid = join.pid
SameName_Ignored == FALSE
SameName == InRange /\ mlist[join.i].pname = join.pname

JoinRefuse_SaysOk ==
    /\ SamePid \/ SameName
    /\ ~mlist[join.i].suspend
    /\ reply' = [pid |-> join.pid, ok |-> TRUE]
    /\ join' = NoJoin
    /\ UNCHANGED <<mlist, renamed>>

\* The entry is held by a member that is not suspended: return NULL, and the
\* caller sends JOIN_ACK_FAIL.
JoinRefuse ==
    /\ SamePid \/ SameName
    /\ ~mlist[join.i].suspend
    /\ reply' = [pid |-> join.pid, ok |-> FALSE]
    /\ join' = NoJoin
    /\ UNCHANGED <<mlist, renamed>>

\* A suspended entry with the same pid is removed, and then the freed entry's
\* name is compared. If its stale bytes still hold the same name and are not
\* zero in "suspend", it is removed "again" by its stale pid: the allocator may
\* have overwritten the pid (nothing more goes) or not (another entry with that
\* pid would go too). The list has moved up by one, and i still moves on.
JoinReplacePid ==
    /\ SamePid
    /\ mlist[join.i].suspend
    /\ LET once == RemoveViaPid(mlist, join.pid) IN
         \/ mlist' = once
         \/ SameName /\ mlist' = RemoveViaPid(once, join.pid)
    /\ join' = [join EXCEPT !.i = @ + 1]
    /\ UNCHANGED <<reply, renamed>>

\* The third outcome: the freed entry still holds the same name, but "suspend"
\* now reads zero. The entry is gone, and ipcd_join returns NULL all the same.
JoinRefuseFreed ==
    /\ SamePid
    /\ SameName
    /\ mlist[join.i].suspend
    /\ mlist' = RemoveViaPid(mlist, join.pid)
    /\ reply' = [pid |-> join.pid, ok |-> FALSE]
    /\ join' = NoJoin
    /\ UNCHANGED renamed

JoinReplaceName_Active ==
    /\ SameName
    /\ ~SamePid
    /\ mlist' = RemoveViaPid(mlist, mlist[join.i].pid)
    /\ join' = [join EXCEPT !.i = @ + 1]
    /\ UNCHANGED <<reply, renamed>>

\* A suspended entry with the same name is removed through its pid.
JoinReplaceName ==
    /\ SameName
    /\ ~SamePid
    /\ mlist[join.i].suspend
    /\ mlist' = RemoveViaPid(mlist, mlist[join.i].pid)
    /\ join' = [join EXCEPT !.i = @ + 1]
    /\ UNCHANGED <<reply, renamed>>

\* Neither pid nor name match, or dlist_get_data_safe finds no entry.
JoinSkip ==
    /\ ~SamePid
    /\ ~SameName
    /\ join' = [join EXCEPT !.i = @ + 1]
    /\ UNCHANGED <<mlist, reply, renamed>>

\* One iteration of the loop of ipcd_join.
JoinStep ==
    /\ join # NoJoin
    /\ join.i <= join.member_size
    /\ \/ JoinRefuse
       \/ JoinReplacePid
       \/ JoinRefuseFreed
       \/ JoinReplaceName
       \/ JoinSkip

\* The loop is done: the new member goes to the end, and JOIN_ACK is sent.
JoinEnd ==
    /\ join # NoJoin
    /\ join.i > join.member_size
    /\ mlist' = Append(mlist, NewMember(join.pid, join.pname))
    /\ reply' = [pid |-> join.pid, ok |-> TRUE]
    /\ join' = NoJoin
    /\ UNCHANGED renamed

\* EXIT and HANGUP: the member goes, with all it registered.
Exit(p) ==
    /\ Unlocked
    /\ mlist' = RemoveViaPid(mlist, p)
    /\ UNCHANGED <<join, reply, renamed>>

\* LIVE, and the first lines of API_CALL and MSG_SEND: the sender lives. These
\* three packets alone reset live_cnt and revive a suspended member.
Heard(p) ==
    /\ Unlocked
    /\ mlist' = UpdateViaPid(mlist, p, Revived)
    /\ UNCHANGED <<join, reply, renamed>>

RegisterApi(p, t) ==
    /\ Unlocked
    /\ mlist' = UpdateViaPid(mlist, p, LAMBDA m : WithApi(m, t))
    /\ UNCHANGED <<join, reply, renamed>>

RegisterMsg(p, t) ==
    /\ Unlocked
    /\ mlist' = UpdateViaPid(mlist, p, LAMBDA m : WithMsg(m, t))
    /\ UNCHANGED <<join, reply, renamed>>

\* The first entry with the name goes, in the first member that carries the pid
\* and has such an entry: the loop goes on to later members when one has none.
UnregisterApi(p, t) ==
    /\ Unlocked
    /\ mlist' = UpdateFirstOf(mlist,
                    {k \in WithPid(mlist, p) : t \in Range(mlist[k].api_list)},
                    LAMBDA m : WithoutApi(m, t))
    /\ UNCHANGED <<join, reply, renamed>>

UnregisterMsg(p, t) ==
    /\ Unlocked
    /\ mlist' = UpdateFirstOf(mlist,
                    {k \in WithPid(mlist, p) : t \in Range(mlist[k].pmsg_list)},
                    LAMBDA m : WithoutMsg(m, t))
    /\ UNCHANGED <<join, reply, renamed>>

\* live_cnt++ > IPC_LIVE_TIMEOUT_NUM suspends a member.
Aged(m) == [m EXCEPT !.live_cnt = IF @ < LiveCap THEN @ + 1 ELSE @,
                     !.suspend = @ \/ m.live_cnt > LiveTimeoutNum]

\* ipc_live_thread, every 300 ms.
LiveTick ==
    /\ Unlocked
    /\ mlist' = [k \in DOMAIN mlist |-> Aged(mlist[k])]
    /\ UNCHANGED <<join, reply, renamed>>

Next ==
    \/ \E r \in Requests : JoinBegin(r[1], r[2])
    \/ JoinStep
    \/ JoinEnd
    \/ \E p \in Pids : Exit(p) \/ Heard(p)
    \/ \E p \in Pids, t \in Topics :
          \/ RegisterApi(p, t)
          \/ RegisterMsg(p, t)
          \/ UnregisterApi(p, t)
          \/ UnregisterMsg(p, t)
    \/ LiveTick

Spec == Init /\ [][Next]_vars
-----------------------------------------------------------------------------
\* Every entry of the member list and every local of ipcd_join keep their types.
TypeOK ==
    /\ mlist \in Seq(Member)
    /\ join \in JoinState \cup {NoJoin}
    /\ reply \in Reply \cup {NoReply}
    /\ renamed \in BOOLEAN

\* Members are looked up by pid, up to the first match (ipcd_get_mlist_via_pid):
\* no two entries ever carry the same pid.
UniquePids == \A k, l \in DOMAIN mlist : mlist[k].pid = mlist[l].pid => k = l

\* An api call goes to every active member of the called name
\* (_ipcd_api_probe), and its walk steps over the member after a suspended one
\* of that name: no two entries ever carry the same name.
UniqueNames ==
    \A k, l \in DOMAIN mlist : mlist[k].pname = mlist[l].pname => k = l

\* What the lookups by pid and by name rely on. ipcd_join does not look at the
\* entry that moves up when it removes one, and all goes well only because this
\* entry cannot match any more; it can as soon as a pid has asked for a name
\* while it was listed under another one.
UniqueIds == ~renamed => UniquePids /\ UniqueNames

\* What makes it inductive. Who joins is listed, if at all, under the name it
\* asks for, ...
JoinerKeepsName ==
    join # NoJoin =>
        \A k \in DOMAIN mlist :
            mlist[k].pid = join.pid => mlist[k].pname = join.pname

\* ... and the entries that ipcd_join has walked past have another pid and
\* another name than the one that joins.
JoinScanned ==
    join # NoJoin =>
        /\ Len(mlist) <= join.member_size
        /\ \A k \in DOMAIN mlist :
              k < join.i => /\ mlist[k].pid # join.pid
                            /\ mlist[k].pname # join.pname

OrderlyIds == UniquePids /\ UniqueNames /\ JoinerKeepsName /\ JoinScanned

IdsInv == TypeOK /\ (~renamed => OrderlyIds)

\* ipcd_unregister_api and ipcd_unregister_msg delete one entry only: no list
\* ever holds a name twice, else a name would stay callable once unregistered.
RegisteredOnce ==
    \A k \in DOMAIN mlist : /\ IsInjective(mlist[k].api_list)
                            /\ IsInjective(mlist[k].pmsg_list)

\* A member is only ever suspended after more than LiveTimeoutNum + 1 ticks of
\* ipc_live_thread without one of the three packets that count as a sign of
\* life: LIVE, API_CALL and MSG_SEND (Heard). Other packets do not reset
\* live_cnt, so registering, logging or reporting the end of a handler keeps
\* nobody from being suspended.
SuspendedWasSilent ==
    \A k \in DOMAIN mlist : mlist[k].suspend => mlist[k].live_cnt = LiveCap

\* The member list holds pid p under name n, not suspended.
ActiveAs(p, n) == \E k \in DOMAIN mlist : /\ mlist[k].pid = p
                                          /\ mlist[k].pname = n
                                          /\ ~mlist[k].suspend

\* A member that is not suspended is never driven out: whatever joins, it stays
\* until its own EXIT or HANGUP, or until the live thread suspends it.
ActiveIsKept ==
    [][~renamed =>
        \A p \in Pids, n \in Names :
            ActiveAs(p, n) => ActiveAs(p, n)' \/ Exit(p) \/ LiveTick]_vars

\* The answer to a JOIN tells the truth: JOIN_ACK is sent when the pid is listed
\* under the name it asked for, active and with nothing registered yet.
\* JOIN_ACK_FAIL is sent when an active member holds the pid or the name, or
\* when the suspended entry of the pid was removed for it and misread then: but
\* then nothing is left that could refuse the next JOIN.
JoinAnswerIsTrue ==
    [][~renamed /\ join # NoJoin /\ join' = NoJoin =>
          LET p == join.pid
              n == join.pname
              Matching(ml) == {k \in DOMAIN ml : ml[k].pid = p \/ ml[k].pname = n}
          IN  IF reply'.ok
                THEN /\ Cardinality(WithPid(mlist', p)) = 1
                     /\ \A k \in DOMAIN mlist' :
                           mlist'[k].pname = n => mlist'[k] = NewMember(p, n)
                ELSE \/ \E k \in Matching(mlist) : ~mlist[k].suspend
                     \/ Matching(mlist) # {} /\ Matching(mlist') = {}]_vars

=============================================================================
