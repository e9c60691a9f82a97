--------------------------- MODULE RegistryProofs ---------------------------
(***************************************************************************)
(* What is proved of Registry for all pids, names, topics and timeouts:    *)
(* its types, that no member has a name registered twice, that who is      *)
(* suspended was silent, and, until a pid asks for a name while it is      *)
(* listed under another one, that no pid and no name is listed twice, an   *)
(* active member is kept and the answers to joins are true.                *)
(***************************************************************************)
EXTENDS Registry, DataLemmas, FiniteSetTheorems

-----------------------------------------------------------------------------
(* Operators on the member list *)

LEMMA MembersOfList ==
    ASSUME NEW ml \in Seq(Member)
    PROVE  /\ Len(ml) \in Nat
           /\ DOMAIN ml = 1..Len(ml)
           /\ \A k \in DOMAIN ml : ml[k] \in Member
BY LenProperties

LEMMA RemoveFirstOfProperties ==
    ASSUME NEW ml \in Seq(Member), NEW S \in SUBSET DOMAIN ml, S # {}
    PROVE  /\ RemoveFirstOf(ml, S) \in Seq(Member)
           /\ Len(RemoveFirstOf(ml, S)) = Len(ml) - 1
           /\ \E i \in S : \A k \in 1..(Len(ml) - 1) :
                 RemoveFirstOf(ml, S)[k] = IF k < i THEN ml[k] ELSE ml[k + 1]
<1>1. DOMAIN ml = 1..Len(ml) /\ Len(ml) \in Nat
  BY MembersOfList
<1>2. S \in SUBSET Nat
  BY <1>1
<1>3. Min(S) \in S
  BY <1>2, MinProperties
<1>4. Min(S) \in 1..Len(ml)
  BY <1>1, <1>3
<1>5. RemoveFirstOf(ml, S) = RemoveAt(ml, Min(S))
  BY DEF RemoveFirstOf
<1>6. /\ RemoveAt(ml, Min(S)) \in Seq(Member)
      /\ Len(RemoveAt(ml, Min(S))) = Len(ml) - 1
      /\ \A k \in 1..(Len(ml) - 1) :
            RemoveAt(ml, Min(S))[k] = IF k < Min(S) THEN ml[k] ELSE ml[k + 1]
  BY <1>4, DeleteProperties
<1>. QED  BY <1>3, <1>5, <1>6

LEMMA RemoveViaPidType ==
    ASSUME NEW ml \in Seq(Member), NEW p
    PROVE  RemoveViaPid(ml, p) \in Seq(Member)
<1>1. WithPid(ml, p) \in SUBSET DOMAIN ml
  BY DEF WithPid
<1>2. CASE WithPid(ml, p) = {}
  BY <1>2 DEF RemoveViaPid, RemoveFirstOf
<1>3. CASE WithPid(ml, p) # {}
  BY <1>1, <1>3, RemoveFirstOfProperties DEF RemoveViaPid
<1>. QED  BY <1>2, <1>3

LEMMA AttachNewType ==
    ASSUME NEW list \in Seq(Topics), NEW t \in Topics
    PROVE  AttachNew(list, t) \in Seq(Topics)
BY AppendProperties DEF AttachNew

LEMMA RemoveFirstType ==
    ASSUME NEW list \in Seq(Topics), NEW t \in Topics
    PROVE  RemoveFirst(list, t) \in Seq(Topics)
<1>. DEFINE I == {k \in 1..Len(list) : list[k] = t}
<1>0. Len(list) \in Nat
  BY LenProperties
<1>1. CASE I = {}
  BY <1>1 DEF RemoveFirst
<1>2. CASE I # {}
  <2>1. I \in SUBSET Nat
    BY <1>0
  <2>2. Min(I) \in I
    BY <1>2, <2>1, MinProperties
  <2>3. RemoveFirst(list, t) = RemoveAt(list, Min(I))
    BY <1>2 DEF RemoveFirst, SelectInSeq
  <2>. QED  BY <2>2, <2>3, DeleteProperties
<1>. QED  BY <1>1, <1>2

-----------------------------------------------------------------------------
(* Types *)

\* mlist keeps its type when each entry is left alone or replaced by a member.
LEMMA PointwiseType ==
    ASSUME NEW ml \in Seq(Member), NEW new,
           DOMAIN new = DOMAIN ml,
           new = [k \in DOMAIN ml |-> new[k]],
           \A k \in DOMAIN ml : new[k] \in Member
    PROVE  new \in Seq(Member)
<1>1. Len(ml) \in Nat /\ DOMAIN ml = 1..Len(ml)
  BY MembersOfList
<1>2. new \in [1..Len(ml) -> Member]
  BY <1>1
<1>. QED  BY <1>1, <1>2, SeqDef

\* What a sign of life and the live thread make of a member is a member.
LEMMA HeardMemberType ==
    ASSUME NEW m \in Member
    PROVE  Revived(m) \in Member /\ Aged(m) \in Member
<1>1. 0 \in 0..LiveCap
  BY LiveTimeoutAssumption DEF LiveCap
<1>2. (IF m.live_cnt < LiveCap THEN m.live_cnt + 1 ELSE m.live_cnt) \in 0..LiveCap
  BY LiveTimeoutAssumption DEF LiveCap, Member
<1>3. (m.suspend \/ m.live_cnt > LiveTimeoutNum) \in BOOLEAN
  OBVIOUS
<1>4. Revived(m) \in Member
  BY <1>1, Zenon DEF Revived, Member
<1>5. Aged(m) \in Member
  BY <1>2, <1>3, Zenon DEF Aged, Member
<1>. QED  BY <1>4, <1>5

\* What registrations and their withdrawal make of a member is a member.
LEMMA RegisteredMemberType ==
    ASSUME NEW m \in Member, NEW t \in Topics
    PROVE  /\ WithApi(m, t) \in Member
           /\ WithMsg(m, t) \in Member
           /\ WithoutApi(m, t) \in Member
           /\ WithoutMsg(m, t) \in Member
<1>0. m.pmsg_list \in Seq(Topics) /\ m.api_list \in Seq(Topics)
  BY DEF Member
<1>1. WithApi(m, t) \in Member /\ WithMsg(m, t) \in Member
  BY <1>0, AttachNewType DEF WithApi, WithMsg, Member
<1>2. WithoutApi(m, t) \in Member /\ WithoutMsg(m, t) \in Member
  BY <1>0, RemoveFirstType DEF WithoutApi, WithoutMsg, Member
<1>. QED  BY <1>1, <1>2

LEMMA TypeInit == Init => TypeOK
BY EmptySeq DEF Init, TypeOK

LEMMA TypeNext == TypeOK /\ [Next]_vars => TypeOK'
<1>. SUFFICES ASSUME TypeOK, [Next]_vars
              PROVE  TypeOK'
  OBVIOUS
<1>. USE RequestsAssumption, LiveTimeoutAssumption, NoJoinAssumption
<1>0. /\ mlist \in Seq(Member)
      /\ Len(mlist) \in Nat
      /\ DOMAIN mlist = 1..Len(mlist)
      /\ \A k \in DOMAIN mlist : mlist[k] \in Member
      /\ join \in JoinState \cup {NoJoin}
      /\ reply \in Reply \cup {NoReply}
      /\ renamed \in BOOLEAN
  BY MembersOfList DEF TypeOK
<1>1. ASSUME NEW r \in Requests, JoinBegin(r[1], r[2])
      PROVE  TypeOK'
  <2>1. renamed' \in BOOLEAN
    BY <1>1 DEF JoinBegin
  <2>. QED  BY <1>0, <1>1, <2>1 DEF JoinBegin, TypeOK, JoinState
<1>2. ASSUME JoinStep
      PROVE  TypeOK'
  <2>0. join \in JoinState
    BY <1>0, <1>2 DEF JoinStep
  <2>1. CASE JoinRefuse
    BY <1>0, <2>0, <2>1 DEF JoinRefuse, TypeOK, JoinState, Reply
  <2>2. CASE JoinReplacePid
    BY <1>0, <2>0, <2>2, RemoveViaPidType DEF JoinReplacePid, TypeOK, JoinState
  <2>3. CASE JoinReplaceName
    BY <1>0, <2>0, <2>3, RemoveViaPidType DEF JoinReplaceName, TypeOK, JoinState
  <2>5. CASE JoinRefuseFreed
    BY <1>0, <2>0, <2>5, RemoveViaPidType DEF JoinRefuseFreed, TypeOK, JoinState, Reply
  <2>4. CASE JoinSkip
    BY <1>0, <2>0, <2>4 DEF JoinSkip, TypeOK, JoinState
  <2>. QED  BY <1>2, <2>1, <2>2, <2>3, <2>4, <2>5 DEF JoinStep
<1>3. ASSUME JoinEnd
      PROVE  TypeOK'
  <2>0. join \in JoinState
    BY <1>0, <1>3 DEF JoinEnd
  <2>1. NewMember(join.pid, join.pname) \in Member
    BY <2>0, EmptySeq DEF NewMember, Member, JoinState, LiveCap
  <2>2. Append(mlist, NewMember(join.pid, join.pname)) \in Seq(Member)
    BY <1>0, <2>1, AppendProperties
  <2>. QED  BY <1>0, <1>3, <2>0, <2>2 DEF JoinEnd, TypeOK, Reply, JoinState
<1>4. ASSUME NEW p \in Pids, Exit(p)
      PROVE  TypeOK'
  BY <1>0, <1>4, RemoveViaPidType DEF Exit, TypeOK
<1>5. ASSUME NEW p \in Pids, Heard(p)
      PROVE  TypeOK'
  <2>1. \A k \in DOMAIN mlist : mlist'[k] \in Member
    BY <1>0, <1>5, HeardMemberType DEF Heard, UpdateViaPid, UpdateFirstOf
  <2>2. DOMAIN mlist' = DOMAIN mlist /\ mlist' = [k \in DOMAIN mlist |-> mlist'[k]]
    BY <1>5 DEF Heard, UpdateViaPid, UpdateFirstOf
  <2>. QED  BY <1>0, <1>5, <2>1, <2>2, PointwiseType DEF Heard, TypeOK
<1>6. ASSUME NEW p \in Pids, NEW t \in Topics,
             RegisterApi(p, t) \/ RegisterMsg(p, t)
      PROVE  TypeOK'
  <2>1. \A k \in DOMAIN mlist : mlist'[k] \in Member
    BY <1>0, <1>6, RegisteredMemberType
       DEF RegisterApi, RegisterMsg, UpdateViaPid, UpdateFirstOf
  <2>2. DOMAIN mlist' = DOMAIN mlist /\ mlist' = [k \in DOMAIN mlist |-> mlist'[k]]
    BY <1>6 DEF RegisterApi, RegisterMsg, UpdateViaPid, UpdateFirstOf
  <2>. QED  BY <1>0, <1>6, <2>1, <2>2, PointwiseType
            DEF RegisterApi, RegisterMsg, TypeOK
<1>7. ASSUME NEW p \in Pids, NEW t \in Topics,
             UnregisterApi(p, t) \/ UnregisterMsg(p, t)
      PROVE  TypeOK'
  <2>1. \A k \in DOMAIN mlist : \/ mlist'[k] = mlist[k]
                                 \/ mlist'[k] = WithoutApi(mlist[k], t)
                                 \/ mlist'[k] = WithoutMsg(mlist[k], t)
    <3>1. CASE UnregisterApi(p, t)
      BY <3>1 DEF UnregisterApi, UpdateFirstOf
    <3>2. CASE UnregisterMsg(p, t)
      BY <3>2 DEF UnregisterMsg, UpdateFirstOf
    <3>. QED  BY <1>7, <3>1, <3>2
  <2>2. DOMAIN mlist' = DOMAIN mlist /\ mlist' = [k \in DOMAIN mlist |-> mlist'[k]]
    BY <1>7 DEF UnregisterApi, UnregisterMsg, UpdateFirstOf
  <2>3. \A k \in DOMAIN mlist : mlist'[k] \in Member
    BY <1>0, <2>1, RegisteredMemberType
  <2>. QED  BY <1>0, <1>7, <2>3, <2>2, PointwiseType
            DEF UnregisterApi, UnregisterMsg, TypeOK
<1>8. ASSUME LiveTick
      PROVE  TypeOK'
  <2>1. \A k \in DOMAIN mlist : mlist'[k] \in Member
    BY <1>0, <1>8, HeardMemberType DEF LiveTick
  <2>2. DOMAIN mlist' = DOMAIN mlist /\ mlist' = [k \in DOMAIN mlist |-> mlist'[k]]
    BY <1>8 DEF LiveTick
  <2>. QED  BY <1>0, <1>8, <2>1, <2>2, PointwiseType DEF LiveTick, TypeOK
<1>9. CASE UNCHANGED vars
  BY <1>9 DEF vars, TypeOK
<1>. QED  BY <1>1, <1>2, <1>3, <1>4, <1>5, <1>6, <1>7, <1>8, <1>9 DEF Next

\* Every entry of the member list keeps its type.
THEOREM TypeCorrect == Spec => []TypeOK
BY TypeInit, TypeNext, PTL DEF Spec
-----------------------------------------------------------------------------
(* No pid and no name is listed twice *)

\* Removing by pid from a list without repeated pids: what is left are entries
\* of the list, in their order and at most one place further up, none with the
\* pid; and every entry with another pid is left.
LEMMA RemoveViaPidProperties ==
    ASSUME NEW ml \in Seq(Member), NEW p,
           \A k, l \in DOMAIN ml : ml[k].pid = ml[l].pid => k = l
    PROVE  LET r == RemoveViaPid(ml, p) IN
           /\ r \in Seq(Member)
           /\ Len(r) <= Len(ml)
           /\ \A k \in DOMAIN r : r[k].pid # p
           /\ \E f \in [DOMAIN r -> DOMAIN ml] :
                 \A k \in DOMAIN r : /\ r[k] = ml[f[k]]
                                     /\ k <= f[k]
                                     /\ \A l \in DOMAIN r : f[k] = f[l] => k = l
           /\ \A j \in DOMAIN ml : ml[j].pid # p => \E k \in DOMAIN r : r[k] = ml[j]
<1>. DEFINE r == RemoveViaPid(ml, p)
<1>0. /\ Len(ml) \in Nat
      /\ DOMAIN ml = 1..Len(ml)
      /\ \A k \in DOMAIN ml : ml[k] \in Member
  BY MembersOfList
<1>1. r \in Seq(Member)
  BY RemoveViaPidType
<1>2. DOMAIN r = 1..Len(r) /\ Len(r) \in Nat
  BY <1>1, LenProperties
<1>3. CASE WithPid(ml, p) = {}
  <2>1. r = ml
    BY <1>3 DEF RemoveViaPid, RemoveFirstOf
  <2>2. \A k \in DOMAIN ml : ml[k].pid # p
    BY <1>3 DEF WithPid
  <2>3. [k \in DOMAIN ml |-> k] \in [DOMAIN ml -> DOMAIN ml]
    OBVIOUS
  <2>4. \A k \in DOMAIN ml : /\ ml[k] = ml[[l \in DOMAIN ml |-> l][k]]
                             /\ k <= [l \in DOMAIN ml |-> l][k]
    BY <1>0
  <2>5. \A k, l \in DOMAIN ml :
           [j \in DOMAIN ml |-> j][k] = [j \in DOMAIN ml |-> j][l] => k = l
    OBVIOUS
  <2>6. \E f \in [DOMAIN ml -> DOMAIN ml] :
           \A k \in DOMAIN ml : /\ ml[k] = ml[f[k]]
                                /\ k <= f[k]
                                /\ \A l \in DOMAIN ml : f[k] = f[l] => k = l
    BY <2>3, <2>4, <2>5
  <2>. QED  BY <1>0, <2>1, <2>2, <2>6
<1>4. CASE WithPid(ml, p) # {}
  <2>. DEFINE S == WithPid(ml, p)
  <2>1. S \in SUBSET DOMAIN ml
    BY DEF WithPid
  <2>2. PICK i \in S : \A k \in 1..(Len(ml) - 1) :
                          r[k] = IF k < i THEN ml[k] ELSE ml[k + 1]
    BY <1>4, <2>1, RemoveFirstOfProperties DEF RemoveViaPid
  <2>3. Len(r) = Len(ml) - 1
    BY <1>4, <2>1, RemoveFirstOfProperties DEF RemoveViaPid
  <2>4. i \in 1..Len(ml) /\ ml[i].pid = p
    BY <1>0, <2>1, <2>2 DEF WithPid
  <2>. DEFINE f == [k \in DOMAIN r |-> IF k < i THEN k ELSE k + 1]
  <2>. HIDE DEF r, S
  <2>5. \A k \in DOMAIN r : /\ f[k] \in DOMAIN ml
                            /\ f[k] # i
                            /\ r[k] = ml[f[k]]
                            /\ k <= f[k]
    BY <1>0, <1>2, <2>2, <2>3, <2>4
  <2>6. f \in [DOMAIN r -> DOMAIN ml]
    BY <2>5
  <2>7. \A k, l \in DOMAIN r : f[k] = f[l] => k = l
    BY <1>2, <2>3, <2>4
  <2>8. \A k \in DOMAIN r : r[k].pid # p
    BY <1>0, <2>4, <2>5
  <2>9. ASSUME NEW j \in DOMAIN ml, ml[j].pid # p
        PROVE  \E k \in DOMAIN r : r[k] = ml[j]
    <3>1. CASE j < i
      BY <1>0, <1>2, <2>2, <2>3, <2>4, <3>1
    <3>2. CASE j > i
      <4>1. j - 1 \in DOMAIN r /\ r[j - 1] = ml[j]
        BY <1>0, <1>2, <2>2, <2>3, <2>4, <3>2
      <4>. QED  BY <4>1
    <3>. QED  BY <1>0, <2>4, <2>9, <3>1, <3>2
  <2>10. \E g \in [DOMAIN r -> DOMAIN ml] :
            \A k \in DOMAIN r : /\ r[k] = ml[g[k]]
                                /\ k <= g[k]
                                /\ \A l \in DOMAIN r : g[k] = g[l] => k = l
    <3>. HIDE DEF f
    <3>. WITNESS f \in [DOMAIN r -> DOMAIN ml]
    <3>. QED  BY <2>5, <2>7
  <2>11. Len(r) <= Len(ml)
    BY <1>0, <2>3
  <2>. QED  BY <1>1, <2>8, <2>9, <2>10, <2>11 DEF r
<1>. QED  BY <1>3, <1>4

\* Removing by pid keeps pids and names distinct.
LEMMA RemovalKeepsIds ==
    ASSUME NEW p, mlist' = RemoveViaPid(mlist, p), TypeOK, UniquePids, UniqueNames
    PROVE  UniquePids' /\ UniqueNames'
<1>1. mlist \in Seq(Member) /\ \A k, l \in DOMAIN mlist : mlist[k].pid = mlist[l].pid => k = l
  BY DEF TypeOK, UniquePids
<1>2. PICK f \in [DOMAIN mlist' -> DOMAIN mlist] :
         \A k \in DOMAIN mlist' :
            /\ mlist'[k] = mlist[f[k]]
            /\ \A l \in DOMAIN mlist' : f[k] = f[l] => k = l
  BY <1>1, RemoveViaPidProperties
<1>. QED  BY <1>2 DEF UniquePids, UniqueNames

\* A step that changes neither pids, names nor their places keeps the invariant.
LEMMA SameIdsKeepInv ==
    ASSUME IdsInv, TypeOK', Unlocked, join' = join, renamed' = renamed,
           DOMAIN mlist' = DOMAIN mlist,
           \A k \in DOMAIN mlist : /\ mlist'[k].pid = mlist[k].pid
                                   /\ mlist'[k].pname = mlist[k].pname
    PROVE  IdsInv'
BY DEF IdsInv, OrderlyIds, UniquePids, UniqueNames, JoinerKeepsName, JoinScanned,
       Unlocked

LEMMA IdsInit == Init => IdsInv
BY TypeInit, NoJoinAssumption
   DEF Init, IdsInv, OrderlyIds, UniquePids, UniqueNames, JoinerKeepsName, JoinScanned

\* What a removal by ipcd_join leaves: entries of the list that match neither
\* the pid nor the name that joins, and all entries with another pid than the
\* removed one.
OthersAreLeft ==
    /\ mlist' \in Seq(Member)
    /\ Len(mlist') <= Len(mlist)
    /\ \A k \in DOMAIN mlist' : /\ mlist'[k].pid # join.pid
                                /\ mlist'[k].pname # join.pname
    /\ \A p : p # mlist[join.i].pid => (\A n : ActiveAs(p, n) => ActiveAs(p, n)')

\* Whichever of the outcomes of the stale read it is, ipcd_join removes the entry
\* it looks at and nothing else, and what is left cannot match any more.
LEMMA ReplacedIsAlone ==
    ASSUME TypeOK, OrderlyIds, JoinStep,
           JoinReplacePid \/ JoinReplaceName \/ JoinRefuseFreed
    PROVE  OthersAreLeft /\ UniquePids' /\ UniqueNames'
<1>. DEFINE gone == mlist[join.i]
            r == RemoveViaPid(mlist, gone.pid)
<1>0. /\ mlist \in Seq(Member)
      /\ DOMAIN mlist = 1..Len(mlist)
      /\ join # NoJoin
      /\ join \in JoinState
      /\ \A k, l \in DOMAIN mlist : mlist[k].pid = mlist[l].pid => k = l
      /\ \A k \in DOMAIN mlist : mlist[k].pid = join.pid => mlist[k].pname = join.pname
  BY MembersOfList DEF OrderlyIds, TypeOK, UniquePids, JoinerKeepsName, JoinStep
<1>1. /\ join.i \in DOMAIN mlist
      /\ gone.pid = join.pid \/ gone.pname = join.pname
  BY <1>0 DEF JoinReplacePid, JoinReplaceName, JoinRefuseFreed, SamePid, SameName, InRange,
              JoinState
<1>2. gone.pname = join.pname
  BY <1>0, <1>1
<1>. HIDE DEF gone
<1>3. PICK f \in [DOMAIN r -> DOMAIN mlist] :
         \A k \in DOMAIN r : /\ r[k] = mlist[f[k]]
                             /\ k <= f[k]
                             /\ \A l \in DOMAIN r : f[k] = f[l] => k = l
  BY <1>0, RemoveViaPidProperties, Zenon
<1>4. /\ r \in Seq(Member)
      /\ Len(r) <= Len(mlist)
      /\ \A k \in DOMAIN r : r[k].pid # gone.pid
      /\ \A j \in DOMAIN mlist : mlist[j].pid # gone.pid => \E k \in DOMAIN r : r[k] = mlist[j]
  BY <1>0, RemoveViaPidProperties
<1>5. mlist' = r
  <2>1. CASE JoinReplaceName
    BY <2>1 DEF JoinReplaceName, gone
  <2>2. CASE JoinReplacePid \/ JoinRefuseFreed
    <3>1. gone.pid = join.pid
      BY <2>2 DEF JoinReplacePid, JoinRefuseFreed, SamePid, gone
    <3>2. WithPid(r, join.pid) = {}
      BY <1>4, <3>1 DEF WithPid
    <3>3. RemoveViaPid(r, join.pid) = r
      BY <3>2 DEF RemoveViaPid, RemoveFirstOf
    <3>. QED  BY <2>2, <3>1, <3>3 DEF JoinReplacePid, JoinRefuseFreed
  <2>. QED  BY <2>1, <2>2
<1>. HIDE DEF r
<1>6. UniquePids' /\ UniqueNames'
  BY <1>5, RemovalKeepsIds DEF OrderlyIds, r
<1>7. ASSUME NEW k \in DOMAIN mlist'
      PROVE  mlist'[k].pid # join.pid /\ mlist'[k].pname # join.pname
  <2>1. f[k] \in DOMAIN mlist /\ mlist'[k] = mlist[f[k]]
    BY <1>3, <1>5
  <2>2. mlist[f[k]].pid # gone.pid
    BY <1>4, <1>5, <2>1
  <2>3. mlist[f[k]].pname # join.pname
    BY <1>1, <1>2, <2>1, <2>2 DEF OrderlyIds, UniqueNames, gone
  <2>. QED  BY <1>0, <2>1, <2>3
<1>8. ASSUME NEW p, NEW n, p # gone.pid, ActiveAs(p, n)
      PROVE  ActiveAs(p, n)'
  <2>1. PICK j \in DOMAIN mlist : mlist[j].pid = p /\ mlist[j].pname = n /\ ~mlist[j].suspend
    BY <1>8 DEF ActiveAs
  <2>2. \E k \in DOMAIN mlist' : mlist'[k] = mlist[j]
    BY <1>4, <1>5, <1>8, <2>1
  <2>. QED  BY <2>1, <2>2 DEF ActiveAs
<1>. QED  BY <1>4, <1>5, <1>6, <1>7, <1>8 DEF OthersAreLeft, gone

\* One iteration of ipcd_join keeps the invariant: whatever is removed has the
\* name that joins, so that nothing left in the list can match any more.
LEMMA IdsJoinStep ==
    ASSUME TypeOK, OrderlyIds, JoinStep
    PROVE  OrderlyIds'
<1>. USE NoJoinAssumption
<1>0. /\ mlist \in Seq(Member)
      /\ Len(mlist) \in Nat
      /\ DOMAIN mlist = 1..Len(mlist)
      /\ join \in JoinState
      /\ join.i \in Nat \ {0}
      /\ join.member_size \in Nat
      /\ Len(mlist) <= join.member_size
      /\ \A k, l \in DOMAIN mlist : mlist[k].pid = mlist[l].pid => k = l
      /\ \A k \in DOMAIN mlist : mlist[k].pid = join.pid => mlist[k].pname = join.pname
  BY MembersOfList
     DEF OrderlyIds, TypeOK, UniquePids, JoinerKeepsName, JoinScanned, JoinStep, JoinState
<1>1. CASE JoinRefuse
  BY <1>1
     DEF JoinRefuse, OrderlyIds, UniquePids, UniqueNames, JoinerKeepsName, JoinScanned
<1>2. CASE JoinSkip
  <2>1. join' = [join EXCEPT !.i = join.i + 1] /\ mlist' = mlist
    BY <1>2 DEF JoinSkip
  <2>2. join' \in JoinState /\ join'.i = join.i + 1 /\ join'.pid = join.pid
        /\ join'.pname = join.pname /\ join'.member_size = join.member_size
    BY <1>0, <2>1 DEF JoinState
  <2>3. \A k \in DOMAIN mlist : k < join'.i => /\ mlist[k].pid # join.pid
                                               /\ mlist[k].pname # join.pname
    <3>1. \A k \in DOMAIN mlist : k < join.i => /\ mlist[k].pid # join.pid
                                                /\ mlist[k].pname # join.pname
      BY <1>0 DEF OrderlyIds, JoinScanned, JoinStep
    <3>2. join.i \in DOMAIN mlist => /\ mlist[join.i].pid # join.pid
                                     /\ mlist[join.i].pname # join.pname
      BY <1>0, <1>2 DEF JoinSkip, SamePid, SameName, InRange
    <3>. QED  BY <1>0, <2>2, <3>1, <3>2
  <2>. QED  BY <1>0, <2>1, <2>2, <2>3
            DEF OrderlyIds, UniquePids, UniqueNames, JoinerKeepsName, JoinScanned
<1>3. ASSUME JoinReplacePid \/ JoinReplaceName \/ JoinRefuseFreed
      PROVE  OrderlyIds'
  <2>1. OthersAreLeft /\ UniquePids' /\ UniqueNames'
    BY <1>3, ReplacedIsAlone
  <2>2. CASE JoinRefuseFreed
    BY <2>1, <2>2 DEF JoinRefuseFreed, OrderlyIds, JoinerKeepsName, JoinScanned
  <2>3. CASE JoinReplacePid \/ JoinReplaceName
    <3>1. /\ join' \in JoinState
          /\ join'.pid = join.pid
          /\ join'.pname = join.pname
          /\ join'.member_size = join.member_size
      BY <1>0, <2>3 DEF JoinReplacePid, JoinReplaceName, JoinState
    <3>2. Len(mlist') <= join.member_size
      BY <1>0, <2>1, LenProperties DEF OthersAreLeft
    <3>. QED  BY <2>1, <3>1, <3>2 DEF OthersAreLeft, OrderlyIds, JoinerKeepsName, JoinScanned
  <2>. QED  BY <1>3, <2>2, <2>3
<1>. QED  BY <1>1, <1>2, <1>3 DEF JoinStep

\* A JOIN begins: if the list holds its pid, then under its name, or renamed is
\* set.
LEMMA IdsJoinBegin ==
    ASSUME IdsInv, TypeOK', NEW p \in Pids, NEW n \in Names, JoinBegin(p, n)
    PROVE  IdsInv'
<1>. SUFFICES ASSUME ~renamed'
              PROVE  OrderlyIds'
  BY DEF IdsInv
<1>1. ~renamed /\ ~Renames(p, n)
  BY DEF JoinBegin
<1>2. /\ mlist' = mlist
      /\ join' = [pid |-> p, pname |-> n, i |-> 1, member_size |-> Len(mlist)]
  BY DEF JoinBegin
<1>3. /\ Len(mlist) <= Len(mlist)
      /\ \A k \in DOMAIN mlist : ~ (k < 1)
  BY MembersOfList DEF IdsInv, TypeOK
<1>4. \A k \in DOMAIN mlist : mlist[k].pid = p => mlist[k].pname = n
  BY <1>1 DEF Renames, WithPid
<1>. QED  BY <1>1, <1>2, <1>3, <1>4
          DEF IdsInv, OrderlyIds, UniquePids, UniqueNames, JoinerKeepsName, JoinScanned

LEMMA IdsNext == IdsInv /\ [Next]_vars => IdsInv'
<1>. SUFFICES ASSUME IdsInv, [Next]_vars
              PROVE  IdsInv'
  OBVIOUS
<1>. USE NoJoinAssumption
<1>0. TypeOK'
  BY TypeNext DEF IdsInv
<1>1. ASSUME NEW r \in Requests, JoinBegin(r[1], r[2])
      PROVE  IdsInv'
  BY <1>0, <1>1, IdsJoinBegin, RequestsAssumption
<1>2. ASSUME JoinStep
      PROVE  IdsInv'
  <2>1. renamed' = renamed
    BY <1>2 DEF JoinStep, JoinRefuse, JoinReplacePid, JoinRefuseFreed, JoinReplaceName, JoinSkip
  <2>. QED  BY <1>0, <1>2, <2>1, IdsJoinStep DEF IdsInv
<1>3. ASSUME JoinEnd
      PROVE  IdsInv'
  <2>. DEFINE new == NewMember(join.pid, join.pname)
  <2>. SUFFICES ASSUME ~renamed
                PROVE  OrderlyIds'
    BY <1>0, <1>3 DEF IdsInv, JoinEnd
  <2>0. /\ mlist \in Seq(Member)
        /\ Len(mlist) \in Nat
        /\ DOMAIN mlist = 1..Len(mlist)
        /\ join \in JoinState
        /\ mlist' = Append(mlist, new)
        /\ join' = NoJoin
        /\ OrderlyIds
    BY <1>3, MembersOfList DEF IdsInv, TypeOK, JoinEnd
  <2>1. new \in Member
    BY <2>0, EmptySeq, LiveTimeoutAssumption DEF NewMember, Member, JoinState, LiveCap
  <2>2. /\ DOMAIN mlist' = 1..(Len(mlist) + 1)
        /\ \A k \in DOMAIN mlist : mlist'[k] = mlist[k]
        /\ mlist'[Len(mlist) + 1] = new
    BY <2>0, <2>1, AppendProperties, LenProperties
  <2>3. \A k \in DOMAIN mlist : /\ mlist[k].pid # new.pid
                                /\ mlist[k].pname # new.pname
    BY <1>3, <2>0 DEF OrderlyIds, JoinScanned, JoinEnd, JoinState, NewMember
  <2>. HIDE DEF new
  <2>5. UniquePids' /\ UniqueNames'
    BY <2>0, <2>2, <2>3 DEF OrderlyIds, UniquePids, UniqueNames
  <2>. QED  BY <2>0, <2>5 DEF OrderlyIds, JoinerKeepsName, JoinScanned
<1>4. ASSUME NEW p \in Pids, Exit(p)
      PROVE  IdsInv'
  <2>1. renamed' = renamed /\ join = NoJoin /\ join' = NoJoin
    BY <1>4 DEF Exit, Unlocked
  <2>2. ~renamed => UniquePids' /\ UniqueNames'
    BY <1>4, RemovalKeepsIds DEF Exit, IdsInv, OrderlyIds
  <2>. QED  BY <1>0, <2>1, <2>2 DEF IdsInv, OrderlyIds, JoinerKeepsName, JoinScanned
<1>5. ASSUME NEW p \in Pids, Heard(p)
      PROVE  IdsInv'
  <2>1. \A k \in DOMAIN mlist : /\ Revived(mlist[k]).pid = mlist[k].pid
                                /\ Revived(mlist[k]).pname = mlist[k].pname
    BY MembersOfList DEF IdsInv, TypeOK, Revived, Member
  <2>. QED  BY <1>0, <1>5, <2>1, SameIdsKeepInv
            DEF Heard, UpdateViaPid, UpdateFirstOf
<1>6. ASSUME NEW p \in Pids, NEW t \in Topics,
             \/ RegisterApi(p, t)   \/ RegisterMsg(p, t)
             \/ UnregisterApi(p, t) \/ UnregisterMsg(p, t)
      PROVE  IdsInv'
  <2>0. \A k \in DOMAIN mlist : mlist[k] \in Member
    BY MembersOfList DEF IdsInv, TypeOK
  <2>1. \A k \in DOMAIN mlist :
           \/ mlist'[k] = mlist[k]
           \/ mlist'[k] = WithApi(mlist[k], t)
           \/ mlist'[k] = WithMsg(mlist[k], t)
           \/ mlist'[k] = WithoutApi(mlist[k], t)
           \/ mlist'[k] = WithoutMsg(mlist[k], t)
    <3>1. CASE RegisterApi(p, t)
      BY <3>1 DEF RegisterApi, UpdateViaPid, UpdateFirstOf
    <3>2. CASE RegisterMsg(p, t)
      BY <3>2 DEF RegisterMsg, UpdateViaPid, UpdateFirstOf
    <3>3. CASE UnregisterApi(p, t)
      BY <3>3 DEF UnregisterApi, UpdateFirstOf
    <3>4. CASE UnregisterMsg(p, t)
      BY <3>4 DEF UnregisterMsg, UpdateFirstOf
    <3>. QED  BY <1>6, <3>1, <3>2, <3>3, <3>4
  <2>2. \A k \in DOMAIN mlist : /\ mlist'[k].pid = mlist[k].pid
                                /\ mlist'[k].pname = mlist[k].pname
    BY <2>0, <2>1 DEF WithApi, WithMsg, WithoutApi, WithoutMsg, Member
  <2>3. DOMAIN mlist' = DOMAIN mlist
    BY <1>6 DEF RegisterApi, RegisterMsg, UnregisterApi, UnregisterMsg,
                UpdateViaPid, UpdateFirstOf
  <2>4. Unlocked /\ join' = join /\ renamed' = renamed
    BY <1>6 DEF RegisterApi, RegisterMsg, UnregisterApi, UnregisterMsg
  <2>. QED  BY <1>0, <2>2, <2>3, <2>4, SameIdsKeepInv
<1>7. ASSUME LiveTick
      PROVE  IdsInv'
  <2>1. \A k \in DOMAIN mlist : /\ Aged(mlist[k]).pid = mlist[k].pid
                                /\ Aged(mlist[k]).pname = mlist[k].pname
    BY MembersOfList DEF IdsInv, TypeOK, Aged, Member
  <2>. QED  BY <1>0, <1>7, <2>1, SameIdsKeepInv DEF LiveTick
<1>8. CASE UNCHANGED vars
  BY <1>0, <1>8
     DEF vars, IdsInv, OrderlyIds, UniquePids, UniqueNames, JoinerKeepsName, JoinScanned
<1>. QED  BY <1>1, <1>2, <1>3, <1>4, <1>5, <1>6, <1>7, <1>8 DEF Next

\* However joins, exits, suspensions and returning pids follow on each other, no
\* pid and no name is listed twice until a pid asks for a name while it is
\* listed under another one.
THEOREM NoPidOrNameTwice == Spec => []UniqueIds
<1>1. IdsInv => UniqueIds
  BY DEF IdsInv, OrderlyIds, UniqueIds
<1>. QED  BY <1>1, IdsInit, IdsNext, PTL DEF Spec

-----------------------------------------------------------------------------
(* An active member is kept *)

\* Removing by pid keeps the active members that have another pid.
LEMMA RemovalKeepsOthers ==
    ASSUME TypeOK, UniquePids, NEW q, mlist' = RemoveViaPid(mlist, q),
           NEW p, NEW n, ActiveAs(p, n), p # q
    PROVE  ActiveAs(p, n)'
<1>1. mlist \in Seq(Member) /\ \A k, l \in DOMAIN mlist : mlist[k].pid = mlist[l].pid => k = l
  BY DEF TypeOK, UniquePids
<1>2. PICK j \in DOMAIN mlist : mlist[j].pid = p /\ mlist[j].pname = n /\ ~mlist[j].suspend
  BY DEF ActiveAs
<1>3. \E k \in DOMAIN mlist' : mlist'[k] = mlist[j]
  BY <1>1, <1>2, RemoveViaPidProperties
<1>. QED  BY <1>2, <1>3 DEF ActiveAs

LEMMA ActiveNext ==
    ASSUME TypeOK, OrderlyIds, [Next]_vars, NEW p \in Pids, NEW n \in Names,
           ActiveAs(p, n)
    PROVE  ActiveAs(p, n)' \/ Exit(p) \/ LiveTick
<1>0. PICK j \in DOMAIN mlist : mlist[j].pid = p /\ mlist[j].pname = n /\ ~mlist[j].suspend
  BY DEF ActiveAs
<1>. DEFINE Kept == j \in DOMAIN mlist' /\ mlist'[j].pid = p /\ mlist'[j].pname = n
                    /\ ~mlist'[j].suspend
<1>1. Kept => ActiveAs(p, n)'
  BY DEF ActiveAs
<1>2. \A k \in DOMAIN mlist : mlist[k] \in Member
  BY MembersOfList DEF TypeOK
<1>3. CASE UNCHANGED mlist
  BY <1>0, <1>1, <1>3
<1>4. ASSUME JoinReplacePid \/ JoinReplaceName \/ JoinRefuseFreed, JoinStep
      PROVE  ActiveAs(p, n)'
  <2>1. /\ join.i \in DOMAIN mlist
        /\ mlist[join.i].suspend
    <3>1. join \in JoinState
      BY <1>4 DEF JoinStep, TypeOK
    <3>. QED  BY <1>4, <3>1, MembersOfList
              DEF JoinReplacePid, JoinReplaceName, JoinRefuseFreed, SamePid, SameName,
                  InRange, JoinState, TypeOK
  <2>2. p # mlist[join.i].pid
    BY <1>0, <2>1 DEF OrderlyIds, UniquePids
  <2>3. OthersAreLeft
    BY <1>4, ReplacedIsAlone
  <2>. QED  BY <2>2, <2>3 DEF OthersAreLeft
<1>5. ASSUME JoinEnd
      PROVE  ActiveAs(p, n)'
  <2>. DEFINE new == NewMember(join.pid, join.pname)
  <2>0. mlist \in Seq(Member) /\ join \in JoinState
    BY <1>5 DEF JoinEnd, TypeOK
  <2>1. new \in Member
    BY <2>0, EmptySeq, LiveTimeoutAssumption DEF NewMember, Member, JoinState, LiveCap
  <2>2. mlist' = Append(mlist, new)
    BY <1>5 DEF JoinEnd
  <2>. HIDE DEF new
  <2>3. j \in DOMAIN mlist' /\ mlist'[j] = mlist[j]
    BY <1>0, <2>0, <2>1, <2>2, AppendProperties, LenProperties, MembersOfList
  <2>. QED  BY <1>0, <1>1, <2>3
<1>6. ASSUME NEW q \in Pids, Exit(q), q # p
      PROVE  ActiveAs(p, n)'
  BY <1>6, RemovalKeepsOthers DEF Exit, OrderlyIds
<1>7. ASSUME NEW q \in Pids, Heard(q)
      PROVE  ActiveAs(p, n)'
  <2>1. mlist'[j] = mlist[j] \/ mlist'[j] = Revived(mlist[j])
    BY <1>0, <1>7 DEF Heard, UpdateViaPid, UpdateFirstOf
  <2>2. j \in DOMAIN mlist'
    BY <1>0, <1>7 DEF Heard, UpdateViaPid, UpdateFirstOf
  <2>. QED  BY <1>0, <1>1, <1>2, <2>1, <2>2 DEF Revived, Member
<1>8. ASSUME NEW q \in Pids, NEW t \in Topics,
             \/ RegisterApi(q, t)   \/ RegisterMsg(q, t)
             \/ UnregisterApi(q, t) \/ UnregisterMsg(q, t)
      PROVE  ActiveAs(p, n)'
  <2>1. \/ mlist'[j] = mlist[j]
        \/ mlist'[j] = WithApi(mlist[j], t)
        \/ mlist'[j] = WithMsg(mlist[j], t)
        \/ mlist'[j] = WithoutApi(mlist[j], t)
        \/ mlist'[j] = WithoutMsg(mlist[j], t)
    <3>1. CASE RegisterApi(q, t)
      BY <1>0, <3>1 DEF RegisterApi, UpdateViaPid, UpdateFirstOf
    <3>2. CASE RegisterMsg(q, t)
      BY <1>0, <3>2 DEF RegisterMsg, UpdateViaPid, UpdateFirstOf
    <3>3. CASE UnregisterApi(q, t)
      BY <1>0, <3>3 DEF UnregisterApi, UpdateFirstOf
    <3>4. CASE UnregisterMsg(q, t)
      BY <1>0, <3>4 DEF UnregisterMsg, UpdateFirstOf
    <3>. QED  BY <1>8, <3>1, <3>2, <3>3, <3>4
  <2>2. j \in DOMAIN mlist'
    BY <1>0, <1>8 DEF RegisterApi, RegisterMsg, UnregisterApi, UnregisterMsg,
                      UpdateViaPid, UpdateFirstOf
  <2>3. mlist'[j].pid = mlist[j].pid /\ mlist'[j].pname = mlist[j].pname
        /\ mlist'[j].suspend = mlist[j].suspend
    BY <1>0, <1>2, <2>1 DEF WithApi, WithMsg, WithoutApi, WithoutMsg, Member
  <2>. QED  BY <1>0, <1>1, <2>2, <2>3
<1>9. CASE JoinStep
  BY <1>3, <1>4, <1>9 DEF JoinStep, JoinRefuse, JoinSkip
<1>10. CASE \E r \in Requests : JoinBegin(r[1], r[2])
  BY <1>3, <1>10 DEF JoinBegin
<1>11. CASE UNCHANGED vars
  BY <1>3, <1>11 DEF vars
<1>. QED  BY <1>5, <1>6, <1>7, <1>8, <1>9, <1>10, <1>11 DEF Next

\* Until a pid asks for a name while it is listed under another one, no join ever
\* drives an active member out: it goes by its own EXIT or HANGUP, or after the
\* live thread has suspended it.
THEOREM ActiveMemberIsKept == Spec => ActiveIsKept
<1>1. IdsInv /\ [Next]_vars =>
        [~renamed =>
            \A p \in Pids, n \in Names :
                ActiveAs(p, n) => ActiveAs(p, n)' \/ Exit(p) \/ LiveTick]_vars
  BY ActiveNext DEF IdsInv
<1>. QED  BY <1>1, IdsInit, IdsNext, PTL DEF Spec, ActiveIsKept

-----------------------------------------------------------------------------
(* The answer to a JOIN *)

\* Only the two refusals and the end of the walk answer.
LEMMA WhoAnswers ==
    ASSUME TypeOK, [Next]_vars, join # NoJoin, join' = NoJoin
    PROVE  (JoinStep /\ JoinRefuse) \/ (JoinStep /\ JoinRefuseFreed) \/ JoinEnd
<1>1. join \in JoinState
  BY DEF TypeOK
<1>2. [join EXCEPT !.i = @ + 1] # NoJoin
  BY <1>1, NoJoinAssumption DEF JoinState
<1>3. ~(JoinReplacePid \/ JoinReplaceName \/ JoinSkip)
  BY <1>2 DEF JoinReplacePid, JoinReplaceName, JoinSkip
<1>4. ~Unlocked /\ ~UNCHANGED vars
  BY DEF Unlocked, vars
<1>5. JoinStep \/ JoinEnd
  BY <1>4 DEF Next, JoinBegin, Exit, Heard, RegisterApi, RegisterMsg, UnregisterApi,
              UnregisterMsg, LiveTick
<1>. QED  BY <1>3, <1>5 DEF JoinStep

\* The walk has passed the whole list, and no entry carries the pid or the name.
LEMMA EndAnswersTruly ==
    ASSUME TypeOK, OrderlyIds, JoinEnd
    PROVE  /\ reply'.ok
           /\ Cardinality(WithPid(mlist', join.pid)) = 1
           /\ \A k \in DOMAIN mlist' :
                 mlist'[k].pname = join.pname => mlist'[k] = NewMember(join.pid, join.pname)
<1>. DEFINE new == NewMember(join.pid, join.pname)
<1>1. /\ mlist \in Seq(Member) /\ Len(mlist) \in Nat /\ DOMAIN mlist = 1..Len(mlist)
      /\ join \in JoinState /\ mlist' = Append(mlist, new)
      /\ reply' = [pid |-> join.pid, ok |-> TRUE]
  BY MembersOfList DEF TypeOK, JoinEnd
<1>2. \A k \in DOMAIN mlist : mlist[k].pid # join.pid /\ mlist[k].pname # join.pname
  <2>1. Len(mlist) <= join.member_size /\ join.i > join.member_size
    BY DEF JoinEnd, OrderlyIds, JoinScanned
  <2>2. join.i \in Nat /\ join.member_size \in Nat
    BY <1>1 DEF JoinState
  <2>3. \A k \in DOMAIN mlist : k < join.i
    BY <1>1, <2>1, <2>2
  <2>. QED  BY <2>3 DEF JoinEnd, OrderlyIds, JoinScanned
<1>3. new.pid = join.pid /\ new.pname = join.pname
  BY DEF NewMember
<1>. HIDE DEF new
<1>4. /\ DOMAIN mlist' = 1..(Len(mlist) + 1) /\ mlist'[Len(mlist) + 1] = new
      /\ \A k \in DOMAIN mlist : mlist'[k] = mlist[k]
      /\ \A k \in DOMAIN mlist' : k = Len(mlist) + 1 \/ k \in DOMAIN mlist
      /\ Len(mlist) + 1 \in DOMAIN mlist'
  BY <1>1
<1>5. WithPid(mlist', join.pid) = {Len(mlist) + 1}
  BY <1>2, <1>3, <1>4 DEF WithPid
<1>6. Cardinality(WithPid(mlist', join.pid)) = 1
  BY <1>5, FS_Singleton
<1>7. \A k \in DOMAIN mlist' : mlist'[k].pname = join.pname => mlist'[k] = new
  BY <1>2, <1>4
<1>. QED  BY <1>1, <1>6, <1>7 DEF new

LEMMA RefusalAnswersTruly ==
    ASSUME TypeOK, JoinRefuse, join # NoJoin
    PROVE  /\ ~reply'.ok
           /\ \E k \in DOMAIN mlist : /\ mlist[k].pid = join.pid \/ mlist[k].pname = join.pname
                                      /\ ~mlist[k].suspend
<1>1. join.i \in DOMAIN mlist
  BY MembersOfList DEF TypeOK, JoinRefuse, SamePid, SameName, InRange, JoinState
<1>. QED  BY <1>1 DEF JoinRefuse, SamePid, SameName

\* A member that was removed and then misread is refused, but nothing is left to
\* refuse it again.
LEMMA MisreadAnswersTruly ==
    ASSUME TypeOK, OrderlyIds, JoinStep, JoinRefuseFreed
    PROVE  /\ ~reply'.ok
           /\ \E k \in DOMAIN mlist : mlist[k].pid = join.pid \/ mlist[k].pname = join.pname
           /\ \A k \in DOMAIN mlist' : ~(mlist'[k].pid = join.pid \/ mlist'[k].pname = join.pname)
<1>1. join \in JoinState
  BY DEF TypeOK, JoinStep
<1>2. join.i \in DOMAIN mlist /\ mlist[join.i].pid = join.pid
  BY <1>1, MembersOfList DEF TypeOK, JoinRefuseFreed, SamePid, InRange, JoinState
<1>3. OthersAreLeft
  BY ReplacedIsAlone
<1>4. ~reply'.ok
  BY DEF JoinRefuseFreed
<1>. QED  BY <1>2, <1>3, <1>4 DEF OthersAreLeft

\* Until a pid asks for a name while it is listed under another one, JOIN_ACK is
\* sent when the pid has become the only one of its name, with nothing
\* registered, and JOIN_ACK_FAIL when an active member holds the pid or the name,
\* or when all that matched has been removed.
THEOREM AnswersAreTrue == Spec => JoinAnswerIsTrue
<1>. DEFINE Answered == ~renamed /\ join # NoJoin /\ join' = NoJoin
            Entries(ml) == {k \in DOMAIN ml : ml[k].pid = join.pid \/ ml[k].pname = join.pname}
            Truly == IF reply'.ok
                     THEN /\ Cardinality(WithPid(mlist', join.pid)) = 1
                          /\ \A k \in DOMAIN mlist' :
                                mlist'[k].pname = join.pname =>
                                    mlist'[k] = NewMember(join.pid, join.pname)
                     ELSE \/ \E k \in Entries(mlist) : ~mlist[k].suspend
                          \/ Entries(mlist) # {} /\ Entries(mlist') = {}
<1>1. IdsInv /\ [Next]_vars => [Answered => Truly]_vars
  <2>. SUFFICES ASSUME IdsInv, [Next]_vars, Answered
                PROVE  Truly
    OBVIOUS
  <2>0. TypeOK /\ OrderlyIds
    BY DEF IdsInv
  <2>1. (JoinStep /\ JoinRefuse) \/ (JoinStep /\ JoinRefuseFreed) \/ JoinEnd
    BY <2>0, WhoAnswers
  <2>2. CASE JoinEnd
    BY <2>0, <2>2, EndAnswersTruly
  <2>3. CASE JoinRefuse
    <3>1. /\ ~reply'.ok
          /\ \E k \in DOMAIN mlist : /\ mlist[k].pid = join.pid \/ mlist[k].pname = join.pname
                                     /\ ~mlist[k].suspend
      BY <2>0, <2>3, RefusalAnswersTruly
    <3>. QED  BY <3>1
  <2>4. CASE JoinStep /\ JoinRefuseFreed
    <3>1. /\ ~reply'.ok
          /\ \E k \in DOMAIN mlist : mlist[k].pid = join.pid \/ mlist[k].pname = join.pname
          /\ \A k \in DOMAIN mlist' :
                ~(mlist'[k].pid = join.pid \/ mlist'[k].pname = join.pname)
      BY <2>0, <2>4, MisreadAnswersTruly
    <3>. QED  BY <3>1
  <2>. QED  BY <2>1, <2>2, <2>3, <2>4
<1>2. [Answered => Truly]_vars =>
        [~renamed /\ join # NoJoin /\ join' = NoJoin =>
          LET p == join.pid
              n == join.pname
              Matching(ml) == {k \in DOMAIN ml : ml[k].pid = p \/ ml[k].pname = n}
          IN  IF reply'.ok
                THEN /\ Cardinality(WithPid(mlist', p)) = 1
                     /\ \A k \in DOMAIN mlist' :
                           mlist'[k].pname = n => mlist'[k] = NewMember(p, n)
                ELSE \/ \E k \in Matching(mlist) : ~mlist[k].suspend
                     \/ Matching(mlist) # {} /\ Matching(mlist') = {}]_vars
  OBVIOUS
<1>. QED  BY <1>1, <1>2, IdsInit, IdsNext, PTL DEF Spec, JoinAnswerIsTrue

-----------------------------------------------------------------------------
(* Registrations and suspensions *)

\* Registering a name that is new keeps the names distinct, ...
LEMMA AttachNewIsOnce ==
    ASSUME NEW list \in Seq(Topics), NEW t \in Topics, IsInjective(list)
    PROVE  IsInjective(AttachNew(list, t))
<1>1. CASE t \in Range(list)
  BY <1>1 DEF AttachNew
<1>2. CASE t \notin Range(list)
  <2>. DEFINE new == Append(list, t)
  <2>1. /\ Len(list) \in Nat
        /\ DOMAIN list = 1..Len(list)
        /\ DOMAIN new = 1..(Len(list) + 1)
        /\ \A k \in 1..Len(list) : new[k] = list[k]
        /\ new[Len(list) + 1] = t
    BY LenProperties, AppendProperties
  <2>2. \A k \in 1..Len(list) : list[k] # t
    BY <1>2, <2>1 DEF Range
  <2>. HIDE DEF new
  <2>3. IsInjective(new)
    BY <2>1, <2>2 DEF IsInjective
  <2>. QED  BY <1>2, <2>3 DEF AttachNew, new
<1>. QED  BY <1>1, <1>2

\* ... and so does withdrawing one.
LEMMA RemoveFirstIsOnce ==
    ASSUME NEW list \in Seq(Topics), NEW t \in Topics, IsInjective(list)
    PROVE  IsInjective(RemoveFirst(list, t))
<1>. DEFINE I == {k \in 1..Len(list) : list[k] = t}
            new == RemoveFirst(list, t)
<1>0. Len(list) \in Nat /\ DOMAIN list = 1..Len(list)
  BY LenProperties
<1>1. CASE I = {}
  BY <1>1 DEF RemoveFirst
<1>2. CASE I # {}
  <2>1. I \in SUBSET Nat
    BY <1>0
  <2>2. Min(I) \in 1..Len(list)
    BY <1>2, <2>1, MinProperties
  <2>3. new = RemoveAt(list, Min(I))
    BY <1>2 DEF RemoveFirst, SelectInSeq
  <2>4. /\ new \in Seq(Topics)
        /\ Len(new) = Len(list) - 1
        /\ \A k \in 1..(Len(list) - 1) :
              new[k] = IF k < Min(I) THEN list[k] ELSE list[k + 1]
    BY <2>2, <2>3, DeleteProperties
  <2>5. DOMAIN new = 1..(Len(list) - 1)
    BY <2>4, LenProperties
  <2>. HIDE DEF new, I
  <2>. DEFINE f == [k \in DOMAIN new |-> IF k < Min(I) THEN k ELSE k + 1]
  <2>6. \A k \in DOMAIN new : f[k] \in DOMAIN list /\ new[k] = list[f[k]]
    BY <1>0, <2>2, <2>4, <2>5
  <2>7. \A k, l \in DOMAIN new : f[k] = f[l] => k = l
    BY <1>0, <2>2, <2>5
  <2>. HIDE DEF f
  <2>8. IsInjective(new)
    BY <2>6, <2>7 DEF IsInjective
  <2>. QED  BY <2>8 DEF new
<1>. QED  BY <1>1, <1>2

\* What every member satisfies by itself.
Sound(m) == /\ IsInjective(m.api_list)
            /\ IsInjective(m.pmsg_list)
            /\ m.suspend => m.live_cnt = LiveCap

MembersInv == TypeOK /\ \A k \in DOMAIN mlist : Sound(mlist[k])

LEMMA NewMemberIsSound == ASSUME NEW p, NEW n PROVE Sound(NewMember(p, n))
BY DEF Sound, NewMember, IsInjective

LEMMA HeardMemberIsSound ==
    ASSUME NEW m \in Member, Sound(m)
    PROVE  Sound(Revived(m)) /\ Sound(Aged(m))
<1>1. /\ Revived(m).api_list = m.api_list /\ Revived(m).pmsg_list = m.pmsg_list
      /\ Revived(m).suspend = FALSE
  BY Zenon DEF Revived, Member
<1>2. /\ Aged(m).api_list = m.api_list /\ Aged(m).pmsg_list = m.pmsg_list
      /\ Aged(m).suspend => m.suspend \/ m.live_cnt > LiveTimeoutNum
      /\ Aged(m).live_cnt = IF m.live_cnt < LiveCap THEN m.live_cnt + 1 ELSE m.live_cnt
  BY Zenon DEF Aged, Member
<1>3. m.live_cnt \in 0..LiveCap
  BY DEF Member
<1>4. Aged(m).suspend => Aged(m).live_cnt = LiveCap
  <2>1. CASE m.suspend
    BY <1>2, <1>3, <2>1, LiveTimeoutAssumption DEF Sound, LiveCap
  <2>2. CASE ~m.suspend
    BY <1>2, <1>3, <2>2, LiveTimeoutAssumption DEF LiveCap
  <2>. QED  BY <2>1, <2>2
<1>. QED  BY <1>1, <1>2, <1>4 DEF Sound

LEMMA RegisteredMemberIsSound ==
    ASSUME NEW m \in Member, NEW t \in Topics, Sound(m)
    PROVE  /\ Sound(WithApi(m, t)) /\ Sound(WithMsg(m, t))
           /\ Sound(WithoutApi(m, t)) /\ Sound(WithoutMsg(m, t))
<1>1. m.api_list \in Seq(Topics) /\ m.pmsg_list \in Seq(Topics)
  BY DEF Member
<1>2. /\ IsInjective(AttachNew(m.api_list, t)) /\ IsInjective(AttachNew(m.pmsg_list, t))
      /\ IsInjective(RemoveFirst(m.api_list, t)) /\ IsInjective(RemoveFirst(m.pmsg_list, t))
  BY <1>1, AttachNewIsOnce, RemoveFirstIsOnce DEF Sound
<1>. QED  BY <1>2 DEF Sound, Member, WithApi, WithMsg, WithoutApi, WithoutMsg

\* What is left after a removal was there before.
LEMMA RemovalKeepsSound ==
    ASSUME NEW ml \in Seq(Member), \A k \in DOMAIN ml : Sound(ml[k]), NEW p
    PROVE  \A k \in DOMAIN RemoveViaPid(ml, p) : Sound(RemoveViaPid(ml, p)[k])
<1>. DEFINE r == RemoveViaPid(ml, p)
<1>1. r \in Seq(Member) /\ Len(ml) \in Nat /\ DOMAIN ml = 1..Len(ml)
  BY RemoveViaPidType, MembersOfList
<1>2. DOMAIN r = 1..Len(r)
  BY <1>1, LenProperties
<1>3. CASE WithPid(ml, p) = {}
  BY <1>3 DEF RemoveViaPid, RemoveFirstOf
<1>4. CASE WithPid(ml, p) # {}
  <2>1. WithPid(ml, p) \in SUBSET DOMAIN ml
    BY DEF WithPid
  <2>2. /\ Len(r) = Len(ml) - 1
        /\ \E i \in WithPid(ml, p) : \A k \in 1..(Len(ml) - 1) :
              r[k] = IF k < i THEN ml[k] ELSE ml[k + 1]
    BY <1>4, <2>1, RemoveFirstOfProperties DEF RemoveViaPid
  <2>. HIDE DEF r
  <2>3. \A k \in DOMAIN r : \E j \in DOMAIN ml : r[k] = ml[j]
    BY <1>1, <1>2, <2>2
  <2>4. \A k \in DOMAIN r : Sound(r[k])
    BY <2>3
  <2>. QED  BY <2>4 DEF r
<1>. QED  BY <1>3, <1>4

LEMMA MembersNext == MembersInv /\ [Next]_vars => MembersInv'
<1>. SUFFICES ASSUME MembersInv, [Next]_vars
              PROVE  \A k \in DOMAIN mlist' : Sound(mlist'[k])
  BY TypeNext DEF MembersInv
<1>0. /\ mlist \in Seq(Member)
      /\ \A k \in DOMAIN mlist : mlist[k] \in Member /\ Sound(mlist[k])
  BY MembersOfList DEF MembersInv, TypeOK
<1>1. CASE UNCHANGED mlist
  BY <1>0, <1>1
<1>2. ASSUME NEW p, mlist' = RemoveViaPid(mlist, p)
      PROVE  \A k \in DOMAIN mlist' : Sound(mlist'[k])
  BY <1>0, <1>2, RemovalKeepsSound
<1>3. CASE JoinReplacePid
  <2>1. CASE mlist' = RemoveViaPid(mlist, join.pid)
    BY <1>2, <2>1
  <2>2. CASE mlist' = RemoveViaPid(RemoveViaPid(mlist, join.pid), join.pid)
    <3>. DEFINE once == RemoveViaPid(mlist, join.pid)
    <3>1. once \in Seq(Member) /\ \A k \in DOMAIN once : Sound(once[k])
      BY <1>0, RemoveViaPidType, RemovalKeepsSound
    <3>. HIDE DEF once
    <3>2. \A k \in DOMAIN RemoveViaPid(once, join.pid) : Sound(RemoveViaPid(once, join.pid)[k])
      BY <3>1, RemovalKeepsSound
    <3>. QED  BY <2>2, <3>2 DEF once
  <2>. QED  BY <1>3, <2>1, <2>2 DEF JoinReplacePid
<1>4. CASE JoinStep
  BY <1>1, <1>2, <1>3, <1>4
     DEF JoinStep, JoinRefuse, JoinRefuseFreed, JoinReplaceName, JoinSkip
<1>5. CASE JoinEnd
  <2>. DEFINE new == NewMember(join.pid, join.pname)
  <2>1. join \in JoinState
    BY <1>5 DEF JoinEnd, MembersInv, TypeOK
  <2>2. new \in Member
    BY <2>1, EmptySeq, LiveTimeoutAssumption DEF NewMember, Member, JoinState, LiveCap
  <2>3. Sound(new)
    BY NewMemberIsSound
  <2>4. mlist' = Append(mlist, new)
    BY <1>5 DEF JoinEnd
  <2>. HIDE DEF new
  <2>5. /\ Len(mlist) \in Nat /\ DOMAIN mlist = 1..Len(mlist)
        /\ DOMAIN mlist' = 1..(Len(mlist) + 1)
        /\ \A k \in 1..Len(mlist) : mlist'[k] = mlist[k]
        /\ mlist'[Len(mlist) + 1] = new
    BY <1>0, <2>2, <2>4, AppendProperties, LenProperties
  <2>. QED  BY <1>0, <2>3, <2>5
<1>6. ASSUME NEW p \in Pids, Heard(p)
      PROVE  \A k \in DOMAIN mlist' : Sound(mlist'[k])
  <2>1. /\ DOMAIN mlist' = DOMAIN mlist
        /\ \A k \in DOMAIN mlist : mlist'[k] = mlist[k] \/ mlist'[k] = Revived(mlist[k])
    BY <1>6 DEF Heard, UpdateViaPid, UpdateFirstOf
  <2>. QED  BY <1>0, <2>1, HeardMemberIsSound
<1>7. ASSUME NEW p \in Pids, NEW t \in Topics,
             \/ RegisterApi(p, t)   \/ RegisterMsg(p, t)
             \/ UnregisterApi(p, t) \/ UnregisterMsg(p, t)
      PROVE  \A k \in DOMAIN mlist' : Sound(mlist'[k])
  <2>1. /\ DOMAIN mlist' = DOMAIN mlist
        /\ \A k \in DOMAIN mlist : \/ mlist'[k] = mlist[k]
                                   \/ mlist'[k] = WithApi(mlist[k], t)
                                   \/ mlist'[k] = WithMsg(mlist[k], t)
                                   \/ mlist'[k] = WithoutApi(mlist[k], t)
                                   \/ mlist'[k] = WithoutMsg(mlist[k], t)
    <3>1. CASE RegisterApi(p, t)
      BY <3>1 DEF RegisterApi, UpdateViaPid, UpdateFirstOf
    <3>2. CASE RegisterMsg(p, t)
      BY <3>2 DEF RegisterMsg, UpdateViaPid, UpdateFirstOf
    <3>3. CASE UnregisterApi(p, t)
      BY <3>3 DEF UnregisterApi, UpdateFirstOf
    <3>4. CASE UnregisterMsg(p, t)
      BY <3>4 DEF UnregisterMsg, UpdateFirstOf
    <3>. QED  BY <1>7, <3>1, <3>2, <3>3, <3>4
  <2>. QED  BY <1>0, <2>1, RegisteredMemberIsSound
<1>8. CASE LiveTick
  <2>1. DOMAIN mlist' = DOMAIN mlist /\ \A k \in DOMAIN mlist : mlist'[k] = Aged(mlist[k])
    BY <1>8 DEF LiveTick
  <2>. QED  BY <1>0, <2>1, HeardMemberIsSound
<1>9. CASE \E r \in Requests : JoinBegin(r[1], r[2])
  BY <1>1, <1>9 DEF JoinBegin
<1>10. CASE \E p \in Pids : Exit(p)
  BY <1>2, <1>10 DEF Exit
<1>11. CASE UNCHANGED vars
  BY <1>1, <1>11 DEF vars
<1>. QED  BY <1>4, <1>5, <1>6, <1>7, <1>8, <1>9, <1>10, <1>11 DEF Next

LEMMA MembersInit == Init => MembersInv
BY TypeInit DEF Init, MembersInv

\* No member ever has an api or a message registered twice, so ipcd_unregister_api
\* and ipcd_unregister_msg, which delete one entry, withdraw it.
THEOREM NothingIsRegisteredTwice == Spec => []RegisteredOnce
<1>1. MembersInv => RegisteredOnce
  BY DEF MembersInv, Sound, RegisteredOnce
<1>. QED  BY <1>1, MembersInit, MembersNext, PTL DEF Spec

\* ipc_live_thread only ever suspends a member that has sent no LIVE, API_CALL or
\* MSG_SEND for more than LiveTimeoutNum ticks, whatever its value and whatever
\* packets of others or of other kinds come between.
THEOREM OnlySilenceSuspends == Spec => []SuspendedWasSilent
<1>1. MembersInv => SuspendedWasSilent
  BY DEF MembersInv, Sound, SuspendedWasSilent
<1>. QED  BY <1>1, MembersInit, MembersNext, PTL DEF Spec

=============================================================================
