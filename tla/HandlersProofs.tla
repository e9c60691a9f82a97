--------------------------- MODULE HandlersProofs ---------------------------
(***************************************************************************)
(* That the handler tables of a client stay right, for any messages, apis  *)
(* and handler functions: each handler is called once for a message, and   *)
(* the daemon was told what the tables say.                                *)
(***************************************************************************)
EXTENDS Handlers, DataLemmas

Names == MsgNames \cup {AnyMsg}

-----------------------------------------------------------------------------
\* The loop of ipc_unregister_msg

\* Its turns up to the last: each goes on from the list of the one before in g.
TurnsFrom(n, list, last, g) ==
    [i \in 0..last |-> IF i = 0 THEN list ELSE DeleteIfNamed(n, g[i - 1], i)]

LEMMA TurnsExist ==
    ASSUME NEW n, NEW list, NEW last \in Nat
    PROVE  \E g : g = TurnsFrom(n, list, last, g)
<1> DEFINE Turns(m, g) == TurnsFrom(n, list, m, g)
           Bad == {m \in Nat : ~ \E g : g = Turns(m, g)}
<1>1. SUFFICES ASSUME Bad # {} PROVE FALSE
  OBVIOUS
<1> HIDE DEF Bad
<1>2. PICK m \in Bad : \A k \in Bad : m <= k
  <2>1. Bad \in SUBSET Nat
    BY DEF Bad
  <2>2. QED BY <1>1, <2>1, MinProperties
<1>3. m \in Nat /\ ~ \E g : g = Turns(m, g)
  BY DEF Bad
<1>4. CASE m = 0
  <2>1. [i \in 0..0 |-> list] = Turns(0, [i \in 0..0 |-> list])
    BY DEF TurnsFrom
  <2>2. QED BY <1>3, <1>4, <2>1
<1>5. CASE m # 0
  <2>1. m - 1 \in Nat /\ ~(m <= m - 1)
    BY <1>3, <1>5
  <2>2. m - 1 \notin Bad
    BY <1>2, <2>1
  <2>3. PICK g : g = Turns(m - 1, g)
    BY <2>1, <2>2 DEF Bad
  <2> DEFINE h == [i \in 0..m |-> IF i = m THEN DeleteIfNamed(n, g[m - 1], m) ELSE g[i]]
  <2>4. ASSUME NEW i \in 0..m PROVE h[i] = Turns(m, h)[i]
    <3>1. CASE i = m
      <4>1. m - 1 \in 0..m /\ m - 1 # m
        BY <1>3, <2>1
      <4>2. h[m - 1] = g[m - 1]
        BY <4>1
      <4>3. QED BY <1>3, <1>5, <3>1, <4>2 DEF TurnsFrom
    <3>2. CASE i # m
      <4>1. i \in 0..(m - 1) /\ (i # 0 => i - 1 \in 0..m /\ i - 1 # m)
        BY <1>3, <3>2
      <4>2. g[i] = IF i = 0 THEN list ELSE DeleteIfNamed(n, g[i - 1], i)
        BY <2>3, <4>1 DEF TurnsFrom
      <4>3. i # 0 => h[i - 1] = g[i - 1]
        BY <4>1
      <4>4. h[i] = g[i]
        BY <3>2
      <4>5. Turns(m, h)[i] = IF i = 0 THEN list ELSE DeleteIfNamed(n, h[i - 1], i)
        BY DEF TurnsFrom
      <4> HIDE DEF h, Turns
      <4>6. QED BY <4>2, <4>3, <4>4, <4>5
    <3>3. QED BY <3>1, <3>2
  <2>5. h = Turns(m, h)
    <3>1. h = [i \in 0..m |-> h[i]] /\ Turns(m, h) = [i \in 0..m |-> Turns(m, h)[i]]
      BY DEF TurnsFrom
    <3> HIDE DEF h, Turns
    <3>2. QED BY <2>4, <3>1
  <2>6. QED BY <1>3, <2>5
<1>6. QED BY <1>4, <1>5

LEMMA EachTurn ==
    ASSUME NEW n, NEW list \in Seq(Handler)
    PROVE  /\ AfterTurns(n, list)[0] = list
           /\ \A i \in 1..Len(list) :
                 AfterTurns(n, list)[i] = DeleteIfNamed(n, AfterTurns(n, list)[i - 1], i)
<1> DEFINE F(g) == TurnsFrom(n, list, Len(list), g)
<1>1. AfterTurns(n, list) = CHOOSE g : g = F(g)
  BY DEF AfterTurns, TurnsFrom
<1>2. \E g : g = F(g)
  <2>1. Len(list) \in Nat
    BY LenProperties
  <2>2. QED BY <2>1, TurnsExist
<1> HIDE DEF F
<1>3. AfterTurns(n, list) = F(AfterTurns(n, list))
  BY <1>1, <1>2, Zenon
<1>4. Len(list) \in Nat
  BY LenProperties
<1>5. QED BY <1>3, <1>4 DEF F, TurnsFrom
\* No handler is twice in a table under one name.
NoTwins(list) ==
    \A i, j \in 1..Len(list) :
        list[i].msg_name = list[j].msg_name /\ list[i].fun = list[j].fun => i = j

\* What the turns up to i have made of the list: s has entries of the list only; an
\* entry with another name is there still, at its place or before; and where no two
\* entries of the name were neighbours, none of this name is left among the first i.
Follows(list, n, i, s) ==
    /\ s \in Seq(Handler) /\ Len(s) <= Len(list)
    /\ \A q \in 1..Len(s) : \E p \in 1..Len(list) : s[q] = list[p]
    /\ \A p \in 1..Len(list) :
          list[p].msg_name # n => \E q \in 1..Len(s) : q <= p /\ s[q] = list[p]
    /\ NoTwins(list) => NoTwins(s)
    /\ ~Neighbours(n, list) =>
          ~Neighbours(n, s) /\ \A q \in 1..Len(s) : q <= i => s[q].msg_name # n

LEMMA FollowsAtFirst ==
    ASSUME NEW n, NEW list \in Seq(Handler) PROVE Follows(list, n, 0, list)
<1>1. Len(list) \in Nat
  BY LenProperties
<1>2. \A p \in 1..Len(list) : p <= p /\ ~(p <= 0)
  BY <1>1
<1>3. QED BY <1>1, <1>2 DEF Follows

LEMMA TurnFollows ==
    ASSUME NEW n, NEW list \in Seq(Handler), NEW i \in Nat, i > 0,
           NEW s, Follows(list, n, i - 1, s)
    PROVE  Follows(list, n, i, DeleteIfNamed(n, s, i))
<1>1. s \in Seq(Handler) /\ Len(s) \in Nat /\ Len(list) \in Nat /\ Len(s) <= Len(list)
  BY LenProperties DEF Follows
<1>2. CASE ~(i <= Len(s) /\ s[i].msg_name = n)
  <2>1. DeleteIfNamed(n, s, i) = s
    BY <1>2 DEF DeleteIfNamed
  <2>2. \A q \in 1..Len(s) : q <= i => q <= i - 1 \/ q = i
    BY <1>1
  <2>3. \A q \in 1..Len(s) : q = i => s[q].msg_name # n
    BY <1>1, <1>2
  <2>4. ~Neighbours(n, list) => \A q \in 1..Len(s) : q <= i => s[q].msg_name # n
    BY <2>2, <2>3 DEF Follows
  <2>5. QED BY <2>1, <2>4 DEF Follows
<1>3. CASE i <= Len(s) /\ s[i].msg_name = n
  <2> DEFINE t == RemoveAt(s, i)
             old(q) == IF q < i THEN q ELSE q + 1
  <2>1. DeleteIfNamed(n, s, i) = t /\ i \in 1..Len(s)
    BY <1>1, <1>3 DEF DeleteIfNamed
  <2>2. /\ t \in Seq(Handler) /\ Len(t) = Len(s) - 1
        /\ \A q \in 1..(Len(s) - 1) : t[q] = IF q < i THEN s[q] ELSE s[q + 1]
    BY <1>1, <2>1, DeleteProperties
  <2> HIDE DEF t
  <2>3. ASSUME NEW q \in 1..Len(t)
        PROVE  /\ old(q) \in 1..Len(s) /\ old(q) # i /\ t[q] = s[old(q)]
               /\ q < i => old(q) = q
               /\ ~(q < i) => old(q) = q + 1
    BY <1>1, <2>1, <2>2
  <2>4. \A q \in 1..Len(t) : \E p \in 1..Len(list) : t[q] = list[p]
    <3>1. TAKE q \in 1..Len(t)
    <3> HIDE DEF old
    <3>2. QED BY <2>3 DEF Follows
  <2>5. ASSUME NEW p \in 1..Len(list), list[p].msg_name # n
        PROVE  \E q \in 1..Len(t) : q <= p /\ t[q] = list[p]
    <3>1. PICK r \in 1..Len(s) : r <= p /\ s[r] = list[p]
      BY <2>5 DEF Follows
    <3>2. r # i
      BY <1>3, <2>5, <3>1
    <3>3. CASE r < i
      <4>1. r \in 1..Len(t) /\ r \in 1..(Len(s) - 1)
        BY <1>1, <2>1, <2>2, <3>3
      <4>2. t[r] = s[r]
        BY <2>2, <3>3, <4>1
      <4>3. QED BY <3>1, <4>1, <4>2
    <3>4. CASE r > i
      <4>1. /\ r - 1 \in 1..Len(t) /\ r - 1 \in 1..(Len(s) - 1) /\ ~(r - 1 < i)
            /\ (r - 1) + 1 = r /\ r - 1 <= p
        BY <1>1, <2>1, <2>2, <3>1, <3>4
      <4>2. t[r - 1] = s[r]
        BY <2>2, <4>1
      <4>3. QED BY <3>1, <4>1, <4>2
    <3>5. QED BY <1>1, <3>2, <3>3, <3>4
  <2>6. ASSUME NoTwins(list) PROVE NoTwins(t)
    <3>1. SUFFICES ASSUME NEW j \in 1..Len(t), NEW k \in 1..Len(t),
                          t[j].msg_name = t[k].msg_name, t[j].fun = t[k].fun
                   PROVE  j = k
      BY DEF NoTwins
    <3>2. NoTwins(s)
      BY <2>6 DEF Follows
    <3>3. t[j] = s[old(j)] /\ t[k] = s[old(k)] /\ old(j) \in 1..Len(s) /\ old(k) \in 1..Len(s)
      BY <2>3
    <3>4. old(j) = old(k)
      <4> HIDE DEF old
      <4>1. QED BY <3>1, <3>2, <3>3 DEF NoTwins
    <3>5. QED BY <1>1, <2>2, <3>4
  <2>7. ASSUME ~Neighbours(n, list)
        PROVE  ~Neighbours(n, t) /\ \A q \in 1..Len(t) : q <= i => t[q].msg_name # n
    <3>1. /\ \A q \in 1..(Len(s) - 1) : ~(s[q].msg_name = n /\ s[q + 1].msg_name = n)
          /\ \A q \in 1..Len(s) : q <= i - 1 => s[q].msg_name # n
      BY <2>7 DEF Follows, Neighbours
    <3>2. ASSUME NEW q \in 1..Len(t), q <= i PROVE t[q].msg_name # n
      <4>1. CASE q < i
        <5>1. t[q] = s[q] /\ q <= i - 1 /\ q \in 1..Len(s)
          BY <1>1, <2>3, <4>1
        <5>2. QED BY <3>1, <5>1
      <4>2. CASE q = i
        <5>1. t[q] = s[i + 1] /\ i \in 1..(Len(s) - 1)
          BY <1>1, <2>1, <2>2, <4>2
        <5>2. QED BY <1>3, <3>1, <5>1
      <4>3. QED BY <1>1, <3>2, <4>1, <4>2
    <3>3. ASSUME NEW q \in 1..(Len(t) - 1), t[q].msg_name = n, t[q + 1].msg_name = n
          PROVE  FALSE
      <4>1. q \in 1..Len(t) /\ q + 1 \in 1..Len(t) /\ ~(q <= i)
        BY <1>1, <2>2, <3>2, <3>3
      <4>2. /\ ~(q < i) /\ ~(q + 1 < i) /\ q \in 1..(Len(s) - 1) /\ q + 1 \in 1..(Len(s) - 1)
        BY <1>1, <2>2, <4>1
      <4>3. t[q] = s[q + 1] /\ t[q + 1] = s[(q + 1) + 1]
        BY <2>2, <4>2
      <4>4. QED BY <3>1, <3>3, <4>2, <4>3
    <3>4. QED BY <3>2, <3>3 DEF Neighbours
  <2> HIDE DEF old
  <2>8. Len(t) <= Len(list)
    BY <1>1, <2>2
  <2>9. Follows(list, n, i, t)
    BY <2>2, <2>4, <2>5, <2>6, <2>7, <2>8 DEF Follows
  <2>10. QED BY <2>1, <2>9
<1>4. QED BY <1>2, <1>3

\* What the whole loop has made of the list.
LEMMA LoopFollows ==
    ASSUME NEW n, NEW list \in Seq(Handler)
    PROVE  Follows(list, n, Len(list), WithoutName(n, list))
<1> DEFINE A(i) == AfterTurns(n, list)[i]
           Bad == {i \in 0..Len(list) : ~Follows(list, n, i, A(i))}
<1>1. Len(list) \in Nat
  BY LenProperties
<1>2. SUFFICES ASSUME Bad # {} PROVE FALSE
  <2>1. Len(list) \in 0..Len(list)
    BY <1>1
  <2>2. QED BY <2>1 DEF WithoutName
<1> HIDE DEF Bad
<1>3. PICK i \in Bad : \A k \in Bad : i <= k
  <2>1. Bad \in SUBSET Nat
    BY <1>1 DEF Bad
  <2>2. QED BY <1>2, <2>1, MinProperties
<1>4. i \in 0..Len(list) /\ ~Follows(list, n, i, A(i))
  BY <1>3 DEF Bad
<1>5. i # 0
  <2>1. A(0) = list
    BY EachTurn
  <2>2. QED BY <1>4, <2>1, FollowsAtFirst
<1>6. i \in 1..Len(list) /\ i - 1 \in 0..Len(list) /\ ~(i <= i - 1) /\ i \in Nat /\ i > 0
  BY <1>1, <1>4, <1>5
<1>7. Follows(list, n, i - 1, A(i - 1))
  BY <1>3, <1>6 DEF Bad
<1>8. A(i) = DeleteIfNamed(n, A(i - 1), i)
  BY <1>6, EachTurn
<1> HIDE DEF A
<1>9. QED BY <1>4, <1>6, <1>7, <1>8, TurnFollows

-----------------------------------------------------------------------------
\* The functions that a table has for a name

LEMMA FunsOfIff ==
    ASSUME NEW list \in Seq(Handler), NEW n
    PROVE  \A f : f \in FunsOf(list, n) <=>
                     \E j \in 1..Len(list) : list[j].msg_name = n /\ list[j].fun = f
<1>1. Range(list) = {list[j] : j \in 1..Len(list)}
  BY DEF Range
<1>2. QED BY <1>1 DEF FunsOf

LEMMA FunsAppended ==
    ASSUME NEW list \in Seq(Handler), NEW x \in Handler, NEW n
    PROVE  FunsOf(Append(list, x), n) =
              IF n = x.msg_name THEN FunsOf(list, n) \cup {x.fun} ELSE FunsOf(list, n)
<1>1. /\ Append(list, x) \in Seq(Handler) /\ Len(Append(list, x)) = Len(list) + 1
      /\ Len(list) \in Nat
      /\ Append(list, x)[Len(list) + 1] = x
      /\ \A j \in 1..Len(list) : Append(list, x)[j] = list[j]
      /\ \A j \in 1..(Len(list) + 1) : j \in 1..Len(list) \/ j = Len(list) + 1
  BY AppendedTo
<1>2. /\ Len(list) + 1 \in 1..(Len(list) + 1)
      /\ \A j \in 1..Len(list) : j \in 1..(Len(list) + 1)
  BY <1>1
<1>3. \A f : f \in FunsOf(Append(list, x), n) <=>
               f \in FunsOf(list, n) \/ (x.msg_name = n /\ x.fun = f)
  <2> DEFINE longer == Append(list, x)
  <2>2. /\ Len(longer) = Len(list) + 1 /\ longer[Len(list) + 1] = x
        /\ longer \in Seq(Handler)
        /\ \A j \in 1..Len(list) : longer[j] = list[j]
    BY <1>1
  <2> HIDE DEF longer
  <2>1. \A f : f \in FunsOf(longer, n) <=>
                  \E j \in 1..Len(longer) : longer[j].msg_name = n /\ longer[j].fun = f
    BY <2>2, FunsOfIff
  <2>3. QED BY <1>1, <1>2, <2>1, <2>2, FunsOfIff DEF longer
<1>4. QED BY <1>3

\* The loop of ipc_unregister_msg takes nothing from the other names, and leaves no
\* handler of its own where none had a neighbour of the same name.
LEMMA FunsLeft ==
    ASSUME NEW n, NEW list \in Seq(Handler), NEW m
    PROVE  /\ m # n => FunsOf(WithoutName(n, list), m) = FunsOf(list, m)
           /\ m = n /\ ~Neighbours(n, list) => FunsOf(WithoutName(n, list), m) = {}
<1> DEFINE s == WithoutName(n, list)
<1>1. Follows(list, n, Len(list), s)
  BY LoopFollows
<1> HIDE DEF s
<1>2. s \in Seq(Handler) /\ Len(s) \in Nat /\ Len(list) \in Nat /\ Len(s) <= Len(list)
  BY <1>1, LenProperties DEF Follows
<1>3. ASSUME m # n PROVE \A f : f \in FunsOf(s, m) <=> f \in FunsOf(list, m)
  <2>1. ASSUME NEW f, f \in FunsOf(s, m) PROVE f \in FunsOf(list, m)
    <3>1. PICK q \in 1..Len(s) : s[q].msg_name = m /\ s[q].fun = f
      BY <1>2, <2>1, FunsOfIff
    <3>2. PICK p \in 1..Len(list) : s[q] = list[p]
      BY <1>1 DEF Follows
    <3>3. QED BY <3>1, <3>2, FunsOfIff
  <2>2. ASSUME NEW f, f \in FunsOf(list, m) PROVE f \in FunsOf(s, m)
    <3>1. PICK p \in 1..Len(list) : list[p].msg_name = m /\ list[p].fun = f
      BY <2>2, FunsOfIff
    <3>2. PICK q \in 1..Len(s) : s[q] = list[p]
      BY <1>1, <1>3, <3>1 DEF Follows
    <3>3. QED BY <1>2, <3>1, <3>2, FunsOfIff
  <2>3. QED BY <2>1, <2>2
<1>4. ASSUME m = n, ~Neighbours(n, list) PROVE \A f : f \notin FunsOf(s, m)
  <2>1. \A q \in 1..Len(s) : s[q].msg_name # n
    <3>1. \A q \in 1..Len(s) : q <= Len(list)
      BY <1>2
    <3>2. QED BY <1>1, <1>4, <3>1 DEF Follows
  <2>2. QED BY <1>2, <1>4, <2>1, FunsOfIff
<1>5. m # n => FunsOf(s, m) = FunsOf(list, m)
  BY <1>3
<1>6. m = n /\ ~Neighbours(n, list) => FunsOf(s, m) = {}
  BY <1>4
<1>7. QED BY <1>5, <1>6 DEF s

-----------------------------------------------------------------------------
\* Types

LEMMA StepTypes == ASSUME TypeOK, [Next]_vars PROVE TypeOK'
<1> USE DEF TypeOK
<1>1. ASSUME NEW n \in Names, NEW f \in AllFuns, RegisterMsg(n, f) PROVE TypeOK'
  <2>1. [msg_name |-> n, fun |-> f] \in Handler
    BY DEF Handler, Names
  <2>2. msg_list' \in Seq(Handler)
    BY <1>1, <2>1, AppendedTo DEF RegisterMsg
  <2>3. leftover' \subseteq Names
    BY <1>1 DEF RegisterMsg, Names
  <2>4. QED BY <1>1, <2>2, <2>3 DEF RegisterMsg, Names
<1>2. ASSUME NEW n \in Names, UnregisterMsg(n) PROVE TypeOK'
  <2>1. msg_list' \in Seq(Handler)
    <3>1. Follows(msg_list, n, Len(msg_list), WithoutName(n, msg_list))
      BY LoopFollows
    <3>2. QED BY <1>2, <3>1 DEF UnregisterMsg, Follows
  <2>2. dispatch' \in Dispatch \cup {NoDispatch, Crashed}
    <3>1. CASE ~Dispatching
      BY <1>2, <3>1 DEF UnregisterMsg
    <3>2. CASE Dispatching
      <4>1. dispatch \in Dispatch
        BY <3>2 DEF Dispatching
      <4> DEFINE c == dispatch.careless \/ dispatch.owed \ Range(dispatch.called) # {}
      <4>2. \/ dispatch' = [dispatch EXCEPT !.owed = {}]
            \/ dispatch' = [dispatch EXCEPT !.careless = c]
        BY <1>2, <3>2 DEF UnregisterMsg
      <4>3. c \in BOOLEAN
        BY <4>1 DEF Dispatch
      <4> HIDE DEF c
      <4>4. QED BY <4>1, <4>2, <4>3 DEF Dispatch
    <3>3. QED BY <3>1, <3>2
  <2>3. /\ pmsg_list' \subseteq Names /\ leftover' \subseteq Names
        /\ UNCHANGED <<api_list, papi_list>>
    BY <1>2 DEF UnregisterMsg, Names
  <2>4. QED BY <2>1, <2>2, <2>3 DEF Names
<1>3. ASSUME NEW n \in ApiNames, NEW f \in Funs, RegisterApi(n, f) PROVE TypeOK'
  <2>1. [msg_name |-> n, fun |-> f] \in Handler
    BY DEF Handler, AllFuns
  <2>2. api_list' \in Seq(Handler)
    BY <1>3, <2>1, AppendedTo DEF RegisterApi
  <2>3. QED BY <1>3, <2>2 DEF RegisterApi
<1>4. ASSUME NEW n \in ApiNames, UnregisterApi(n) PROVE TypeOK'
  BY <1>4 DEF UnregisterApi
<1>5. ASSUME NEW m \in MsgNames, DispatchBegin(m) PROVE TypeOK'
  <2>1. FunsOf(msg_list, m) \subseteq AllFuns
    <3>1. \A j \in 1..Len(msg_list) : msg_list[j] \in Handler
      OBVIOUS
    <3>2. \A j \in 1..Len(msg_list) : msg_list[j].fun \in AllFuns
      BY <3>1 DEF Handler
    <3>3. QED BY <3>2, FunsOfIff
  <2>2. Len(msg_list) \in Nat /\ <<>> \in Seq(AllFuns)
    BY LenProperties
  <2>3. dispatch' \in Dispatch
    BY <1>5, <2>1, <2>2 DEF DispatchBegin, Dispatch
  <2>4. QED BY <1>5, <2>3 DEF DispatchBegin
<1>6. CASE DispatchStep
  <2>1. dispatch \in Dispatch
    BY <1>6 DEF DispatchStep, Dispatching
  <2>2. dispatch.i + 1 \in Nat \ {0} /\ Named(dispatch.i, dispatch.msg_name) \in BOOLEAN
    BY <2>1 DEF Dispatch, Named
  <2>3. Named(dispatch.i, dispatch.msg_name)
           => Append(dispatch.called, msg_list[dispatch.i].fun) \in Seq(AllFuns)
    <3>0. Named(dispatch.i, dispatch.msg_name) => msg_list[dispatch.i] \in Handler
      BY DEF Named
    <3>1. Named(dispatch.i, dispatch.msg_name) => msg_list[dispatch.i].fun \in AllFuns
      BY <3>0 DEF Handler
    <3>2. dispatch.called \in Seq(AllFuns)
      BY <2>1 DEF Dispatch
    <3>3. QED BY <3>1, <3>2, AppendedTo
  <2>4. dispatch' \in Dispatch
    <3> DEFINE calls == Named(dispatch.i, dispatch.msg_name)
    <3>1. dispatch' = [dispatch EXCEPT
              !.i = dispatch.i + 1, !.running = calls,
              !.normal_fun_exist = dispatch.normal_fun_exist \/ calls,
              !.called = IF calls THEN Append(dispatch.called, msg_list[dispatch.i].fun)
                                  ELSE dispatch.called]
      BY <1>6 DEF DispatchStep, Turn
    <3>2. (dispatch.normal_fun_exist \/ calls) \in BOOLEAN /\ calls \in BOOLEAN
      BY <2>1, <2>2 DEF Dispatch
    <3>3. (IF calls THEN Append(dispatch.called, msg_list[dispatch.i].fun)
                    ELSE dispatch.called) \in Seq(AllFuns)
      BY <2>1, <2>3 DEF Dispatch
    <3> HIDE DEF calls
    <3>4. QED BY <2>1, <2>2, <3>1, <3>2, <3>3 DEF Dispatch
  <2>5. QED BY <1>6, <2>4 DEF DispatchStep
<1>7. CASE DispatchEnd
  BY <1>7 DEF DispatchEnd
<1>8. CASE UNCHANGED vars
  BY <1>8 DEF vars
<1>9. QED BY <1>1, <1>2, <1>3, <1>4, <1>5, <1>6, <1>7, <1>8 DEF Next, Names

\* Every variable of the client and the daemon's lists keep their types, whatever
\* handlers register and unregister.
THEOREM TypeCorrect == Spec => []TypeOK
<1>1. Init => TypeOK
  BY DEF Init, TypeOK
<1>2. QED BY <1>1, StepTypes, PTL DEF Spec
-----------------------------------------------------------------------------
\* The tables of client and daemon

LEMMA TablesStep == ASSUME TypeOK, TablesAgree, [Next]_vars PROVE TablesAgree'
<1>0. msg_list \in Seq(Handler) /\ api_list \in Seq(Handler)
  BY DEF TypeOK
<1>1. ASSUME NEW n \in Names, NEW f \in AllFuns, RegisterMsg(n, f) PROVE TablesAgree'
  <2> DEFINE x == [msg_name |-> n, fun |-> f]
  <2>1. x \in Handler /\ x.msg_name = n /\ x.fun = f
    BY DEF Handler, Names
  <2>2. /\ msg_list' = Append(msg_list, x) /\ pmsg_list' = pmsg_list \cup {n}
        /\ leftover' = leftover \ {n} /\ UNCHANGED <<api_list, papi_list>>
    BY <1>1 DEF RegisterMsg
  <2> HIDE DEF x
  <2>3. \A m : FunsOf(msg_list', m) =
                  IF m = n THEN FunsOf(msg_list, m) \cup {f} ELSE FunsOf(msg_list, m)
    BY <1>0, <2>1, <2>2, FunsAppended
  <2>4. /\ \A m \in MsgNames \cup {AnyMsg} : m \in pmsg_list' => FunsOf(msg_list', m) # {}
        /\ \A m \in MsgNames \cup {AnyMsg} :
              FunsOf(msg_list', m) # {} => m \in pmsg_list' \cup leftover'
    BY <2>2, <2>3 DEF TablesAgree
  <2>5. QED BY <2>2, <2>4 DEF TablesAgree
<1>2. ASSUME NEW n \in Names, UnregisterMsg(n) PROVE TablesAgree'
  <2>1. /\ msg_list' = WithoutName(n, msg_list) /\ pmsg_list' = pmsg_list \ {n}
        /\ leftover' = IF Neighbours(n, msg_list) THEN leftover \cup {n} ELSE leftover \ {n}
        /\ UNCHANGED <<api_list, papi_list>>
    BY <1>2 DEF UnregisterMsg
  <2>2. /\ \A m : m # n => FunsOf(msg_list', m) = FunsOf(msg_list, m)
        /\ ~Neighbours(n, msg_list) => FunsOf(msg_list', n) = {}
    BY <1>0, <2>1, FunsLeft
  <2>3. /\ \A m \in MsgNames \cup {AnyMsg} : m \in pmsg_list' => FunsOf(msg_list', m) # {}
        /\ \A m \in MsgNames \cup {AnyMsg} :
              FunsOf(msg_list', m) # {} => m \in pmsg_list' \cup leftover'
    BY <2>1, <2>2 DEF TablesAgree
  <2>4. QED BY <2>1, <2>3 DEF TablesAgree
<1>3. ASSUME NEW n \in ApiNames, NEW f \in Funs, RegisterApi(n, f) PROVE TablesAgree'
  <2> DEFINE x == [msg_name |-> n, fun |-> f]
  <2>1. x \in Handler /\ x.msg_name = n /\ x.fun = f
    BY DEF Handler, AllFuns
  <2>2. /\ api_list' = Append(api_list, x) /\ papi_list' = papi_list \cup {n}
        /\ UNCHANGED <<msg_list, pmsg_list, leftover>>
    BY <1>3 DEF RegisterApi
  <2> HIDE DEF x
  <2>3. \A m : FunsOf(api_list', m) =
                  IF m = n THEN FunsOf(api_list, m) \cup {f} ELSE FunsOf(api_list, m)
    BY <1>0, <2>1, <2>2, FunsAppended
  <2>4. \A m \in ApiNames : m \in papi_list' => FunsOf(api_list', m) # {}
    BY <2>2, <2>3 DEF TablesAgree
  <2>5. QED BY <2>2, <2>4 DEF TablesAgree
<1>4. ASSUME NEW n \in ApiNames, UnregisterApi(n) PROVE TablesAgree'
  BY <1>4 DEF UnregisterApi, TablesAgree
<1>5. CASE UNCHANGED <<msg_list, api_list, pmsg_list, papi_list, leftover>>
  BY <1>5 DEF TablesAgree
<1>6. QED BY <1>1, <1>2, <1>3, <1>4, <1>5
      DEF Next, Names, DispatchBegin, DispatchStep, DispatchEnd, vars

\* Whatever is registered and unregistered, between messages and in handlers, the
\* daemon relays to a client only what it has a handler for, and all of it but what
\* an unregistration of neighbours in the list has left there.
THEOREM TablesAlwaysAgree == Spec => []TablesAgree
<1> DEFINE Inv == TypeOK /\ TablesAgree
<1>1. Init => Inv
  <2>1. \A n : FunsOf(<<>>, n) = {}
    BY DEF FunsOf, Range
  <2>2. QED BY <2>1 DEF Init, TypeOK, TablesAgree
<1>2. Inv /\ [Next]_vars => Inv'
  BY StepTypes, TablesStep
<1>3. Inv => TablesAgree
  OBVIOUS
<1> HIDE DEF Inv
<1>4. QED BY <1>1, <1>2, <1>3, PTL DEF Spec

-----------------------------------------------------------------------------
\* Each handler is called once

\* f is once among the functions called, or not at all.
CalledJustOnce(called, f) ==
    \E k \in 1..Len(called) : \A l \in 1..Len(called) : called[l] = f <=> l = k
NotCalled(called, f) == \A l \in 1..Len(called) : called[l] # f

LEMMA CallsAppended ==
    ASSUME NEW called \in Seq(AllFuns), NEW f, NEW g \in AllFuns
    PROVE  /\ g # f /\ CalledJustOnce(called, f) => CalledJustOnce(Append(called, g), f)
           /\ g # f /\ NotCalled(called, f) => NotCalled(Append(called, g), f)
           /\ g = f /\ NotCalled(called, f) => CalledJustOnce(Append(called, g), f)
<1> DEFINE more == Append(called, g)
           n == Len(called)
<1>1. /\ n \in Nat /\ Len(more) = n + 1 /\ more[n + 1] = g
      /\ \A k \in 1..n : more[k] = called[k]
  BY AppendedTo
<1>2. \A k \in 1..(n + 1) : k \in 1..n \/ (k = n + 1 /\ k \notin 1..n)
  BY <1>1
<1>3. n + 1 \in 1..(n + 1) /\ \A k \in 1..n : k \in 1..(n + 1) /\ k # n + 1
  BY <1>1
<1> HIDE DEF more
<1>4. ASSUME g # f, CalledJustOnce(called, f) PROVE CalledJustOnce(more, f)
  <2>1. PICK k \in 1..n : \A l \in 1..n : called[l] = f <=> l = k
    BY <1>4 DEF CalledJustOnce
  <2>2. \A l \in 1..(n + 1) : more[l] = f <=> l = k
    BY <1>1, <1>2, <1>3, <1>4, <2>1
  <2>3. QED BY <1>1, <1>3, <2>2 DEF CalledJustOnce
<1>5. ASSUME g # f, NotCalled(called, f) PROVE NotCalled(more, f)
  BY <1>1, <1>2, <1>5 DEF NotCalled
<1>6. ASSUME g = f, NotCalled(called, f) PROVE CalledJustOnce(more, f)
  <2>1. \A l \in 1..(n + 1) : more[l] = f <=> l = n + 1
    BY <1>1, <1>2, <1>6 DEF NotCalled
  <2>2. QED BY <1>1, <1>3, <2>1 DEF CalledJustOnce
<1>7. QED BY <1>4, <1>5, <1>6 DEF more

\* The entry of f is at p: the walk will come to it, or has passed it and called f,
\* or has missed it because something in front of it was unregistered.
Serves(list, d, f, p) ==
    /\ list[p].msg_name = d.msg_name /\ list[p].fun = f
    /\ p <= d.mlist_size
    /\ p < d.i => CalledJustOnce(d.called, f) \/ (d.careless /\ NotCalled(d.called, f))
    /\ p >= d.i => NotCalled(d.called, f)
OwedServed ==
    Dispatching =>
        \A f \in dispatch.owed : \E p \in 1..Len(msg_list) : Serves(msg_list, dispatch, f, p)

Walk == NoTwins(msg_list) /\ OwedServed

LEMMA RegisterWalk ==
    ASSUME TypeOK, Walk, NEW n \in Names, NEW f \in AllFuns, RegisterMsg(n, f) PROVE Walk'
<1>1. dispatch' = dispatch
  BY DEF RegisterMsg
<1> DEFINE x == [msg_name |-> n, fun |-> f]
<1>2. x \in Handler /\ x.msg_name = n /\ x.fun = f /\ msg_list' = Append(msg_list, x)
  BY DEF RegisterMsg, Handler, Names
<1> HIDE DEF x
<1>3. /\ msg_list \in Seq(Handler) /\ Len(msg_list) \in Nat
      /\ Len(msg_list') = Len(msg_list) + 1
      /\ msg_list'[Len(msg_list) + 1] = x
      /\ \A k \in 1..Len(msg_list) : msg_list'[k] = msg_list[k]
  BY <1>2, AppendedTo DEF TypeOK
<1>4. \A k \in 1..Len(msg_list) : ~(msg_list[k].msg_name = n /\ msg_list[k].fun = f)
  BY <1>3, FunsOfIff DEF RegisterMsg
<1>5. /\ \A k \in 1..Len(msg_list') : k \in 1..Len(msg_list) \/ k = Len(msg_list) + 1
      /\ \A k \in 1..Len(msg_list) : k \in 1..Len(msg_list')
  BY <1>3
<1>6. NoTwins(msg_list')
  BY <1>2, <1>3, <1>4, <1>5 DEF Walk, NoTwins
<1>7. OwedServed'
  <2>1. SUFFICES ASSUME Dispatching, NEW g \in dispatch.owed
                 PROVE  \E p \in 1..Len(msg_list') : Serves(msg_list', dispatch, g, p)
    BY <1>1 DEF OwedServed, Dispatching
  <2>2. PICK p \in 1..Len(msg_list) : Serves(msg_list, dispatch, g, p)
    BY <2>1 DEF Walk, OwedServed
  <2>3. Serves(msg_list', dispatch, g, p)
    BY <1>3, <2>2 DEF Serves
  <2>4. QED BY <1>5, <2>3
<1>8. QED BY <1>6, <1>7 DEF Walk

LEMMA UnregisterWalk ==
    ASSUME TypeOK, Walk, NEW n \in Names, UnregisterMsg(n) PROVE Walk'
<1>1. /\ msg_list \in Seq(Handler) /\ Len(msg_list) \in Nat
      /\ Follows(msg_list, n, Len(msg_list), msg_list')
  BY LoopFollows DEF UnregisterMsg, TypeOK
<1>2. NoTwins(msg_list')
  BY <1>1 DEF Walk, Follows
<1>3. CASE ~Dispatching
  <2>1. dispatch' = dispatch
    BY <1>3 DEF UnregisterMsg
  <2>2. QED BY <1>2, <1>3, <2>1 DEF Walk, OwedServed, Dispatching
<1>4. CASE Dispatching /\ dispatch.msg_name = n
  <2>1. dispatch \in Dispatch /\ dispatch' = [dispatch EXCEPT !.owed = {}]
    BY <1>4 DEF UnregisterMsg, TypeOK, Dispatching
  <2>2. dispatch'.owed = {}
    BY <2>1 DEF Dispatch
  <2>3. QED BY <1>2, <2>2 DEF Walk, OwedServed
<1>5. CASE Dispatching /\ dispatch.msg_name # n
  <2> DEFINE c == dispatch.careless \/ dispatch.owed \ Range(dispatch.called) # {}
  <2>1. dispatch \in Dispatch /\ dispatch' = [dispatch EXCEPT !.careless = c]
    BY <1>5 DEF UnregisterMsg, TypeOK, Dispatching
  <2>2. /\ dispatch'.msg_name = dispatch.msg_name /\ dispatch'.i = dispatch.i
        /\ dispatch'.mlist_size = dispatch.mlist_size /\ dispatch'.called = dispatch.called
        /\ dispatch'.owed = dispatch.owed
    BY <2>1 DEF Dispatch
  <2>3. dispatch'.careless = c
    <3> HIDE DEF c
    <3>1. QED BY <2>1 DEF Dispatch
  <2>4. dispatch.i \in Nat /\ dispatch.mlist_size \in Nat /\ dispatch.called \in Seq(AllFuns)
    BY <2>1 DEF Dispatch
  <2>5. ASSUME NEW f \in dispatch.owed
        PROVE  \E p \in 1..Len(msg_list') : Serves(msg_list', dispatch', f, p)
    <3>1. PICK p \in 1..Len(msg_list) : Serves(msg_list, dispatch, f, p)
      BY <1>5 DEF Walk, OwedServed
    <3>2. PICK q \in 1..Len(msg_list') : q <= p /\ msg_list'[q] = msg_list[p]
      BY <1>1, <1>5, <3>1 DEF Follows, Serves
    <3>3. NotCalled(dispatch.called, f) => c
      <4>1. NotCalled(dispatch.called, f) => f \notin Range(dispatch.called)
        BY <2>4 DEF NotCalled, Range
      <4>2. QED BY <4>1
    <3> HIDE DEF c
    <3>4. q <= dispatch.mlist_size /\ (p < dispatch.i \/ p >= dispatch.i)
          /\ (q >= dispatch.i => p >= dispatch.i)
      BY <1>1, <2>4, <3>1, <3>2 DEF Serves, Follows
    <3>5. /\ q < dispatch.i => CalledJustOnce(dispatch.called, f)
                                 \/ (c /\ NotCalled(dispatch.called, f))
          /\ q >= dispatch.i => NotCalled(dispatch.called, f)
      BY <3>1, <3>3, <3>4 DEF Serves
    <3>6. Serves(msg_list', dispatch', f, q)
      BY <2>2, <2>3, <3>1, <3>2, <3>4, <3>5 DEF Serves
    <3>7. QED BY <3>6
  <2>6. QED BY <1>2, <2>2, <2>5 DEF Walk, OwedServed
<1>6. QED BY <1>3, <1>4, <1>5

LEMMA DispatchWalk == ASSUME TypeOK, Walk, DispatchStep PROVE Walk'
<1> DEFINE calls == Named(dispatch.i, dispatch.msg_name)
           fun == msg_list[dispatch.i].fun
<1>1. /\ Dispatching /\ dispatch \in Dispatch /\ msg_list' = msg_list
      /\ msg_list \in Seq(Handler) /\ Len(msg_list) \in Nat
  BY DEF DispatchStep, TypeOK, Dispatching
<1>2. /\ dispatch'.running = calls /\ dispatch'.i = dispatch.i + 1
      /\ dispatch'.mlist_size = dispatch.mlist_size /\ dispatch'.msg_name = dispatch.msg_name
      /\ dispatch'.owed = dispatch.owed /\ dispatch'.careless = dispatch.careless
      /\ dispatch'.called = IF calls THEN Append(dispatch.called, fun) ELSE dispatch.called
  BY <1>1 DEF DispatchStep, Turn, Dispatch
<1>3. /\ dispatch.i \in Nat /\ dispatch.called \in Seq(AllFuns)
  BY <1>1 DEF Dispatch
<1>4. /\ calls => /\ dispatch.i \in 1..Len(msg_list)
                  /\ msg_list[dispatch.i].msg_name = dispatch.msg_name
                  /\ fun \in AllFuns
      /\ dispatch.i \in 1..Len(msg_list) /\ msg_list[dispatch.i].msg_name = dispatch.msg_name
            => calls
  <2>1. \A k \in 1..Len(msg_list) : msg_list[k] \in Handler
    BY <1>1
  <2>2. QED BY <1>1, <2>1 DEF Named, Handler
<1> DEFINE i == dispatch.i
<1> HIDE DEF calls, fun
<1>5. NoTwins(msg_list')
  BY <1>1 DEF Walk
<1>6. OwedServed'
  <2>1. SUFFICES ASSUME NEW f \in dispatch.owed
                 PROVE  \E p \in 1..Len(msg_list) : Serves(msg_list, dispatch', f, p)
    BY <1>1, <1>2 DEF OwedServed
  <2>2. PICK p \in 1..Len(msg_list) : Serves(msg_list, dispatch, f, p)
    BY <1>1 DEF Walk, OwedServed
  <2>3. msg_list[p].msg_name = dispatch.msg_name /\ msg_list[p].fun = f
    BY <2>2 DEF Serves
  <2>4. calls /\ fun = f => i = p
    BY <1>4, <2>3 DEF Walk, NoTwins, fun
  <2>5. i = p => calls /\ fun = f
    BY <1>4, <2>3 DEF fun
  <2>6. \/ p < i /\ p < i + 1 /\ ~(p >= i + 1) /\ p # i
        \/ p = i /\ p < i + 1 /\ ~(p >= i + 1) /\ p >= i
        \/ p > i /\ ~(p < i + 1) /\ p >= i /\ p # i
    BY <1>3
  <2>7. /\ p < dispatch'.i => CalledJustOnce(dispatch'.called, f)
                                \/ (dispatch.careless /\ NotCalled(dispatch'.called, f))
        /\ p >= dispatch'.i => NotCalled(dispatch'.called, f)
    <3>1. /\ p < i => CalledJustOnce(dispatch.called, f)
                        \/ (dispatch.careless /\ NotCalled(dispatch.called, f))
          /\ p >= i => NotCalled(dispatch.called, f)
      BY <2>2 DEF Serves
    <3>2. CASE calls
      <4>1. /\ fun # f /\ CalledJustOnce(dispatch.called, f)
                  => CalledJustOnce(dispatch'.called, f)
            /\ fun # f /\ NotCalled(dispatch.called, f) => NotCalled(dispatch'.called, f)
            /\ fun = f /\ NotCalled(dispatch.called, f) => CalledJustOnce(dispatch'.called, f)
        BY <1>2, <1>3, <1>4, <3>2, CallsAppended
      <4>2. QED BY <1>2, <2>4, <2>5, <2>6, <3>1, <3>2, <4>1
    <3>3. CASE ~calls
      BY <1>2, <2>5, <2>6, <3>1, <3>3
    <3>4. QED BY <3>2, <3>3
  <2>8. Serves(msg_list, dispatch', f, p)
    BY <1>2, <2>2, <2>7 DEF Serves
  <2>9. QED BY <2>8
<1>7. QED BY <1>5, <1>6 DEF Walk

LEMMA WalkStep == ASSUME TypeOK, Walk, [Next]_vars PROVE Walk'
<1>1. ASSUME NEW n \in ApiNames, NEW f \in Funs, RegisterApi(n, f) PROVE Walk'
  BY <1>1 DEF RegisterApi, Walk, OwedServed, Dispatching
<1>2. ASSUME NEW n \in ApiNames, UnregisterApi(n) PROVE Walk'
  BY <1>2 DEF UnregisterApi, Walk, OwedServed, Dispatching
<1>3. ASSUME NEW m \in MsgNames, DispatchBegin(m) PROVE Walk'
  <2>1. /\ msg_list' = msg_list /\ dispatch'.owed = FunsOf(msg_list, m)
        /\ dispatch'.msg_name = m /\ dispatch'.i = 1
        /\ dispatch'.mlist_size = Len(msg_list) /\ dispatch'.called = <<>>
    BY <1>3 DEF DispatchBegin
  <2>2. OwedServed'
    <3>1. ASSUME NEW f \in FunsOf(msg_list, m)
          PROVE  \E p \in 1..Len(msg_list) : Serves(msg_list, dispatch', f, p)
      <4>1. PICK p \in 1..Len(msg_list) : msg_list[p].msg_name = m /\ msg_list[p].fun = f
        BY FunsOfIff DEF TypeOK
      <4>2. NotCalled(<<>>, f)
        BY DEF NotCalled
      <4>3. Serves(msg_list, dispatch', f, p)
        BY <2>1, <4>1, <4>2 DEF Serves
      <4>4. QED BY <4>3
    <3>2. QED BY <2>1, <3>1 DEF OwedServed
  <2>3. QED BY <2>1, <2>2 DEF Walk
<1>4. CASE DispatchEnd
  BY <1>4 DEF DispatchEnd, Walk, OwedServed, Dispatching
<1>5. CASE UNCHANGED vars
  BY <1>5 DEF vars, Walk, OwedServed, Dispatching
<1>6. QED BY RegisterWalk, UnregisterWalk, DispatchWalk, <1>1, <1>2, <1>3, <1>4, <1>5
      DEF Next, Names

\* For a message each handler that was there when it came, and that nobody
\* unregistered, is called exactly once, although handlers change the table that is
\* being walked; the one exception is a handler missed because something else was
\* unregistered before all of those had been called.
THEOREM EachIsCalledOnce == Spec => []EachHandlerIsCalledOnce
<1> DEFINE Inv == TypeOK /\ Walk
<1>1. Init => Inv
  BY DEF Init, TypeOK, Walk, NoTwins, OwedServed, Dispatching
<1>2. Inv /\ [Next]_vars => Inv'
  BY StepTypes, WalkStep
<1>3. Inv => EachHandlerIsCalledOnce
  <2> SUFFICES ASSUME TypeOK, Walk, DispatchDone, NEW f \in dispatch.owed
               PROVE  CalledOnce(f) \/ (dispatch.careless /\ f \notin Range(dispatch.called))
    BY DEF EachHandlerIsCalledOnce
  <2>1. Dispatching /\ dispatch \in Dispatch /\ dispatch.i > dispatch.mlist_size
    BY DEF DispatchDone, TypeOK, Dispatching
  <2>2. dispatch.called \in Seq(AllFuns) /\ DOMAIN dispatch.called = 1..Len(dispatch.called)
    BY <2>1 DEF Dispatch
  <2>3. PICK p \in 1..Len(msg_list) : Serves(msg_list, dispatch, f, p)
    BY <2>1 DEF Walk, OwedServed
  <2>4. p < dispatch.i
    BY <2>1, <2>3 DEF Serves, Dispatch
  <2>5. CASE CalledJustOnce(dispatch.called, f)
    BY <2>2, <2>5 DEF CalledJustOnce, CalledOnce
  <2>6. CASE dispatch.careless /\ NotCalled(dispatch.called, f)
    BY <2>2, <2>6 DEF NotCalled, Range
  <2>7. QED BY <2>3, <2>4, <2>5, <2>6 DEF Serves
<1> HIDE DEF Inv
<1>4. QED BY <1>1, <1>2, <1>3, PTL DEF Spec

=============================================================================
