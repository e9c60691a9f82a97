--------------------------- MODULE ApiCallProofs ---------------------------
(***************************************************************************)
(* That a call is answered once, by its own handler, which runs at most    *)
(* once, for any number of processes, calls, crashes and exits.            *)
(*                                                                         *)
(* The lists and sockets are described by the sets of the calls that lie   *)
(* in them; what the invariants say of these sets is kept because each     *)
(* action moves a call from one to the next.                               *)
(***************************************************************************)
EXTENDS ApiCall, FiniteSetTheorems, DataLemmas

\* The entries at some positions of a list come in their order: there is an
\* enumeration of the positions.
LEMMA AscendingExists ==
    ASSUME NEW n \in Nat, NEW S \in SUBSET (1..n)
    PROVE  \E p \in [1..Cardinality(S) -> S] :
              \A i, j \in 1..Cardinality(S) : i < j => p[i] < p[j]
<1> DEFINE Has(T) == \E p \in [1..Cardinality(T) -> T] :
                        \A i, j \in 1..Cardinality(T) : i < j => p[i] < p[j]
           Bad == {m \in Nat : \E T \in SUBSET (1..m) : ~Has(T)}
<1>1. SUFFICES ASSUME Bad # {} PROVE FALSE
  <2>1. ~Has(S) => n \in Bad
    BY DEF Bad
  <2>2. QED BY <2>1
<1> HIDE DEF Bad
<1>2. PICK m \in Bad : \A k \in Bad : m <= k
  <2>1. Bad \in SUBSET Nat
    BY DEF Bad
  <2>2. QED BY <1>1, <2>1, MinProperties
<1>3. m \in Nat
  BY DEF Bad
<1>4. PICK T \in SUBSET (1..m) : ~Has(T)
  BY DEF Bad
<1>5. CASE m = 0
  <2>0. 1..m = {}
    BY <1>5
  <2>1. T = {} /\ Cardinality(T) = 0
    BY <1>4, <2>0, FS_EmptySet
  <2>2. [k \in 1..0 |-> k] \in [1..Cardinality(T) -> T]
    BY <2>1
  <2>3. Has(T)
    BY <2>1, <2>2
  <2>4. QED BY <1>4, <2>3
<1>6. CASE m # 0
  <2> DEFINE U == T \ {m}
  <2>1. m - 1 \in Nat /\ U \in SUBSET (1..(m - 1)) /\ \A u \in U : u < m /\ u \in Nat
    BY <1>3, <1>4, <1>6
  <2>2. m - 1 \notin Bad
    BY <1>2, <1>3, <2>1
  <2> HIDE DEF Has
  <2>3. Has(U)
    BY <2>1, <2>2 DEF Bad
  <2> USE DEF Has
  <2>4. m \in T
    <3>1. m \notin T => U = T
      OBVIOUS
    <3>2. QED BY <1>4, <2>3, <3>1
  <2>5. PICK p \in [1..Cardinality(U) -> U] :
           \A i, j \in 1..Cardinality(U) : i < j => p[i] < p[j]
    BY <2>3
  <2>6. IsFiniteSet(U) /\ Cardinality(U) \in Nat /\ Cardinality(T) = Cardinality(U) + 1
    <3>1. IsFiniteSet(U)
      BY <2>1, FS_Interval, FS_Subset, 1 \in Int, m - 1 \in Int
    <3>2. U \cup {m} = T /\ m \notin U
      BY <2>4
    <3>3. QED BY <3>1, <3>2, FS_CardinalityType, FS_AddElement
  <2> DEFINE N == Cardinality(U)
             q == [k \in 1..(N + 1) |-> IF k = N + 1 THEN m ELSE p[k]]
  <2> HIDE DEF U, N, Has
  <2>7. /\ q \in [1..(N + 1) -> T]
        /\ \A i, j \in 1..(N + 1) : i < j => q[i] < q[j]
    <3>1. N \in Nat /\ \A k \in 1..N : p[k] \in U /\ p[k] \in T /\ p[k] < m
      BY <2>1, <2>5, <2>6 DEF N, U
    <3>2. \A i, j \in 1..N : i < j => p[i] < p[j]
      BY <2>5 DEF N
    <3>3. QED BY <2>4, <3>1, <3>2
  <2>8. Has(T)
    BY <2>6, <2>7 DEF Has, N
  <2>9. QED BY <1>4, <2>8
<1>7. QED BY <1>5, <1>6

\* The entries at the positions in S are those, in a list of their own.
LEMMA EntriesAtProperties ==
    ASSUME NEW T, NEW s \in Seq(T), NEW S \in SUBSET (1..Len(s)), NEW F, NEW v
    PROVE  /\ EntriesAt(s, S) \in Seq(T)
           /\ Said(EntriesAt(s, S), F, v) = {v[s[k]] : k \in {j \in S : s[j] \in F}}
           /\ (\A j, k \in S : s[j] \in F /\ s[k] \in F /\ v[s[j]] = v[s[k]] => j = k)
                 => Once(EntriesAt(s, S), F, v)
<1> DEFINE N == Cardinality(S)
           p == Ascending(S)
           t == EntriesAt(s, S)
<1>1. Len(s) \in Nat /\ \A k \in 1..Len(s) : s[k] \in T
  BY LenProperties
<1>2. IsFiniteSet(S) /\ N \in Nat
  BY <1>1, FS_Interval, FS_Subset, FS_CardinalityType, 1 \in Int, Len(s) \in Int
<1>3. p \in [1..N -> S] /\ \A i, j \in 1..N : i < j => p[i] < p[j]
  <2>1. \E f \in [1..N -> S] : \A i, j \in 1..N : i < j => f[i] < f[j]
    BY <1>1, AscendingExists
  <2>2. \E f \in [1..N -> S] : \A i, j \in DOMAIN f : i < j => f[i] < f[j]
    BY <2>1
  <2>3. p \in [1..N -> S] /\ \A i, j \in DOMAIN p : i < j => p[i] < p[j]
    BY <2>2 DEF Ascending
  <2>4. QED BY <2>3
<1>4. t = [k \in 1..N |-> s[p[k]]]
  BY DEF EntriesAt
<1> HIDE DEF N, p, t
<1>5. \A i, j \in 1..N : p[i] = p[j] => i = j
  <2>1. SUFFICES ASSUME NEW i \in 1..N, NEW j \in 1..N, p[i] = p[j], i # j PROVE FALSE
    OBVIOUS
  <2>2. p[i] \in Int /\ p[j] \in Int
    <3>1. p[i] \in 1..Len(s) /\ p[j] \in 1..Len(s)
      BY <1>3
    <3>2. QED BY <3>1
  <2>3. CASE i < j
    BY <1>3, <2>1, <2>2, <2>3
  <2>4. CASE j < i
    BY <1>3, <2>1, <2>2, <2>4
  <2>5. QED BY <1>2, <2>1, <2>3, <2>4
<1>6. \A k \in S : \E i \in 1..N : p[i] = k
  <2>1. p \in Injection(1..N, S)
    BY <1>3, <1>5 DEF Injection, IsInjective
  <2>2. Cardinality(1..N) = N
    BY <1>2, FS_Interval
  <2>3. p \in Surjection(1..N, S)
    BY <1>2, <2>1, <2>2, FS_Injection DEF N
  <2>4. QED BY <2>3 DEF Surjection
<1>7. \A k \in 1..N : p[k] \in S /\ p[k] \in 1..Len(s) /\ t[k] = s[p[k]] /\ t[k] \in T
  BY <1>1, <1>3, <1>4
<1>8. t \in Seq(T) /\ Len(t) = N
  BY <1>2, <1>4, <1>7
<1>9. Said(t, F, v) = {v[s[k]] : k \in {j \in S : s[j] \in F}}
  <2> DEFINE V == {v[s[k]] : k \in {j \in S : s[j] \in F}}
  <2>1. ASSUME NEW x \in Said(t, F, v) PROVE x \in V
    <3>1. PICK k \in 1..N : t[k] \in F /\ x = v[t[k]]
      BY <1>8, SaidIff
    <3>2. QED BY <1>7, <3>1
  <2>2. ASSUME NEW k \in S, s[k] \in F PROVE v[s[k]] \in Said(t, F, v)
    <3>1. PICK i \in 1..N : p[i] = k
      BY <1>6
    <3>2. t[i] = s[k]
      BY <1>7, <3>1
    <3>3. QED BY <1>8, <2>2, <3>2, SaidIff
  <2>3. QED BY <2>1, <2>2
<1>10. ASSUME \A j, k \in S : s[j] \in F /\ s[k] \in F /\ v[s[j]] = v[s[k]] => j = k
       PROVE  Once(t, F, v)
  <2> SUFFICES ASSUME NEW j \in 1..N, NEW k \in 1..N,
                      t[j] \in F, t[k] \in F, v[t[j]] = v[t[k]]
               PROVE  j = k
    BY <1>8 DEF Once
  <2>1. /\ t[j] = s[p[j]] /\ p[j] \in S
        /\ t[k] = s[p[k]] /\ p[k] \in S
    BY <1>7
  <2>2. p[j] = p[k]
    BY <1>10, <2>1
  <2>3. QED BY <1>5, <2>2
<1>11. QED BY <1>8, <1>9, <1>10 DEF t

-----------------------------------------------------------------------------
\* The calls in the lists and sockets

\* The calls of a list, and that it holds none twice.
Calls(s) == Said(s, CallRecord, [c \in CallRecord |-> c])
NoneTwice(s) == Once(s, CallRecord, [c \in CallRecord |-> Id(c)])

\* Two sets of calls have none in common.
Apart(A, B) == \A a \in A, b \in B : Id(a) # Id(b)

CallPacket == [iit : {"API_CALL"}, send_pid : Handles, call : CallRecord]
EndPacket == [iit : {"API_END"}, send_pid : Handles, call : CallRecord]
RelayPacket == [iit : {"API_RELAY"}, call : CallRecord]
PacketCall == [p \in CallPacket \cup RelayPacket |-> p.call]
PacketId == [p \in CallPacket \cup RelayPacket |-> Id(p.call)]

\* In the daemon's socket: the calls, and the end records.
Called == Said(toDaemon, CallPacket, PacketCall)
CalledOnce == Once(toDaemon, CallPacket, PacketId)
Ends == Said(toDaemon, EndPacket, [p \in EndPacket |-> p])

\* In the socket of a client: the relayed calls, and the answers.
RelaysIn(s) == Said(s, RelayPacket, PacketCall)
RelaysOnce(s) == Once(s, RelayPacket, PacketId)
AcksIn(s) == Said(s, AckPacket, [a \in AckPacket |-> a])
AcksOnce(s) == Once(s, AckPacket, [a \in AckPacket |-> a.ack_id])

LEMMA CallParts ==
    ASSUME NEW c \in CallRecord
    PROVE  /\ c.send_pid \in Callers /\ c.send_pid \in Handles
           /\ c.ack_id \in 0..(MaxCalls - 1) /\ c.ack_id \in Nat
           /\ c.pname \in Handles /\ c.api_name \in Apis
           /\ c.daemon_count_number \in Timeouts \cup Int
           /\ c.daemon_magic_number \in Nat
           /\ Id(c) = <<c.send_pid, c.ack_id>> /\ Id(c) \in CallIds
           /\ Id(c)[1] = c.send_pid /\ Id(c)[2] = c.ack_id
BY CallersAssumption DEF CallRecord, Id, CallIds

LEMMA IdParts ==
    ASSUME NEW id \in CallIds
    PROVE  /\ id[1] \in Callers /\ id[1] \in Handles /\ id[2] \in 0..(MaxCalls - 1)
           /\ id[2] \in Nat /\ id = <<id[1], id[2]>>
BY CallersAssumption, BoundsAssumption DEF CallIds

LEMMA PacketParts ==
    /\ DaemonPacket = CallPacket \cup EndPacket
          \cup [iit : {"API_REGISTER", "API_UNREGISTER"}, send_pid : Handles, api_name : Apis]
          \cup [iit : {"EXIT"}, send_pid : Handles]
    /\ \A p \in DaemonPacket :
          /\ p.send_pid \in Handles
          /\ p.iit = "API_CALL" <=> p \in CallPacket
          /\ p.iit = "API_END" <=> p \in EndPacket
          /\ p.iit \in {"API_REGISTER", "API_UNREGISTER"} => p.api_name \in Apis
    /\ \A p \in CallPacket \cup EndPacket \cup RelayPacket : p.call \in CallRecord
    /\ ClientPacket = RelayPacket \cup AckPacket
    /\ \A p \in ClientPacket : /\ p.iit = "API_RELAY" <=> p \in RelayPacket
                               /\ p.iit = "API_ACK" <=> p \in AckPacket
    /\ \A a \in AckPacket : /\ a.ack_id \in 0..(MaxCalls - 1) /\ a.ack_id \in Nat
                            /\ a.ack_result \in AckResults /\ a.of \in CallIds
    /\ RelayPacket \cap AckPacket = {} /\ CallPacket \cap EndPacket = {}
<1> USE DEF CallPacket, EndPacket, RelayPacket, DaemonPacket, ClientPacket, AckPacket
<1>1. DaemonPacket = CallPacket \cup EndPacket
          \cup [iit : {"API_REGISTER", "API_UNREGISTER"}, send_pid : Handles, api_name : Apis]
          \cup [iit : {"EXIT"}, send_pid : Handles]
  <2>1. ASSUME NEW p \in [iit : {"API_CALL", "API_END"}, send_pid : Handles, call : CallRecord]
        PROVE  p \in CallPacket \cup EndPacket
    OBVIOUS
  <2>2. ASSUME NEW p \in CallPacket \cup EndPacket
        PROVE  p \in [iit : {"API_CALL", "API_END"}, send_pid : Handles, call : CallRecord]
    OBVIOUS
  <2>3. QED BY <2>1, <2>2
<1>2. QED BY <1>1

LEMMA CallsInList ==
    ASSUME NEW s \in Seq(CallRecord)
    PROVE  /\ Calls(s) \subseteq CallRecord
           /\ \A k \in 1..Len(s) : s[k] \in Calls(s)
           /\ \A c \in Calls(s) : \E k \in 1..Len(s) : s[k] = c
           /\ {Id(c) : c \in Calls(s)} = Said(s, CallRecord, [c \in CallRecord |-> Id(c)])
<1>1. \A k \in 1..Len(s) : s[k] \in CallRecord
  OBVIOUS
<1>2. \A x : x \in Calls(s) <=> \E k \in 1..Len(s) : s[k] \in CallRecord /\ x = s[k]
  BY SaidIff, <1>1 DEF Calls
<1>3. \A x : x \in Said(s, CallRecord, [c \in CallRecord |-> Id(c)])
                <=> \E k \in 1..Len(s) : s[k] \in CallRecord /\ x = Id(s[k])
  BY SaidIff, <1>1
<1>4. QED BY <1>1, <1>2, <1>3

\* A call is appended to a list.
LEMMA CallsAppend ==
    ASSUME NEW s \in Seq(CallRecord), NEW c \in CallRecord
    PROVE  /\ Append(s, c) \in Seq(CallRecord)
           /\ Calls(Append(s, c)) = Calls(s) \cup {c}
           /\ NoneTwice(s) /\ Apart(Calls(s), {c}) => NoneTwice(Append(s, c))
<1>1. Append(s, c) \in Seq(CallRecord)
  BY AppendedTo
<1>2. Calls(Append(s, c)) = Calls(s) \cup {c}
  BY SaidAppend DEF Calls
<1>3. NoneTwice(s) /\ Id(c) \notin {Id(d) : d \in Calls(s)} => NoneTwice(Append(s, c))
  BY SaidAppend, CallsInList DEF NoneTwice
<1>4. QED BY <1>1, <1>2, <1>3 DEF Apart

\* The first call is taken from a list.
LEMMA CallsTail ==
    ASSUME NEW s \in Seq(CallRecord), s # <<>>
    PROVE  /\ Tail(s) \in Seq(CallRecord)
           /\ Head(s) \in CallRecord
           /\ Calls(s) = Calls(Tail(s)) \cup {Head(s)}
           /\ NoneTwice(s) => NoneTwice(Tail(s)) /\ Apart(Calls(Tail(s)), {Head(s)})
<1>1. Head(s) \in CallRecord /\ Tail(s) \in Seq(CallRecord)
  BY TakenFrom
<1>2. Calls(s) = Calls(Tail(s)) \cup {Head(s)}
  BY <1>1, SaidTail DEF Calls
<1>3. NoneTwice(s) => NoneTwice(Tail(s)) /\ Id(Head(s)) \notin {Id(d) : d \in Calls(Tail(s))}
  <2> DEFINE v == [c \in CallRecord |-> Id(c)]
  <2>1. Once(s, CallRecord, v) => /\ Once(Tail(s), CallRecord, v)
                                  /\ v[Head(s)] \notin Said(Tail(s), CallRecord, v)
    BY <1>1, SaidTail
  <2>2. v[Head(s)] = Id(Head(s))
    BY <1>1
  <2>3. Said(Tail(s), CallRecord, v) = {Id(d) : d \in Calls(Tail(s))}
    BY <1>1, CallsInList
  <2>4. QED BY <2>1, <2>2, <2>3 DEF NoneTwice
<1>4. QED BY <1>1, <1>2, <1>3 DEF Apart

\* The call at i is deleted from a list.
LEMMA CallsDelete ==
    ASSUME NEW s \in Seq(CallRecord), NEW i \in 1..Len(s)
    PROVE  /\ RemoveAt(s, i) \in Seq(CallRecord)
           /\ s[i] \in CallRecord
           /\ Calls(s) = Calls(RemoveAt(s, i)) \cup {s[i]}
           /\ NoneTwice(s) => NoneTwice(RemoveAt(s, i)) /\ Apart(Calls(RemoveAt(s, i)), {s[i]})
<1>1. s[i] \in CallRecord /\ RemoveAt(s, i) \in Seq(CallRecord)
  BY DeleteProperties
<1>2. Calls(s) = Calls(RemoveAt(s, i)) \cup {s[i]}
  BY <1>1, SaidDelete DEF Calls
<1>3. NoneTwice(s) => /\ NoneTwice(RemoveAt(s, i))
                      /\ Id(s[i]) \notin {Id(d) : d \in Calls(RemoveAt(s, i))}
  BY <1>1, SaidDelete, CallsInList DEF NoneTwice
<1>4. QED BY <1>1, <1>2, <1>3 DEF Apart

-----------------------------------------------------------------------------
\* What goes into a socket and comes out

LEMMA CallsInSocket ==
    ASSUME TypeOK
    PROVE  /\ Called \subseteq CallRecord
           /\ Said(toDaemon, CallPacket, PacketId) = {Id(c) : c \in Called}
           /\ Ends \subseteq EndPacket
<1>1. \A k \in 1..Len(toDaemon) : toDaemon[k] \in DaemonPacket
  BY DEF TypeOK
<1>2. \A x : x \in Called <=> \E k \in 1..Len(toDaemon) :
                                toDaemon[k] \in CallPacket /\ x = toDaemon[k].call
  <2>1. \A p \in CallPacket : PacketCall[p] = p.call
    BY DEF PacketCall
  <2>2. QED BY <2>1, SaidIff DEF Called
<1>3. \A x : x \in Said(toDaemon, CallPacket, PacketId) <=>
               \E k \in 1..Len(toDaemon) :
                  toDaemon[k] \in CallPacket /\ x = Id(toDaemon[k].call)
  <2>1. \A p \in CallPacket : PacketId[p] = Id(p.call)
    BY DEF PacketId
  <2>2. QED BY <2>1, SaidIff
<1>4. Ends \subseteq EndPacket
  BY SaidIff DEF Ends
<1>5. Called \subseteq CallRecord
  BY <1>2, PacketParts
<1>6. QED BY <1>2, <1>3, <1>4, <1>5

\* A packet is sent to the daemon.
LEMMA SentToDaemon ==
    ASSUME TypeOK, NEW p \in DaemonPacket, toDaemon' = Append(toDaemon, p)
    PROVE  /\ toDaemon' \in Seq(DaemonPacket)
           /\ p \in CallPacket => /\ Called' = Called \cup {p.call}
                                  /\ CalledOnce /\ Apart(Called, {p.call}) => CalledOnce'
           /\ p \notin CallPacket => Called' = Called /\ (CalledOnce => CalledOnce')
           /\ p \in EndPacket => Ends' = Ends \cup {p}
           /\ p \notin EndPacket => Ends' = Ends
<1>1. toDaemon \in Seq(DaemonPacket)
  BY DEF TypeOK
<1>2. p \in CallPacket => PacketCall[p] = p.call /\ PacketId[p] = Id(p.call)
  BY DEF PacketCall, PacketId
<1>3. toDaemon' \in Seq(DaemonPacket)
  BY <1>1, AppendedTo
<1>4. /\ p \in CallPacket => Called' = Called \cup {p.call}
      /\ p \notin CallPacket => Called' = Called
  BY <1>1, <1>2, SaidAppend DEF Called
<1>5. /\ p \in CallPacket /\ CalledOnce /\ Apart(Called, {p.call}) => CalledOnce'
      /\ p \notin CallPacket /\ CalledOnce => CalledOnce'
  <2>1. Apart(Called, {p.call}) /\ p \in CallPacket
           => PacketId[p] \notin Said(toDaemon, CallPacket, PacketId)
    BY <1>2, CallsInSocket DEF Apart
  <2>2. QED BY <1>1, <2>1, SaidAppend DEF CalledOnce
<1>6. p \in EndPacket => Ends' = Ends \cup {p}
  <2> DEFINE v == [e \in EndPacket |-> e]
  <2>1. p \in EndPacket => v[p] = p
    OBVIOUS
  <2> HIDE DEF v
  <2>2. p \in EndPacket
           => Said(toDaemon', EndPacket, v) = Said(toDaemon, EndPacket, v) \cup {v[p]}
    BY <1>1, SaidAppend
  <2>3. QED BY <2>1, <2>2 DEF Ends, v
<1>7. p \notin EndPacket => Ends' = Ends
  BY <1>1, SaidAppend DEF Ends
<1>8. QED BY <1>3, <1>4, <1>5, <1>6, <1>7

\* The daemon takes a packet.
LEMMA TookFromDaemon ==
    ASSUME TypeOK, NEW iit, Receives(iit)
    PROVE  /\ toDaemon' \in Seq(DaemonPacket)
           /\ Head(toDaemon) \in DaemonPacket /\ Head(toDaemon).iit = iit
           /\ Head(toDaemon) = toDaemon[1] /\ 1 \in 1..Len(toDaemon)
           /\ \A k \in 1..Len(toDaemon') :
                 k + 1 \in 1..Len(toDaemon) /\ toDaemon'[k] = toDaemon[k + 1]
           /\ iit = "API_CALL" =>
                 /\ Called = Called' \cup {Head(toDaemon).call}
                 /\ CalledOnce => CalledOnce' /\ Apart(Called', {Head(toDaemon).call})
           /\ iit # "API_CALL" => Called' = Called /\ (CalledOnce => CalledOnce')
           /\ Ends' \subseteq Ends
           /\ iit = "API_END" => Head(toDaemon) \in Ends
<1> DEFINE p == Head(toDaemon)
<1>1. toDaemon \in Seq(DaemonPacket) /\ toDaemon # <<>> /\ toDaemon' = Tail(toDaemon)
  BY DEF TypeOK, Receives
<1>2. /\ toDaemon' \in Seq(DaemonPacket)
      /\ p \in DaemonPacket /\ p = toDaemon[1] /\ 1 \in 1..Len(toDaemon)
      /\ \A k \in 1..Len(toDaemon') :
            k + 1 \in 1..Len(toDaemon) /\ toDaemon'[k] = toDaemon[k + 1]
  BY <1>1, TakenFrom
<1>3. /\ p.iit = iit
      /\ iit = "API_CALL" <=> p \in CallPacket
      /\ iit = "API_END" <=> p \in EndPacket
  BY <1>2, PacketParts DEF Receives
<1>4. p \in CallPacket => PacketCall[p] = p.call /\ PacketId[p] = Id(p.call)
  BY DEF PacketCall, PacketId
<1>5. /\ p \in CallPacket => Called = Called' \cup {p.call}
      /\ p \notin CallPacket => Called' = Called
  BY <1>1, <1>4, SaidTail DEF Called
<1>6. Said(toDaemon', CallPacket, PacketId) = {Id(c) : c \in Called'}
  <2>1. \A x : x \in Called' <=> \E k \in 1..Len(toDaemon') :
                                 toDaemon'[k] \in CallPacket /\ x = toDaemon'[k].call
    <3>1. \A q \in CallPacket : PacketCall[q] = q.call
      BY DEF PacketCall
    <3>2. QED BY <3>1, SaidIff DEF Called
  <2>2. \A x : x \in Said(toDaemon', CallPacket, PacketId) <=>
                 \E k \in 1..Len(toDaemon') :
                    toDaemon'[k] \in CallPacket /\ x = Id(toDaemon'[k].call)
    <3>1. \A q \in CallPacket : PacketId[q] = Id(q.call)
      BY DEF PacketId
    <3>2. QED BY <3>1, SaidIff
  <2>3. QED BY <2>1, <2>2
<1>7. /\ CalledOnce => CalledOnce'
      /\ CalledOnce /\ p \in CallPacket => Apart(Called', {p.call})
  <2>1. CalledOnce => /\ CalledOnce'
                      /\ p \in CallPacket
                           => PacketId[p] \notin Said(toDaemon', CallPacket, PacketId)
    BY <1>1, SaidTail DEF CalledOnce
  <2>2. QED BY <1>4, <1>6, <2>1 DEF Apart
<1>8. Ends' \subseteq Ends /\ (p \in EndPacket => p \in Ends)
  <2> DEFINE v == [e \in EndPacket |-> e]
  <2>1. p \in EndPacket => v[p] = p
    OBVIOUS
  <2> HIDE DEF v
  <2>2. /\ Said(toDaemon', EndPacket, v) \subseteq Said(toDaemon, EndPacket, v)
        /\ p \in EndPacket => v[p] \in Said(toDaemon, EndPacket, v)
    BY <1>1, SaidTail
  <2>3. QED BY <2>1, <2>2 DEF Ends, v
<1>9. QED BY <1>2, <1>3, <1>5, <1>7, <1>8

LEMMA InClientSocket ==
    ASSUME NEW s \in Seq(ClientPacket)
    PROVE  /\ RelaysIn(s) \subseteq CallRecord
           /\ \A c \in RelaysIn(s) : \E k \in 1..Len(s) : s[k] \in RelayPacket /\ s[k].call = c
           /\ Said(s, RelayPacket, PacketId) = {Id(c) : c \in RelaysIn(s)}
           /\ AcksIn(s) \subseteq AckPacket
           /\ \A a : a \in AcksIn(s) <=> \E k \in 1..Len(s) : s[k] \in AckPacket /\ s[k] = a
           /\ Said(s, AckPacket, [a \in AckPacket |-> a.ack_id]) = {a.ack_id : a \in AcksIn(s)}
<1>1. \A x : x \in RelaysIn(s) <=> \E k \in 1..Len(s) : s[k] \in RelayPacket /\ x = s[k].call
  <2>1. \A p \in RelayPacket : PacketCall[p] = p.call
    BY DEF PacketCall
  <2>2. QED BY <2>1, SaidIff DEF RelaysIn
<1>2. \A x : x \in Said(s, RelayPacket, PacketId) <=>
               \E k \in 1..Len(s) : s[k] \in RelayPacket /\ x = Id(s[k].call)
  <2>1. \A p \in RelayPacket : PacketId[p] = Id(p.call)
    BY DEF PacketId
  <2>2. QED BY <2>1, SaidIff
<1>3. \A x : x \in AcksIn(s) <=> \E k \in 1..Len(s) : s[k] \in AckPacket /\ x = s[k]
  BY SaidIff DEF AcksIn
<1>4. \A x : x \in Said(s, AckPacket, [a \in AckPacket |-> a.ack_id]) <=>
               \E k \in 1..Len(s) : s[k] \in AckPacket /\ x = s[k].ack_id
  BY SaidIff
<1>5. RelaysIn(s) \subseteq CallRecord
  BY <1>1, PacketParts
<1>6. QED BY <1>1, <1>2, <1>3, <1>4, <1>5

\* A packet is sent to a client.
LEMMA SentToClient ==
    ASSUME NEW s \in Seq(ClientPacket), NEW p \in ClientPacket
    PROVE  /\ Append(s, p) \in Seq(ClientPacket)
           /\ p \in RelayPacket =>
                 /\ RelaysIn(Append(s, p)) = RelaysIn(s) \cup {p.call}
                 /\ RelaysOnce(s) /\ Apart(RelaysIn(s), {p.call}) => RelaysOnce(Append(s, p))
                 /\ AcksIn(Append(s, p)) = AcksIn(s)
                 /\ AcksOnce(s) => AcksOnce(Append(s, p))
           /\ p \in AckPacket =>
                 /\ RelaysIn(Append(s, p)) = RelaysIn(s)
                 /\ RelaysOnce(s) => RelaysOnce(Append(s, p))
                 /\ AcksIn(Append(s, p)) = AcksIn(s) \cup {p}
                 /\ AcksOnce(s) /\ (\A a \in AcksIn(s) : a.ack_id # p.ack_id)
                       => AcksOnce(Append(s, p))
<1>1. Append(s, p) \in Seq(ClientPacket)
  BY AppendedTo
<1>2. ~(p \in RelayPacket /\ p \in AckPacket)
  BY PacketParts
<1>3. p \in RelayPacket => PacketCall[p] = p.call /\ PacketId[p] = Id(p.call)
  BY DEF PacketCall, PacketId
<1>4. /\ p \in RelayPacket => RelaysIn(Append(s, p)) = RelaysIn(s) \cup {p.call}
      /\ p \notin RelayPacket => RelaysIn(Append(s, p)) = RelaysIn(s)
  BY <1>3, SaidAppend DEF RelaysIn
<1>5. /\ p \in RelayPacket /\ RelaysOnce(s) /\ Apart(RelaysIn(s), {p.call})
            => RelaysOnce(Append(s, p))
      /\ p \notin RelayPacket /\ RelaysOnce(s) => RelaysOnce(Append(s, p))
  <2>1. p \in RelayPacket /\ Apart(RelaysIn(s), {p.call})
           => PacketId[p] \notin Said(s, RelayPacket, PacketId)
    BY <1>3, InClientSocket DEF Apart
  <2>2. QED BY <2>1, SaidAppend DEF RelaysOnce
<1>6. /\ p \in AckPacket => AcksIn(Append(s, p)) = AcksIn(s) \cup {p}
      /\ p \notin AckPacket => AcksIn(Append(s, p)) = AcksIn(s)
  <2> DEFINE v == [a \in AckPacket |-> a]
  <2>1. p \in AckPacket => v[p] = p
    OBVIOUS
  <2> HIDE DEF v
  <2>2. /\ p \in AckPacket => Said(Append(s, p), AckPacket, v) = Said(s, AckPacket, v) \cup {v[p]}
        /\ p \notin AckPacket => Said(Append(s, p), AckPacket, v) = Said(s, AckPacket, v)
    BY SaidAppend
  <2>3. QED BY <2>1, <2>2 DEF AcksIn, v
<1>7. /\ p \in AckPacket /\ AcksOnce(s) /\ (\A a \in AcksIn(s) : a.ack_id # p.ack_id)
            => AcksOnce(Append(s, p))
      /\ p \notin AckPacket /\ AcksOnce(s) => AcksOnce(Append(s, p))
  <2> DEFINE v == [a \in AckPacket |-> a.ack_id]
  <2>1. p \in AckPacket => v[p] = p.ack_id
    OBVIOUS
  <2>2. Said(s, AckPacket, v) = {a.ack_id : a \in AcksIn(s)}
    BY InClientSocket
  <2> HIDE DEF v
  <2>3. p \in AckPacket /\ (\A a \in AcksIn(s) : a.ack_id # p.ack_id)
           => v[p] \notin Said(s, AckPacket, v)
    BY <2>1, <2>2
  <2>4. /\ p \in AckPacket /\ Once(s, AckPacket, v) /\ v[p] \notin Said(s, AckPacket, v)
             => Once(Append(s, p), AckPacket, v)
        /\ p \notin AckPacket /\ Once(s, AckPacket, v) => Once(Append(s, p), AckPacket, v)
    BY SaidAppend
  <2>5. QED BY <2>3, <2>4 DEF AcksOnce, v
<1>8. QED BY <1>1, <1>2, <1>4, <1>5, <1>6, <1>7

\* A client takes a packet.
LEMMA TookFromClient ==
    ASSUME NEW s \in Seq(ClientPacket), s # <<>>
    PROVE  /\ Head(s) \in ClientPacket
           /\ Tail(s) \in Seq(ClientPacket)
           /\ Head(s) \in RelayPacket =>
                 /\ RelaysIn(s) = RelaysIn(Tail(s)) \cup {Head(s).call}
                 /\ RelaysOnce(s) => RelaysOnce(Tail(s)) /\ Apart(RelaysIn(Tail(s)), {Head(s).call})
                 /\ AcksIn(Tail(s)) = AcksIn(s)
                 /\ AcksOnce(s) => AcksOnce(Tail(s))
           /\ Head(s) \in AckPacket =>
                 /\ RelaysIn(Tail(s)) = RelaysIn(s)
                 /\ RelaysOnce(s) => RelaysOnce(Tail(s))
                 /\ AcksIn(s) = AcksIn(Tail(s)) \cup {Head(s)}
                 /\ AcksOnce(s) => /\ AcksOnce(Tail(s))
                                   /\ \A a \in AcksIn(Tail(s)) : a.ack_id # Head(s).ack_id
<1> DEFINE p == Head(s)
<1>1. p \in ClientPacket /\ Tail(s) \in Seq(ClientPacket)
  BY TakenFrom
<1>2. ~(p \in RelayPacket /\ p \in AckPacket)
  BY PacketParts
<1>3. p \in RelayPacket => PacketCall[p] = p.call /\ PacketId[p] = Id(p.call)
  BY DEF PacketCall, PacketId
<1>4. /\ p \in RelayPacket => RelaysIn(s) = RelaysIn(Tail(s)) \cup {p.call}
      /\ p \notin RelayPacket => RelaysIn(Tail(s)) = RelaysIn(s)
  BY <1>3, SaidTail DEF RelaysIn
<1>5. RelaysOnce(s) => /\ RelaysOnce(Tail(s))
                       /\ p \in RelayPacket => Apart(RelaysIn(Tail(s)), {p.call})
  <2>1. RelaysOnce(s) => /\ RelaysOnce(Tail(s))
                         /\ p \in RelayPacket
                               => PacketId[p] \notin Said(Tail(s), RelayPacket, PacketId)
    BY SaidTail DEF RelaysOnce
  <2>2. Said(Tail(s), RelayPacket, PacketId) = {Id(c) : c \in RelaysIn(Tail(s))}
    BY <1>1, InClientSocket
  <2>3. p \in RelayPacket /\ Id(p.call) \notin {Id(c) : c \in RelaysIn(Tail(s))}
           => Apart(RelaysIn(Tail(s)), {p.call})
    BY DEF Apart
  <2>4. QED BY <1>3, <2>1, <2>2, <2>3
<1>6. /\ p \in AckPacket => AcksIn(s) = AcksIn(Tail(s)) \cup {p}
      /\ p \notin AckPacket => AcksIn(Tail(s)) = AcksIn(s)
  <2> DEFINE v == [a \in AckPacket |-> a]
  <2>1. p \in AckPacket => v[p] = p
    OBVIOUS
  <2> HIDE DEF v
  <2>2. /\ p \in AckPacket => Said(s, AckPacket, v) = Said(Tail(s), AckPacket, v) \cup {v[p]}
        /\ p \notin AckPacket => Said(Tail(s), AckPacket, v) = Said(s, AckPacket, v)
    BY SaidTail
  <2>3. QED BY <2>1, <2>2 DEF AcksIn, v
<1>7. AcksOnce(s) => /\ AcksOnce(Tail(s))
                     /\ p \in AckPacket => \A a \in AcksIn(Tail(s)) : a.ack_id # p.ack_id
  <2> DEFINE v == [a \in AckPacket |-> a.ack_id]
  <2>1. p \in AckPacket => v[p] = p.ack_id
    OBVIOUS
  <2>2. Said(Tail(s), AckPacket, v) = {a.ack_id : a \in AcksIn(Tail(s))}
    BY <1>1, InClientSocket
  <2> HIDE DEF v
  <2>3. Once(s, AckPacket, v) => /\ Once(Tail(s), AckPacket, v)
                                 /\ p \in AckPacket => v[p] \notin Said(Tail(s), AckPacket, v)
    BY SaidTail
  <2>4. QED BY <2>1, <2>2, <2>3 DEF AcksOnce, v
<1>8. QED BY <1>1, <1>2, <1>4, <1>5, <1>6, <1>7

\* The daemon sends a packet to h, if that can be reached.
LEMMA Relaying ==
    ASSUME TypeOK, NEW h \in Handles, NEW p \in ClientPacket, Relay(h, p)
    PROVE  /\ toClient' \in [Handles -> Seq(ClientPacket)]
           /\ Reachable(h) => toClient'[h] = Append(toClient[h], p)
           /\ ~Reachable(h) => toClient'[h] = toClient[h]
           /\ \A g \in Handles : g # h => toClient'[g] = toClient[g]
<1>1. Append(toClient[h], p) \in Seq(ClientPacket)
  BY SentToClient DEF TypeOK
<1>2. QED BY <1>1 DEF Relay, TypeOK

LEMMA CountedParts ==
    ASSUME NEW c \in CallRecord
    PROVE  /\ Counted(c) \in CallRecord
           /\ Counted(c).send_pid = c.send_pid /\ Counted(c).ack_id = c.ack_id
           /\ Counted(c).pname = c.pname /\ Counted(c).api_name = c.api_name
           /\ Counted(c).daemon_magic_number = c.daemon_magic_number
           /\ Id(Counted(c)) = Id(c)
<1>1. c.daemon_count_number # Forever => c.daemon_count_number - 1 \in Int
  <2>1. \A t \in Timeouts \cup Int : t # Forever => t \in Int
    BY TimeoutsAssumption
  <2>2. \A t \in Int : t - 1 \in Int
    OBVIOUS
  <2>3. c.daemon_count_number # Forever => c.daemon_count_number \in Int
    BY <2>1, CallParts
  <2>4. QED BY <2>2, <2>3
<1>2. QED BY <1>1 DEF CallRecord, Counted, Id

\* The calls that the timeout thread ends, for the caller h.
Ended(h) == {c \in Calls(recv_acklist) :
                Expired(Counted(c)) /\ c.send_pid = h /\ Reachable(h)}

\* The timeout thread answers what has expired, and keeps the rest.
LEMMA Ticking ==
    ASSUME TypeOK, Tick
    PROVE  /\ recv_acklist' \in Seq(CallRecord)
           /\ Calls(recv_acklist') =
                 {Counted(c) : c \in {d \in Calls(recv_acklist) : ~Expired(Counted(d))}}
           /\ NoneTwice(recv_acklist) => NoneTwice(recv_acklist')
           /\ toClient' \in [Handles -> Seq(ClientPacket)]
           /\ \A h \in Handles :
                 /\ RelaysIn(toClient'[h]) = RelaysIn(toClient[h])
                 /\ RelaysOnce(toClient[h]) => RelaysOnce(toClient'[h])
                 /\ AcksIn(toClient'[h]) = AcksIn(toClient[h])
                       \cup {Ack(c.ack_id, "TIMEOUT", Id(c)) : c \in Ended(h)}
                 /\ /\ NoneTwice(recv_acklist)
                    /\ AcksOnce(toClient[h])
                    /\ \A a \in AcksIn(toClient[h]), c \in Ended(h) : a.ack_id # c.ack_id
                    => AcksOnce(toClient'[h])
<1> DEFINE s == recv_acklist
           n == [k \in DOMAIN s |-> Counted(s[k])]
           keep == {k \in 1..Len(s) : ~Expired(n[k])}
           w == [c \in CallRecord |-> c]
           i == [c \in CallRecord |-> Id(c)]
<1>1. /\ s \in Seq(CallRecord) /\ DOMAIN s = 1..Len(s) /\ Len(s) \in Nat
      /\ \A k \in 1..Len(s) : s[k] \in CallRecord
  BY DEF TypeOK
<1>2. /\ n \in Seq(CallRecord) /\ Len(n) = Len(s) /\ DOMAIN n = 1..Len(s)
      /\ \A k \in 1..Len(s) : n[k] = Counted(s[k]) /\ n[k] \in CallRecord
  BY <1>1, CountedParts
<1>3. /\ recv_acklist' = Remaining(n)
      /\ toClient' = [h \in Handles |-> toClient[h] \o Late(n, h)]
  BY DEF Tick
<1> HIDE DEF s, n, keep, w, i
<1>4. recv_acklist' = EntriesAt(n, keep) /\ keep \in SUBSET (1..Len(n))
  BY <1>2, <1>3 DEF Remaining, keep
<1>5. recv_acklist' \in Seq(CallRecord)
  BY <1>2, <1>4, EntriesAtProperties
<1>6. \A k \in 1..Len(s) : w[n[k]] = Counted(s[k]) /\ i[n[k]] = Id(s[k]) /\ i[s[k]] = Id(s[k])
  BY <1>1, <1>2, CountedParts DEF w, i
<1>7. Calls(recv_acklist') = {Counted(c) : c \in {d \in Calls(s) : ~Expired(Counted(d))}}
  <2> DEFINE V == {Counted(c) : c \in {d \in Calls(s) : ~Expired(Counted(d))}}
  <2>1. Said(recv_acklist', CallRecord, w) = {w[n[k]] : k \in {j \in keep : n[j] \in CallRecord}}
    BY <1>2, <1>4, EntriesAtProperties
  <2>2. ASSUME NEW x \in Said(recv_acklist', CallRecord, w) PROVE x \in V
    <3>1. PICK k \in keep : x = w[n[k]]
      BY <2>1
    <3>2. k \in 1..Len(s) /\ x = Counted(s[k]) /\ ~Expired(Counted(s[k]))
      BY <1>2, <1>6, <3>1 DEF keep
    <3>3. s[k] \in Calls(s)
      BY <1>1, <3>2, CallsInList
    <3>4. QED BY <3>2, <3>3
  <2>3. ASSUME NEW c \in Calls(s), ~Expired(Counted(c))
        PROVE  Counted(c) \in Said(recv_acklist', CallRecord, w)
    <3>1. PICK k \in 1..Len(s) : s[k] = c
      BY <1>1, CallsInList
    <3>2. k \in keep /\ n[k] \in CallRecord /\ w[n[k]] = Counted(c)
      BY <1>2, <1>6, <2>3, <3>1 DEF keep
    <3>3. QED BY <2>1, <3>2
  <2>4. QED BY <2>2, <2>3 DEF Calls, w
<1>8. NoneTwice(s) => NoneTwice(recv_acklist')
  <2>1. Once(s, CallRecord, i) => Once(n, CallRecord, i)
    BY <1>1, <1>2, <1>6 DEF Once
  <2>2. Once(n, CallRecord, i) => Once(recv_acklist', CallRecord, i)
    <3>1. Once(n, CallRecord, i) => \A j, k \in keep :
             n[j] \in CallRecord /\ n[k] \in CallRecord /\ i[n[j]] = i[n[k]] => j = k
      BY <1>4 DEF Once
    <3>2. QED BY <1>2, <1>4, <3>1, EntriesAtProperties
  <2>3. QED BY <2>1, <2>2 DEF NoneTwice, i
<1>9. ASSUME NEW h \in Handles
      PROVE  /\ toClient'[h] \in Seq(ClientPacket)
             /\ RelaysIn(toClient'[h]) = RelaysIn(toClient[h])
             /\ RelaysOnce(toClient[h]) => RelaysOnce(toClient'[h])
             /\ AcksIn(toClient'[h]) = AcksIn(toClient[h])
                   \cup {Ack(c.ack_id, "TIMEOUT", Id(c)) : c \in Ended(h)}
             /\ /\ NoneTwice(s)
                /\ AcksOnce(toClient[h])
                /\ \A a \in AcksIn(toClient[h]), c \in Ended(h) : a.ack_id # c.ack_id
                => AcksOnce(toClient'[h])
  <2> DEFINE A == [k \in DOMAIN n |-> Ack(n[k].ack_id, "TIMEOUT", Id(n[k]))]
             due == {k \in 1..Len(s) : Expired(n[k]) /\ n[k].send_pid = h /\ Reachable(h)}
             L == EntriesAt(A, due)
             q == toClient[h]
             v == [a \in AckPacket |-> a]
             u == [a \in AckPacket |-> a.ack_id]
  <2>1. toClient'[h] = q \o L /\ q \in Seq(ClientPacket)
    BY <1>2, <1>3 DEF Late, TypeOK
  <2>2. /\ A \in Seq(AckPacket) /\ Len(A) = Len(s)
        /\ \A k \in 1..Len(s) : /\ A[k] = Ack(s[k].ack_id, "TIMEOUT", Id(s[k]))
                                /\ A[k] \in AckPacket /\ A[k].ack_id = s[k].ack_id
                                /\ n[k].send_pid = s[k].send_pid
    <3>1. \A k \in 1..Len(s) : /\ n[k].ack_id = s[k].ack_id /\ Id(n[k]) = Id(s[k])
                               /\ n[k].send_pid = s[k].send_pid
      BY <1>1, <1>2, CountedParts
    <3>2. \A k \in 1..Len(s) : s[k].ack_id \in 0..(MaxCalls - 1) /\ Id(s[k]) \in CallIds
      BY <1>1, CallParts
    <3>3. \A k \in 1..Len(s) : A[k] = Ack(s[k].ack_id, "TIMEOUT", Id(s[k]))
      BY <1>2, <3>1
    <3>4. \A k \in 1..Len(s) : Ack(s[k].ack_id, "TIMEOUT", Id(s[k])) \in AckPacket
      BY <3>2 DEF Ack, AckPacket, AckResults
    <3>5. \A k \in 1..Len(s) : Ack(s[k].ack_id, "TIMEOUT", Id(s[k])).ack_id = s[k].ack_id
      BY DEF Ack
    <3>6. DOMAIN A = 1..Len(s)
      BY <1>2
    <3> HIDE DEF A
    <3>7. A \in Seq(AckPacket) /\ Len(A) = Len(s)
      <4>1. A = [k \in 1..Len(s) |-> A[k]]
        BY <1>2, <3>6 DEF A
      <4>2. \A k \in 1..Len(s) : A[k] \in AckPacket
        BY <3>3, <3>4
      <4>3. QED BY <1>1, <4>1, <4>2
    <3>8. QED BY <3>1, <3>3, <3>4, <3>5, <3>7
  <2>3. due \in SUBSET (1..Len(A))
    BY <2>2
  <2> HIDE DEF A, due, L, q
  <2>4. L \in Seq(AckPacket) /\ L \in Seq(ClientPacket)
    <3>1. L \in Seq(AckPacket)
      BY <2>2, <2>3, EntriesAtProperties DEF L
    <3>2. AckPacket \subseteq ClientPacket
      BY PacketParts
    <3>3. QED BY <3>1, <3>2
  <2>5. RelaysIn(L) = {} /\ RelaysOnce(L)
    <3>1. \A k \in 1..Len(L) : L[k] \in AckPacket
      BY <2>4
    <3>2. \A k \in 1..Len(L) : L[k] \notin RelayPacket
      BY <3>1, PacketParts
    <3>3. QED BY <3>2, SaidIff DEF RelaysIn, RelaysOnce, Once
  <2>6. AcksIn(L) = {Ack(c.ack_id, "TIMEOUT", Id(c)) : c \in Ended(h)}
    <3> DEFINE V == {Ack(c.ack_id, "TIMEOUT", Id(c)) : c \in Ended(h)}
    <3> HIDE DEF v
    <3>1. Said(L, AckPacket, v) = {v[A[k]] : k \in {j \in due : A[j] \in AckPacket}}
      BY <2>2, <2>3, EntriesAtProperties DEF L
    <3>2. \A k \in 1..Len(s) : v[A[k]] = Ack(s[k].ack_id, "TIMEOUT", Id(s[k]))
      BY <2>2 DEF v
    <3>3. ASSUME NEW x \in Said(L, AckPacket, v) PROVE x \in V
      <4>1. PICK k \in due : x = v[A[k]]
        BY <3>1
      <4>2. k \in 1..Len(s) /\ x = Ack(s[k].ack_id, "TIMEOUT", Id(s[k]))
        BY <3>2, <4>1 DEF due
      <4>3. s[k] \in Ended(h)
        <5>1. s[k] \in Calls(recv_acklist)
          BY <1>1, <4>2, CallsInList DEF s
        <5>2. Expired(Counted(s[k])) /\ s[k].send_pid = h /\ Reachable(h)
          BY <1>2, <2>2, <4>1, <4>2 DEF due
        <5>3. QED BY <5>1, <5>2 DEF Ended
      <4>4. QED BY <4>2, <4>3
    <3>4. ASSUME NEW c \in Ended(h)
          PROVE  Ack(c.ack_id, "TIMEOUT", Id(c)) \in Said(L, AckPacket, v)
      <4>1. PICK k \in 1..Len(s) : s[k] = c
        BY <1>1, CallsInList DEF Ended, s
      <4>2. k \in due
        BY <1>2, <2>2, <4>1 DEF Ended, due
      <4>3. A[k] \in AckPacket /\ v[A[k]] = Ack(c.ack_id, "TIMEOUT", Id(c))
        BY <2>2, <3>2, <4>1
      <4>4. QED BY <3>1, <4>2, <4>3
    <3>5. QED BY <3>3, <3>4 DEF AcksIn, v
  <2>7. NoneTwice(s) => AcksOnce(L)
    <3> HIDE DEF u
    <3>1. ASSUME NoneTwice(s)
          PROVE  \A j, k \in due : u[A[j]] = u[A[k]] => j = k
      <4>1. SUFFICES ASSUME NEW j \in due, NEW k \in due, u[A[j]] = u[A[k]] PROVE j = k
        OBVIOUS
      <4>2. /\ j \in 1..Len(s) /\ s[j] \in CallRecord /\ s[j].send_pid = h
            /\ k \in 1..Len(s) /\ s[k] \in CallRecord /\ s[k].send_pid = h
        BY <1>1, <2>2 DEF due
      <4>3. u[A[j]] = s[j].ack_id /\ u[A[k]] = s[k].ack_id
        BY <2>2, <4>2 DEF u
      <4>4. Id(s[j]) = Id(s[k])
        BY <4>1, <4>2, <4>3, CallParts
      <4>5. i[s[j]] = i[s[k]]
        BY <1>6, <4>2, <4>4
      <4>6. Once(s, CallRecord, i)
        BY <3>1 DEF NoneTwice, i
      <4>7. QED BY <4>2, <4>5, <4>6 DEF Once
    <3>2. ASSUME NoneTwice(s) PROVE Once(L, AckPacket, u)
      <4>1. \A j, k \in due : u[A[j]] = u[A[k]] => j = k
        BY <3>1, <3>2
      <4>2. QED BY <2>2, <2>3, <4>1, EntriesAtProperties DEF L
    <3>3. QED BY <3>2 DEF AcksOnce, u
  <2>8. AcksIn(q \o L) = AcksIn(q) \cup AcksIn(L)
    BY <2>1, <2>4, SaidConcat DEF AcksIn
  <2>9. RelaysIn(q \o L) = RelaysIn(q) /\ (RelaysOnce(q) => RelaysOnce(q \o L))
    <3>1. /\ RelaysIn(q \o L) = RelaysIn(q) \cup RelaysIn(L)
      BY <2>1, <2>4, SaidConcat DEF RelaysIn
    <3>2. Said(L, RelayPacket, PacketId) = {}
      BY <2>4, <2>5, InClientSocket
    <3>3. RelaysOnce(q) => RelaysOnce(q \o L)
      BY <2>1, <2>4, <2>5, <3>2, SaidConcat DEF RelaysOnce
    <3>4. QED BY <2>5, <3>1, <3>3
  <2>10. /\ NoneTwice(s) /\ AcksOnce(q)
         /\ \A a \in AcksIn(q), c \in Ended(h) : a.ack_id # c.ack_id
         => AcksOnce(q \o L)
    <3> SUFFICES ASSUME NoneTwice(s), AcksOnce(q),
                        \A a \in AcksIn(q), c \in Ended(h) : a.ack_id # c.ack_id
                 PROVE  AcksOnce(q \o L)
      OBVIOUS
    <3>1. /\ Said(q, AckPacket, u) = {a.ack_id : a \in AcksIn(q)}
          /\ Said(L, AckPacket, u) = {a.ack_id : a \in AcksIn(L)}
      BY <2>1, <2>4, InClientSocket
    <3>2. \A a \in AcksIn(L) : \E c \in Ended(h) : a.ack_id = c.ack_id
      BY <2>6 DEF Ack
    <3>3. Said(q, AckPacket, u) \cap Said(L, AckPacket, u) = {}
      BY <3>1, <3>2
    <3> HIDE DEF u
    <3>4. Once(q \o L, AckPacket, u)
      BY <2>1, <2>4, <2>7, <3>3, SaidConcat DEF AcksOnce, u
    <3>5. QED BY <3>4 DEF AcksOnce, u
  <2>11. q \o L \in Seq(ClientPacket)
    BY <2>1, <2>4, ConcatProperties
  <2>12. QED BY <2>1, <2>6, <2>8, <2>9, <2>10, <2>11 DEF q
<1>10. toClient' \in [Handles -> Seq(ClientPacket)]
  BY <1>3, <1>9
<1>11. QED BY <1>5, <1>7, <1>8, <1>9, <1>10 DEF s

\* The entry of recv_acklist that an end record completes has its number.
LEMMA MatchesProperties ==
    ASSUME TypeOK, NEW c \in CallRecord, Matches(c) # {}
    PROVE  /\ Min(Matches(c)) \in 1..Len(recv_acklist)
           /\ recv_acklist[Min(Matches(c))].daemon_magic_number = c.daemon_magic_number
<1>1. Matches(c) \in SUBSET Nat /\ DOMAIN recv_acklist = 1..Len(recv_acklist)
  BY DEF Matches, TypeOK
<1>2. Min(Matches(c)) \in Matches(c)
  BY <1>1, MinProperties
<1>3. QED BY <1>1, <1>2 DEF Matches

-----------------------------------------------------------------------------
\* Types

\* A caller that may make a call has a number left for it.
LEMMA NumberIsLeft ==
    ASSUME TypeOK, NEW h \in Callers, Cardinality(CallsMade) < MaxCalls
    PROVE  /\ api_ack_magic_num[h] \in 0..(MaxCalls - 1)
           /\ api_ack_magic_num[h] + 1 \in 0..MaxCalls
<1>1. h \in Handles /\ MaxCalls \in Nat /\ api_ack_magic_num[h] \in 0..MaxCalls
  BY CallersAssumption, BoundsAssumption DEF TypeOK
<1>2. ASSUME api_ack_magic_num[h] = MaxCalls PROVE FALSE
  <2> DEFINE S == 0..(MaxCalls - 1)
             f == [k \in S |-> <<h, k>>]
  <2>1. \A k \in S : f[k] \in CallsMade
    BY <1>1, <1>2 DEF CallsMade, CallIds
  <2>2. f \in Injection(S, CallsMade)
    BY <2>1 DEF Injection, IsInjective
  <2>3. IsFiniteSet(CallsMade)
    <3>1. IsFiniteSet(S)
      BY <1>1, FS_Interval, 0 \in Int, MaxCalls - 1 \in Int
    <3>2. IsFiniteSet(CallIds)
      BY <3>1, CallersAssumption, FS_Product DEF CallIds
    <3>3. QED BY <3>2, FS_Subset DEF CallsMade
  <2>4. Cardinality(S) <= Cardinality(CallsMade)
    BY <2>2, <2>3, FS_Injection
  <2>5. Cardinality(S) = MaxCalls
    BY <1>1, FS_Interval
  <2>6. Cardinality(CallsMade) \in Nat
    BY <2>3, FS_CardinalityType
  <2>7. QED BY <1>1, <2>4, <2>5, <2>6
<1>3. QED BY <1>1, <1>2

LEMMA TypeInitially == Init => TypeOK
BY BoundsAssumption DEF Init, TypeOK

\* A packet leaves a client: it arrives, or it is too large.
LEMMA SendTypes ==
    ASSUME TypeOK, NEW size, NEW p \in DaemonPacket, Send(size, p)
    PROVE  toDaemon' \in Seq(DaemonPacket)
BY SentToDaemon DEF Send, TypeOK

\* What ipc_call_api does with the call c that it makes.
Issues(h, size, c) ==
    /\ c.send_pid = h /\ c.ack_id = api_ack_magic_num[h]
    /\ waiting[h] = <<>> /\ alive[h] /\ ~Exited(h) /\ h \in Callers
    /\ waiting' = [waiting EXCEPT ![h] = <<c>>]
    /\ [iit |-> "API_CALL", send_pid |-> h, call |-> c] \in CallPacket
    /\ Send(size, [iit |-> "API_CALL", send_pid |-> h, call |-> c])
    /\ api_ack_magic_num' = [api_ack_magic_num EXCEPT ![h] = @ + 1]
    /\ api_ack_magic_num[h] + 1 \in 0..MaxCalls
    /\ UNCHANGED <<alive, api_recv_list, running, toClient, daemonVars, results, ran>>

\* The call that ipc_call_api makes.
LEMMA NewCall ==
    ASSUME TypeOK, NEW h \in Handles, NEW g \in Handles, NEW a \in Apis, NEW t \in Timeouts,
           NEW size \in Sizes, Call(h, g, a, t, size)
    PROVE  \E c \in CallRecord : Issues(h, size, c)
<1> DEFINE c == [send_pid |-> h, ack_id |-> api_ack_magic_num[h], pname |-> g,
                 api_name |-> a, daemon_count_number |-> t, daemon_magic_number |-> 0]
<1>1. h \in Callers /\ Cardinality(CallsMade) < MaxCalls
  BY DEF Call
<1>2. /\ api_ack_magic_num[h] \in 0..(MaxCalls - 1)
      /\ api_ack_magic_num[h] + 1 \in 0..MaxCalls
  BY <1>1, NumberIsLeft
<1>3. c \in CallRecord
  BY <1>1, <1>2 DEF CallRecord
<1>4. /\ waiting[h] = <<>> /\ alive[h] /\ ~Exited(h)
      /\ waiting' = [waiting EXCEPT ![h] = <<c>>]
      /\ Send(size, [iit |-> "API_CALL", send_pid |-> h, call |-> c])
      /\ api_ack_magic_num' = [api_ack_magic_num EXCEPT ![h] = @ + 1]
      /\ UNCHANGED <<alive, api_recv_list, running, toClient, daemonVars, results, ran>>
  BY DEF Call
<1>5. c.send_pid = h /\ c.ack_id = api_ack_magic_num[h]
  OBVIOUS
<1> HIDE DEF c
<1>6. [iit |-> "API_CALL", send_pid |-> h, call |-> c] \in CallPacket
  BY <1>3 DEF CallPacket
<1>7. QED BY <1>1, <1>2, <1>3, <1>4, <1>5, <1>6 DEF Issues

\* What a call that a signal ends leaves behind.
GivesUp(h) ==
    /\ waiting[h] # <<>> /\ waiting[h][1] \in CallRecord
    /\ waiting'[h] = <<>>
    /\ \A g \in Handles : g # h => waiting'[g] = waiting[g] /\ results'[g] = results[g]
    /\ results'[h] \in Seq(Result)
    /\ Len(results'[h]) = Len(results[h]) + 1
    /\ results'[h][Len(results[h]) + 1]
          = [ack_result |-> "INTERRUPTED", of |-> Id(waiting[h][1])]
    /\ results'[h][Len(results[h]) + 1].ack_result = "INTERRUPTED"
    /\ results'[h][Len(results[h]) + 1].of = Id(waiting[h][1])
    /\ \A k \in 1..Len(results[h]) : results'[h][k] = results[h][k]

LEMMA GivenUp == ASSUME TypeOK, NEW h \in Handles, CallInterrupted(h) PROVE GivesUp(h)
<1> DEFINE r == [ack_result |-> "INTERRUPTED", of |-> Id(waiting[h][1])]
<1>1. /\ waiting[h] \in Seq(CallRecord) /\ waiting[h] # <<>> /\ waiting[h][1] \in CallRecord
      /\ results[h] \in Seq(Result)
  BY DEF TypeOK, CallInterrupted
<1>2. r \in Result
  BY <1>1, CallParts DEF Result
<1>3. /\ results' = [results EXCEPT ![h] = Append(@, r)]
      /\ waiting' = [waiting EXCEPT ![h] = <<>>]
  BY DEF CallInterrupted
<1> HIDE DEF r
<1>4. /\ Append(results[h], r) \in Seq(Result)
      /\ Len(Append(results[h], r)) = Len(results[h]) + 1
      /\ \A k \in 1..Len(results[h]) : Append(results[h], r)[k] = results[h][k]
      /\ Append(results[h], r)[Len(results[h]) + 1] = r
  BY <1>1, <1>2, AppendedTo
<1>5. /\ results'[h] = Append(results[h], r) /\ waiting'[h] = <<>>
      /\ \A g \in Handles : g # h => waiting'[g] = waiting[g] /\ results'[g] = results[g]
  BY <1>3 DEF TypeOK
<1>6. r.ack_result = "INTERRUPTED" /\ r.of = Id(waiting[h][1])
  BY DEF r
<1>7. results'[h][Len(results[h]) + 1] = r
  BY <1>4, <1>5
<1>8. /\ results'[h][Len(results[h]) + 1].ack_result = "INTERRUPTED"
      /\ results'[h][Len(results[h]) + 1].of = Id(waiting[h][1])
  BY <1>6, <1>7
<1>9. QED BY <1>1, <1>4, <1>5, <1>7, <1>8 DEF r, GivesUp

LEMMA ClientStepTypes == ASSUME TypeOK, NEW h \in Handles, ClientStep(h) PROVE TypeOK'
<1>1. ASSUME NEW g \in Handles, NEW a \in Apis, NEW t \in Timeouts, NEW size \in Sizes,
             Call(h, g, a, t, size)
      PROVE  TypeOK'
  <2>1. PICK c \in CallRecord : Issues(h, size, c)
    BY <1>1, NewCall
  <2> USE DEF Issues
  <2>2. toDaemon' \in Seq(DaemonPacket)
    BY <2>1, PacketParts, SendTypes
  <2>3. <<c>> \in Seq(CallRecord) /\ Len(<<c>>) <= 1
    OBVIOUS
  <2>4. waiting' \in [Handles -> Seq(CallRecord)] /\ \A g_1 \in Handles : Len(waiting'[g_1]) <= 1
    BY <2>1, <2>3 DEF TypeOK
  <2>5. api_ack_magic_num' \in [Handles -> 0..MaxCalls]
    BY <2>1 DEF TypeOK
  <2>6. QED BY <2>1, <2>2, <2>4, <2>5 DEF TypeOK, daemonVars
<1>2. ASSUME RecvRelay(h) PROVE TypeOK'
  <2>1. toClient[h] \in Seq(ClientPacket) /\ api_recv_list[h] \in Seq(CallRecord)
    BY DEF TypeOK
  <2>2. Head(toClient[h]) \in RelayPacket /\ Tail(toClient[h]) \in Seq(ClientPacket)
    BY <1>2, <2>1, TookFromClient, PacketParts DEF RecvRelay
  <2>3. Append(api_recv_list[h], Head(toClient[h]).call) \in Seq(CallRecord)
    BY <2>1, <2>2, PacketParts, AppendedTo
  <2>4. QED BY <1>2, <2>2, <2>3 DEF RecvRelay, TypeOK, daemonVars
<1>3. ASSUME RecvAck(h) PROVE TypeOK'
  <2> DEFINE ack == Head(toClient[h])
  <2>1. ack \in AckPacket /\ Tail(toClient[h]) \in Seq(ClientPacket)
    BY <1>3, TookFromClient, PacketParts DEF RecvAck, TypeOK
  <2>2. /\ waiting' = waiting \/ waiting' = [waiting EXCEPT ![h] = <<>>]
        /\ \/ results' = results
           \/ results' = [results EXCEPT ![h] =
                             Append(@, [ack_result |-> ack.ack_result, of |-> ack.of])]
    BY <1>3 DEF RecvAck
  <2>3. [ack_result |-> ack.ack_result, of |-> ack.of] \in Result
    BY <2>1 DEF AckPacket, Result
  <2> HIDE DEF ack
  <2>4. Append(results[h], [ack_result |-> ack.ack_result, of |-> ack.of]) \in Seq(Result)
    BY <2>3, AppendedTo DEF TypeOK
  <2>5. results' \in [Handles -> Seq(Result)]
    BY <2>2, <2>4 DEF TypeOK
  <2>6. waiting' \in [Handles -> Seq(CallRecord)] /\ \A g \in Handles : Len(waiting'[g]) <= 1
    <3>1. <<>> \in Seq(CallRecord) /\ Len(<<>>) <= 1
      OBVIOUS
    <3>2. CASE waiting' = waiting
      BY <3>2 DEF TypeOK
    <3>3. CASE waiting' = [waiting EXCEPT ![h] = <<>>]
      BY <3>1, <3>3 DEF TypeOK
    <3>4. QED BY <2>2, <3>2, <3>3
  <2>7. QED BY <1>3, <2>1, <2>5, <2>6 DEF RecvAck, TypeOK, daemonVars
<1>4. ASSUME StartHandler(h) PROVE TypeOK'
  <2> DEFINE c == Head(api_recv_list[h])
  <2>1. c \in CallRecord /\ Tail(api_recv_list[h]) \in Seq(CallRecord)
    BY <1>4, CallsTail DEF StartHandler, TypeOK
  <2>2. Id(c) \in CallIds
    BY <2>1, CallParts
  <2>3. /\ running' = [running EXCEPT ![h] = @ \cup {c}]
        /\ ran' = [ran EXCEPT ![Id(c)] = @ + 1]
        /\ api_recv_list' = [api_recv_list EXCEPT ![h] = Tail(@)]
    BY <1>4 DEF StartHandler, AfterPull
  <2> HIDE DEF c
  <2>4. ran' \in [CallIds -> Nat]
    BY <2>2, <2>3 DEF TypeOK
  <2>5. running' \in [Handles -> SUBSET CallRecord]
    BY <2>1, <2>3 DEF TypeOK
  <2>6. api_recv_list' \in [Handles -> Seq(CallRecord)]
    BY <2>1, <2>3 DEF TypeOK
  <2>7. QED BY <1>4, <2>4, <2>5, <2>6 DEF StartHandler, TypeOK, daemonVars, netVars
<1>5. ASSUME NEW c \in running[h], NEW size \in Sizes, EndHandler(h, c, size) PROVE TypeOK'
  <2>1. c \in CallRecord
    BY DEF TypeOK
  <2>2. [iit |-> "API_END", send_pid |-> h, call |-> c] \in DaemonPacket
    BY <2>1, PacketParts DEF EndPacket
  <2>3. toDaemon' \in Seq(DaemonPacket)
    BY <1>5, <2>2, SendTypes DEF EndHandler
  <2>4. running' \in [Handles -> SUBSET CallRecord]
    BY <1>5 DEF EndHandler, TypeOK
  <2>5. QED BY <1>5, <2>3, <2>4 DEF EndHandler, TypeOK, daemonVars
<1>6. ASSUME NEW a \in Apis, NEW iit \in {"API_REGISTER", "API_UNREGISTER"},
             Registration(h, a, iit)
      PROVE  TypeOK'
  <2>1. [iit |-> iit, send_pid |-> h, api_name |-> a] \in DaemonPacket
    BY DEF DaemonPacket
  <2>2. toDaemon' \in Seq(DaemonPacket)
    BY <1>6, <2>1, SentToDaemon DEF Registration
  <2>3. QED BY <1>6, <2>2 DEF Registration, TypeOK, clientVars, daemonVars
<1>7. ASSUME CallExit(h) PROVE TypeOK'
  <2>1. [iit |-> "EXIT", send_pid |-> h] \in DaemonPacket
    BY DEF DaemonPacket
  <2>2. toDaemon' \in Seq(DaemonPacket)
    BY <1>7, <2>1, SentToDaemon DEF CallExit
  <2>3. QED BY <1>7, <2>2 DEF CallExit, TypeOK, clientVars, daemonVars
<1>8. ASSUME Crash(h) PROVE TypeOK'
  BY <1>8 DEF Crash, TypeOK, daemonVars
<1>9. ASSUME CallInterrupted(h) PROVE TypeOK'
  <2>1. \A g \in Handles : waiting'[g] \in Seq(CallRecord) /\ Len(waiting'[g]) <= 1
    <3>1. \A g \in Handles : waiting[g] \in Seq(CallRecord) /\ Len(waiting[g]) <= 1
      BY DEF TypeOK
    <3>2. waiting'[h] = <<>> /\ \A g \in Handles : g # h => waiting'[g] = waiting[g]
      BY <1>9, GivenUp DEF GivesUp
    <3>3. <<>> \in Seq(CallRecord) /\ Len(<<>>) <= 1
      OBVIOUS
    <3>4. QED BY <3>1, <3>2, <3>3
  <2>2. \A g \in Handles : results'[g] \in Seq(Result)
    <3>1. results'[h] \in Seq(Result) /\ \A g \in Handles : g # h => results'[g] = results[g]
      BY <1>9, GivenUp DEF GivesUp
    <3>2. QED BY <3>1 DEF TypeOK
  <2>3. /\ DOMAIN waiting' = Handles /\ DOMAIN results' = Handles
        /\ waiting' = [g \in Handles |-> waiting'[g]]
        /\ results' = [g \in Handles |-> results'[g]]
    BY <1>9 DEF CallInterrupted, TypeOK
  <2>4. waiting' \in [Handles -> Seq(CallRecord)] /\ results' \in [Handles -> Seq(Result)]
    BY <2>1, <2>2, <2>3
  <2>5. QED BY <1>9, <2>1, <2>4 DEF CallInterrupted, TypeOK, netVars, daemonVars
<1>10. QED BY <1>1, <1>2, <1>3, <1>4, <1>5, <1>6, <1>7, <1>8, <1>9 DEF ClientStep

LEMMA CallOfHead ==
    ASSUME TypeOK, NEW iit \in {"API_CALL", "API_END"}, Receives(iit)
    PROVE  Head(toDaemon).call \in CallRecord /\ Head(toDaemon).send_pid \in Handles
BY TookFromDaemon, PacketParts

LEMMA DaemonStepTypes == ASSUME TypeOK, DaemonStep PROVE TypeOK'
<1>1. ASSUME DaemonCall PROVE TypeOK'
  <2> DEFINE p == Head(toDaemon)
  <2>1. toDaemon' \in Seq(DaemonPacket) /\ p.call \in CallRecord /\ p.send_pid \in Handles
    BY <1>1, TookFromDaemon, CallOfHead DEF DaemonCall
  <2>2. Numbered(p.call) \in CallRecord
    BY <2>1 DEF Numbered, CallRecord, TypeOK
  <2>3. Append(recv_alist, Numbered(p.call)) \in Seq(CallRecord)
    BY <2>2, AppendedTo DEF TypeOK
  <2>4. /\ Heard(p.send_pid)
        /\ \/ /\ recv_alist' = Append(recv_alist, Numbered(p.call))
              /\ api_public_magic_number' = api_public_magic_number + 1
           \/ UNCHANGED <<recv_alist, api_public_magic_number>>
    BY <1>1 DEF DaemonCall
  <2> HIDE DEF p
  <2>5. member' \in [Handles -> {"active", "suspended", "absent"}]
    BY <2>1, <2>4 DEF Heard, TypeOK
  <2>6. recv_alist' \in Seq(CallRecord) /\ api_public_magic_number' \in Nat
    <3>1. api_public_magic_number \in Nat /\ recv_alist \in Seq(CallRecord)
      BY DEF TypeOK
    <3>2. QED BY <2>3, <2>4, <3>1
  <2>7. QED BY <1>1, <2>1, <2>5, <2>6 DEF DaemonCall, TypeOK, clientVars
<1>2. ASSUME DaemonEnd PROVE TypeOK'
  <2>1. PICK h \in Handles, c \in CallRecord :
           /\ h = Head(toDaemon).send_pid /\ c = Head(toDaemon).call
    BY <1>2, CallOfHead DEF DaemonEnd
  <2>2. toDaemon' \in Seq(DaemonPacket)
    BY <1>2, TookFromDaemon DEF DaemonEnd
  <2>3. Ack(c.ack_id, "OK", Id(c)) \in ClientPacket
    BY CallParts, PacketParts DEF Ack, AckPacket, AckResults
  <2>4. /\ toClient' \in [Handles -> Seq(ClientPacket)]
        /\ recv_acklist' \in Seq(CallRecord)
    <3>1. CASE toClient' = toClient /\ recv_acklist' = recv_acklist
      BY <3>1 DEF TypeOK
    <3>2. CASE Relay(h, Ack(c.ack_id, "OK", Id(c))) /\ recv_acklist' = recv_acklist
      BY <2>3, <3>2, Relaying DEF TypeOK
    <3>3. CASE /\ Matches(c) # {}
               /\ Relay(recv_acklist[Min(Matches(c))].send_pid, Ack(c.ack_id, "OK", Id(c)))
               /\ recv_acklist' = RemoveAt(recv_acklist, Min(Matches(c)))
      <4>1. Min(Matches(c)) \in 1..Len(recv_acklist)
        BY <3>3, MatchesProperties
      <4>2. /\ recv_acklist' \in Seq(CallRecord)
            /\ recv_acklist[Min(Matches(c))] \in CallRecord
        BY <3>3, <4>1, CallsDelete DEF TypeOK
      <4>3. recv_acklist[Min(Matches(c))].send_pid \in Handles
        BY <4>2, CallParts
      <4>4. QED BY <2>3, <3>3, <4>2, <4>3, Relaying
    <3>4. QED BY <1>2, <2>1, <3>1, <3>2, <3>3 DEF DaemonEnd
  <2>5. QED BY <1>2, <2>2, <2>4 DEF DaemonEnd, TypeOK, clientVars
<1>3. ASSUME DaemonRegister PROVE TypeOK'
  <2> DEFINE p == Head(toDaemon)
  <2>1. toDaemon' \in Seq(DaemonPacket) /\ p \in DaemonPacket /\ p.iit = "API_REGISTER"
    BY <1>3, TookFromDaemon DEF DaemonRegister
  <2>2. p.send_pid \in Handles /\ p.api_name \in Apis
    BY <2>1, PacketParts
  <2>3. \/ api_list' = api_list
        \/ api_list' = [api_list EXCEPT ![p.send_pid] = @ \cup {p.api_name}]
    BY <1>3 DEF DaemonRegister
  <2> HIDE DEF p
  <2>4. api_list' \in [Handles -> SUBSET Apis]
    <3>1. api_list \in [Handles -> SUBSET Apis]
      BY DEF TypeOK
    <3>2. api_list[p.send_pid] \cup {p.api_name} \in SUBSET Apis
      BY <2>2, <3>1
    <3>3. QED BY <2>2, <2>3, <3>1, <3>2
  <2>5. QED BY <1>3, <2>1, <2>4 DEF DaemonRegister, TypeOK, clientVars
<1>4. ASSUME DaemonUnregister PROVE TypeOK'
  <2>1. toDaemon' \in Seq(DaemonPacket)
    BY <1>4, TookFromDaemon DEF DaemonUnregister
  <2>2. PICK h, a : api_list' = [api_list EXCEPT ![h] = @ \ {a}]
    BY <1>4 DEF DaemonUnregister
  <2>3. api_list' \in [Handles -> SUBSET Apis]
    <3>1. api_list \in [Handles -> SUBSET Apis]
      BY DEF TypeOK
    <3>2. \A g \in Handles : api_list'[g] \subseteq api_list[g]
      BY <2>2, <3>1
    <3>3. QED BY <2>2, <3>1, <3>2
  <2>4. QED BY <1>4, <2>1, <2>3 DEF DaemonUnregister, TypeOK, clientVars
<1>5. ASSUME DaemonExit PROVE TypeOK'
  <2>1. toDaemon' \in Seq(DaemonPacket)
    BY <1>5, TookFromDaemon DEF DaemonExit
  <2>2. PICK h : /\ member' = [member EXCEPT ![h] = "absent"]
                 /\ api_list' = [api_list EXCEPT ![h] = {}]
    BY <1>5 DEF DaemonExit
  <2>3. member' \in [Handles -> {"active", "suspended", "absent"}]
    BY <2>2 DEF TypeOK
  <2>4. api_list' \in [Handles -> SUBSET Apis]
    <3>1. api_list \in [Handles -> SUBSET Apis] /\ {} \in SUBSET Apis
      BY DEF TypeOK
    <3>2. QED BY <2>2, <3>1
  <2>5. QED BY <1>5, <2>1, <2>3, <2>4 DEF DaemonExit, TypeOK, clientVars
<1>6. QED BY <1>1, <1>2, <1>3, <1>4, <1>5 DEF DaemonStep

\* The first call of recv_alist is c. It is relayed, or its caller is told.
Probes(c) ==
    /\ recv_alist' \in Seq(CallRecord)
    /\ Calls(recv_alist) = Calls(recv_alist') \cup {c}
    /\ NoneTwice(recv_alist) => NoneTwice(recv_alist') /\ Apart(Calls(recv_alist'), {c})
    /\ \/ /\ member[c.pname] = "active" /\ c.api_name \in api_list[c.pname]
          /\ [iit |-> "API_RELAY", call |-> c] \in RelayPacket
          /\ Relay(c.pname, [iit |-> "API_RELAY", call |-> c])
          /\ recv_acklist' = Append(recv_acklist, c)
       \/ \E r \in {"CANTFIND_API", "CANTFIND_PROGRAM"} :
             /\ Ack(c.ack_id, r, Id(c)) \in AckPacket
             /\ Relay(c.send_pid, Ack(c.ack_id, r, Id(c)))
             /\ recv_acklist' = recv_acklist

LEMMA Probing == ASSUME TypeOK, ApiProbe PROVE \E c \in CallRecord : Probes(c)
<1> DEFINE c == Head(recv_alist)
<1>1. recv_alist \in Seq(CallRecord) /\ recv_alist # <<>> /\ recv_alist' = Tail(recv_alist)
  BY DEF TypeOK, ApiProbe, AfterPull
<1>2. /\ c \in CallRecord
      /\ recv_alist' \in Seq(CallRecord)
      /\ Calls(recv_alist) = Calls(recv_alist') \cup {c}
      /\ NoneTwice(recv_alist)
            => NoneTwice(recv_alist') /\ Apart(Calls(recv_alist'), {c})
  BY <1>1, CallsTail
<1>3. \/ /\ member[c.pname] = "active" /\ c.api_name \in api_list[c.pname]
         /\ Relay(c.pname, [iit |-> "API_RELAY", call |-> c])
         /\ recv_acklist' = Append(recv_acklist, c)
      \/ \E r \in {"CANTFIND_API", "CANTFIND_PROGRAM"} :
            /\ Relay(c.send_pid, Ack(c.ack_id, r, Id(c)))
            /\ recv_acklist' = recv_acklist
  BY DEF ApiProbe
<1> HIDE DEF c
<1>4. [iit |-> "API_RELAY", call |-> c] \in RelayPacket
  BY <1>2 DEF RelayPacket
<1>5. \A r \in {"CANTFIND_API", "CANTFIND_PROGRAM"} : Ack(c.ack_id, r, Id(c)) \in AckPacket
  BY <1>2, CallParts DEF Ack, AckPacket, AckResults
<1>6. QED BY <1>2, <1>3, <1>4, <1>5 DEF Probes

LEMMA StepTypes == ASSUME TypeOK, [Next]_vars PROVE TypeOK'
<1>1. ASSUME ApiProbe PROVE TypeOK'
  <2>1. PICK c \in CallRecord : Probes(c)
    BY <1>1, Probing
  <2>2. toClient' \in [Handles -> Seq(ClientPacket)]
    BY <2>1, CallParts, PacketParts, Relaying DEF Probes
  <2>3. recv_acklist' \in Seq(CallRecord)
    <3>1. Append(recv_acklist, c) \in Seq(CallRecord)
      BY AppendedTo DEF TypeOK
    <3>2. QED BY <2>1, <3>1 DEF TypeOK, Probes
  <2>4. QED BY <1>1, <2>1, <2>2, <2>3 DEF ApiProbe, TypeOK, clientVars, Probes
<1>2. ASSUME Tick PROVE TypeOK'
  BY <1>2, Ticking DEF Tick, TypeOK, clientVars
<1>3. ASSUME NEW h \in Handles, DaemonLive(h) \/ Suspend(h) PROVE TypeOK'
  BY <1>3 DEF DaemonLive, Suspend, Heard, TypeOK, clientVars, netVars
<1>4. ASSUME UNCHANGED vars PROVE TypeOK'
  BY <1>4 DEF TypeOK, vars, clientVars, netVars, daemonVars
<1>5. QED BY ClientStepTypes, DaemonStepTypes, <1>1, <1>2, <1>3, <1>4 DEF Next

\* Every variable keeps its type.
THEOREM TypeCorrect == Spec => []TypeOK
<1>1. TypeOK /\ [Next]_vars => TypeOK'
  BY StepTypes
<1>2. QED BY TypeInitially, <1>1, PTL DEF Spec

-----------------------------------------------------------------------------
\* Where a call is until its handler starts

\* Call c, which is made to h, has not been started: its packet is on its way to
\* the daemon ("called") or in recv_alist ("queued"), or the relayed call is on
\* its way to h ("relayed") or in its api_recv_list ("arrived").
At(p, h, c) ==
    /\ h \in Handles /\ c \in CallRecord
    /\ \/ p = "called" /\ h = c.pname /\ c \in Called
       \/ p = "queued" /\ h = c.pname /\ c \in Calls(recv_alist)
       \/ p = "relayed" /\ c \in RelaysIn(toClient[h])
       \/ p = "arrived" /\ c \in Calls(api_recv_list[h])

\* No call is twice in one of these lists, or at two places.
EachOnce ==
    /\ CalledOnce
    /\ NoneTwice(recv_alist)
    /\ \A h \in Handles : RelaysOnce(toClient[h]) /\ NoneTwice(api_recv_list[h])
OnePlace ==
    \A p, q, h, g, c, d :
        At(p, h, c) /\ At(q, g, d) /\ Id(c) = Id(d) => p = q /\ h = g /\ c = d

\* The calls, by their ids: those that are at such a place; those the handler of
\* which was started and that are not ended; those in recv_acklist; those of
\* which an answer in `which' was sent.
Unstarted == {id \in CallIds : \E p, h, c : At(p, h, c) /\ Id(c) = id}
Started == {id \in CallIds : \/ \E h \in Handles : \E c \in running[h] : Id(c) = id
                             \/ \E e \in Ends : Id(e.call) = id}
Pending == {id \in CallIds : \E c \in Calls(recv_acklist) : Id(c) = id}
Told(which, sent, heard) ==
    {id \in CallIds : \E h \in Handles :
        \/ \E a \in AcksIn(sent[h]) : a.ack_result \in which /\ a.of = id
        \/ \E k \in 1..Len(heard[h]) : heard[h][k].ack_result \in which /\ heard[h][k].of = id}
ToldAny == Told(AckResults, toClient, results)
ToldOk == Told({"OK"}, toClient, results)
ToldNotFound == Told({"CANTFIND_PROGRAM", "CANTFIND_API"}, toClient, results)

\* What the history says of a call at each of these places.
History ==
    /\ \A id \in CallIds : ran[id] <= 1 /\ (ran[id] # 0 => id \in CallsMade)
    /\ \A id \in Unstarted : ran[id] = 0 /\ id \in CallsMade
    /\ Pending \subseteq CallsMade /\ ToldAny \subseteq CallsMade
    /\ \A id \in Started \cup ToldOk : ran[id] = 1
    /\ \A id \in ToldNotFound : ran[id] = 0 /\ id \notin Unstarted

\* The four kinds of steps, by what they do to the ids.
Quiet ==
    /\ CallsMade' = CallsMade /\ ran' = ran
    /\ Unstarted' \subseteq Unstarted
    /\ Started' \subseteq Started
    /\ Pending' \subseteq Pending \cup Unstarted
    /\ ToldNotFound' \subseteq ToldNotFound
    /\ ToldOk' \subseteq ToldOk \cup Started
    /\ ToldAny' \subseteq ToldAny \cup Started \cup Pending

Makes(id) ==
    /\ id \in CallIds \ CallsMade
    /\ CallsMade' = CallsMade \cup {id} /\ ran' = ran
    /\ Unstarted' \subseteq Unstarted \cup {id}
    /\ Started' \subseteq Started
    /\ Pending' \subseteq Pending
    /\ ToldAny' \subseteq ToldAny /\ ToldOk' \subseteq ToldOk
    /\ ToldNotFound' \subseteq ToldNotFound

Starts(id) ==
    /\ CallsMade' = CallsMade /\ ran' = [ran EXCEPT ![id] = @ + 1]
    /\ id \in Unstarted
    /\ Unstarted' \subseteq Unstarted \ {id}
    /\ Started' \subseteq Started \cup {id}
    /\ Pending' \subseteq Pending
    /\ ToldAny' \subseteq ToldAny /\ ToldOk' \subseteq ToldOk
    /\ ToldNotFound' \subseteq ToldNotFound

Denies(id) ==
    /\ CallsMade' = CallsMade /\ ran' = ran
    /\ id \in Unstarted
    /\ Unstarted' \subseteq Unstarted \ {id}
    /\ Started' \subseteq Started
    /\ Pending' \subseteq Pending
    /\ ToldOk' \subseteq ToldOk
    /\ ToldNotFound' \subseteq ToldNotFound \cup {id}
    /\ ToldAny' \subseteq ToldAny \cup {id}

AnyKind == Quiet \/ \E id \in CallIds : Makes(id) \/ Starts(id) \/ Denies(id)

LEMMA HistoryKept == ASSUME TypeOK, TypeOK', History, AnyKind PROVE History'
<1>1. CASE Quiet
  <2>1. Started \subseteq CallIds
    BY DEF Started
  <2>2. Started \subseteq CallsMade
    BY <2>1 DEF History
  <2>3. QED BY <1>1, <2>2 DEF History, Quiet
<1>2. ASSUME NEW id \in CallIds, Makes(id) PROVE History'
  <2>1. ToldNotFound \subseteq ToldAny
    BY DEF ToldNotFound, ToldAny, Told, AckResults
  <2>2. ran[id] = 0 /\ id \notin ToldNotFound
    BY <1>2, <2>1 DEF History, Makes
  <2>3. QED BY <1>2, <2>2 DEF History, Makes
<1>3. ASSUME NEW id \in CallIds, Starts(id) PROVE History'
  <2>1. ran[id] = 0 /\ id \in CallsMade
    BY <1>3 DEF History, Starts
  <2>2. ran'[id] = 1 /\ \A d \in CallIds : d # id => ran'[d] = ran[d]
    BY <1>3, <2>1 DEF Starts, TypeOK
  <2>3. id \notin Started /\ id \notin ToldOk /\ id \notin ToldNotFound
    BY <1>3, <2>1 DEF History, Starts
  <2>4. CallsMade' = CallsMade /\ Unstarted' \subseteq Unstarted \ {id}
    BY <1>3 DEF Starts
  <2>5. \A d \in CallIds : ran'[d] <= 1 /\ (ran'[d] # 0 => d \in CallsMade')
    BY <2>1, <2>2, <2>4 DEF History
  <2>6. \A d \in Unstarted' : ran'[d] = 0 /\ d \in CallsMade'
    BY <2>2, <2>4 DEF History, Unstarted
  <2>7. Pending' \subseteq CallsMade' /\ ToldAny' \subseteq CallsMade'
    BY <1>3 DEF History, Starts
  <2>8. \A d \in (Started \cup ToldOk)' : ran'[d] = 1
    <3>1. \A d \in (Started \cup ToldOk)' : d = id \/ (d \in CallIds /\ ran[d] = 1)
      BY <1>3 DEF History, Starts, Started, ToldOk, Told
    <3>2. QED BY <2>2, <3>1
  <2>9. \A d \in ToldNotFound' : ran'[d] = 0 /\ d \notin Unstarted'
    <3>1. \A d \in ToldNotFound' : d # id /\ d \in CallIds /\ ran[d] = 0 /\ d \notin Unstarted
      BY <1>3, <2>3 DEF History, Starts, ToldNotFound, Told
    <3>2. QED BY <2>2, <2>4, <3>1
  <2>10. QED BY <2>5, <2>6, <2>7, <2>8, <2>9 DEF History
<1>4. ASSUME NEW id \in CallIds, Denies(id) PROVE History'
  BY <1>4 DEF History, Denies
<1>5. QED BY <1>1, <1>2, <1>3, <1>4 DEF AnyKind

\* What a step does to the places: no call comes to one, the call c leaves
\* its place, or it comes from there to another, as d.
Stay == \A p, h, c : At(p, h, c)' => At(p, h, c)
Leaves(q, g, c) ==
    /\ At(q, g, c)
    /\ \A p, h, e : At(p, h, e)' => At(p, h, e) /\ ~(p = q /\ h = g /\ e = c)
Moves(q, g, c, r, i, d) ==
    /\ At(q, g, c) /\ Id(d) = Id(c)
    /\ \A p, h, e : At(p, h, e)' => \/ At(p, h, e) /\ ~(p = q /\ h = g /\ e = c)
                                    \/ p = r /\ h = i /\ e = d
Comes(r, i, d) ==
    \A p, h, e : At(p, h, e)' => At(p, h, e) \/ (p = r /\ h = i /\ e = d)

LEMMA AtPlace ==
    ASSUME NEW p, NEW h, NEW c, At(p, h, c)
    PROVE  c \in CallRecord /\ Id(c) \in Unstarted
BY CallParts DEF At, Unstarted

LEMMA Staying == ASSUME OnePlace, Stay PROVE OnePlace' /\ Unstarted' \subseteq Unstarted
<1>1. OnePlace'
  BY DEF OnePlace, Stay
<1>2. QED BY <1>1 DEF Stay, Unstarted

LEMMA Leaving ==
    ASSUME OnePlace, NEW q, NEW g, NEW c, Leaves(q, g, c)
    PROVE  OnePlace' /\ Unstarted' \subseteq Unstarted \ {Id(c)} /\ Id(c) \in Unstarted
<1>1. OnePlace'
  BY DEF OnePlace, Leaves
<1>2. Id(c) \in Unstarted
  BY AtPlace DEF Leaves
<1>3. ASSUME NEW id \in Unstarted' PROVE id \in Unstarted \ {Id(c)}
  <2>1. PICK p, h, e : At(p, h, e)' /\ Id(e) = id /\ id \in CallIds
    BY <1>3 DEF Unstarted
  <2>2. At(p, h, e) /\ ~(p = q /\ h = g /\ e = c)
    BY <2>1 DEF Leaves
  <2>3. Id(e) # Id(c)
    BY <2>2 DEF OnePlace, Leaves
  <2>4. QED BY <2>1, <2>2, <2>3 DEF Unstarted
<1>4. QED BY <1>1, <1>2, <1>3

LEMMA Moving ==
    ASSUME OnePlace, NEW q, NEW g, NEW c, NEW r, NEW i, NEW d, Moves(q, g, c, r, i, d)
    PROVE  OnePlace' /\ Unstarted' \subseteq Unstarted /\ Id(c) \in Unstarted
<1>1. Id(c) \in Unstarted
  BY AtPlace DEF Moves
<1>2. ASSUME NEW p, NEW h, NEW e, At(p, h, e)'
      PROVE  \/ At(p, h, e) /\ Id(e) # Id(c)
             \/ p = r /\ h = i /\ e = d /\ Id(e) = Id(c)
  <2>1. \/ At(p, h, e) /\ ~(p = q /\ h = g /\ e = c)
        \/ p = r /\ h = i /\ e = d
    BY <1>2 DEF Moves
  <2>2. QED BY <2>1 DEF OnePlace, Moves
<1>3. OnePlace'
  <2> SUFFICES ASSUME NEW p, NEW h, NEW e, NEW p_1, NEW h_1, NEW e_1,
                      At(p, h, e)', At(p_1, h_1, e_1)', Id(e) = Id(e_1)
               PROVE  p = p_1 /\ h = h_1 /\ e = e_1
    BY DEF OnePlace
  <2>1. /\ \/ At(p, h, e) /\ Id(e) # Id(c)
           \/ p = r /\ h = i /\ e = d /\ Id(e) = Id(c)
        /\ \/ At(p_1, h_1, e_1) /\ Id(e_1) # Id(c)
           \/ p_1 = r /\ h_1 = i /\ e_1 = d /\ Id(e_1) = Id(c)
    BY <1>2
  <2>2. QED BY <2>1 DEF OnePlace
<1>4. ASSUME NEW id \in Unstarted' PROVE id \in Unstarted
  <2>1. PICK p, h, e : At(p, h, e)' /\ Id(e) = id /\ id \in CallIds
    BY <1>4 DEF Unstarted
  <2>2. QED BY <1>1, <1>2, <2>1 DEF Unstarted
<1>5. QED BY <1>1, <1>3, <1>4

LEMMA Coming ==
    ASSUME OnePlace, NEW r, NEW i, NEW d, Comes(r, i, d), Id(d) \notin Unstarted
    PROVE  OnePlace' /\ Unstarted' \subseteq Unstarted \cup {Id(d)}
<1>1. ASSUME NEW p, NEW h, NEW e, At(p, h, e)'
      PROVE  \/ At(p, h, e) /\ Id(e) # Id(d)
             \/ p = r /\ h = i /\ e = d
  BY <1>1, AtPlace DEF Comes
<1>2. OnePlace'
  <2> SUFFICES ASSUME NEW p, NEW h, NEW e, NEW p_1, NEW h_1, NEW e_1,
                      At(p, h, e)', At(p_1, h_1, e_1)', Id(e) = Id(e_1)
               PROVE  p = p_1 /\ h = h_1 /\ e = e_1
    BY DEF OnePlace
  <2>1. /\ \/ At(p, h, e) /\ Id(e) # Id(d)
           \/ p = r /\ h = i /\ e = d
        /\ \/ At(p_1, h_1, e_1) /\ Id(e_1) # Id(d)
           \/ p_1 = r /\ h_1 = i /\ e_1 = d
    BY <1>1
  <2>2. QED BY <2>1 DEF OnePlace
<1>3. ASSUME NEW id \in Unstarted' PROVE id \in Unstarted \cup {Id(d)}
  <2>1. PICK p, h, e : At(p, h, e)' /\ Id(e) = id /\ id \in CallIds
    BY <1>3 DEF Unstarted
  <2>2. QED BY <1>1, <2>1 DEF Unstarted
<1>4. QED BY <1>2, <1>3

-----------------------------------------------------------------------------
\* What each action does to the lists and sockets, as sets of calls

LEMMA SameSocket ==
    ASSUME UNCHANGED toDaemon PROVE Called' = Called /\ CalledOnce' = CalledOnce /\ Ends' = Ends
BY DEF Called, CalledOnce, Ends

LEMMA SameAnswers ==
    ASSUME UNCHANGED <<toClient, results>>
    PROVE  ToldAny' = ToldAny /\ ToldOk' = ToldOk /\ ToldNotFound' = ToldNotFound
BY DEF ToldAny, ToldOk, ToldNotFound

LEMMA SameStarted ==
    ASSUME UNCHANGED running, Ends' \subseteq Ends PROVE Started' \subseteq Started
BY DEF Started

LEMMA SamePending == ASSUME UNCHANGED recv_acklist PROVE Pending' = Pending
BY DEF Pending

\* The answers are those that were there.
LEMMA NoNewAnswer ==
    ASSUME TypeOK, UNCHANGED results,
           \A h \in Handles : AcksIn(toClient'[h]) \subseteq AcksIn(toClient[h])
    PROVE  ToldAny' \subseteq ToldAny /\ ToldOk' \subseteq ToldOk /\ ToldNotFound' \subseteq ToldNotFound
BY DEF ToldAny, ToldOk, ToldNotFound, Told

\* The relayed call c is taken from the socket of h into its api_recv_list.
Arrives(h, c) ==
    /\ alive[h]
    /\ [iit |-> "API_RELAY", call |-> c] \in RelayPacket
    /\ RelaysIn(toClient[h]) = RelaysIn(toClient'[h]) \cup {c}
    /\ RelaysOnce(toClient[h]) => RelaysOnce(toClient'[h]) /\ Apart(RelaysIn(toClient'[h]), {c})
    /\ AcksIn(toClient'[h]) = AcksIn(toClient[h])
    /\ AcksOnce(toClient[h]) => AcksOnce(toClient'[h])
    /\ Calls(api_recv_list'[h]) = Calls(api_recv_list[h]) \cup {c}
    /\ NoneTwice(api_recv_list[h]) /\ Apart(Calls(api_recv_list[h]), {c})
          => NoneTwice(api_recv_list'[h])
    /\ \A g \in Handles : g # h => /\ toClient'[g] = toClient[g]
                                   /\ api_recv_list'[g] = api_recv_list[g]
    /\ UNCHANGED <<alive, waiting, api_ack_magic_num, running, toDaemon, daemonVars, results, ran>>

LEMMA RelayTaken ==
    ASSUME TypeOK, NEW h \in Handles, RecvRelay(h) PROVE \E c \in CallRecord : Arrives(h, c)
<1> DEFINE p == Head(toClient[h])
           c == p.call
<1>1. /\ toClient \in [Handles -> Seq(ClientPacket)] /\ toClient[h] \in Seq(ClientPacket)
      /\ api_recv_list \in [Handles -> Seq(CallRecord)]
      /\ api_recv_list[h] \in Seq(CallRecord) /\ toClient[h] # <<>>
  BY DEF TypeOK, RecvRelay
<1>2. p \in ClientPacket /\ p.iit = "API_RELAY"
  BY <1>1, TookFromClient DEF RecvRelay
<1>3. p \in RelayPacket /\ c \in CallRecord
  BY <1>2, PacketParts
<1>4. /\ toClient'[h] = Tail(toClient[h])
      /\ api_recv_list'[h] = Append(api_recv_list[h], c)
      /\ \A g \in Handles : g # h => /\ toClient'[g] = toClient[g]
                                     /\ api_recv_list'[g] = api_recv_list[g]
      /\ alive[h]
      /\ UNCHANGED <<alive, waiting, api_ack_magic_num, running, toDaemon, daemonVars,
                     results, ran>>
  BY <1>1 DEF RecvRelay
<1> HIDE DEF p
<1>5. /\ RelaysIn(toClient[h]) = RelaysIn(toClient'[h]) \cup {c}
      /\ RelaysOnce(toClient[h])
            => RelaysOnce(toClient'[h]) /\ Apart(RelaysIn(toClient'[h]), {c})
      /\ AcksIn(toClient'[h]) = AcksIn(toClient[h])
      /\ AcksOnce(toClient[h]) => AcksOnce(toClient'[h])
  BY <1>1, <1>3, <1>4, TookFromClient DEF p
<1>6. /\ Calls(api_recv_list'[h]) = Calls(api_recv_list[h]) \cup {c}
      /\ NoneTwice(api_recv_list[h]) /\ Apart(Calls(api_recv_list[h]), {c})
            => NoneTwice(api_recv_list'[h])
  BY <1>1, <1>3, <1>4, CallsAppend
<1>7. [iit |-> "API_RELAY", call |-> c] \in RelayPacket
  BY <1>3 DEF RelayPacket
<1>8. QED BY <1>3, <1>4, <1>5, <1>6, <1>7 DEF Arrives

\* The answer a is taken from the socket of h, and ends the call that waits for it.
Answers(h, a) ==
    /\ alive[h]
    /\ AcksIn(toClient[h]) = AcksIn(toClient'[h]) \cup {a}
    /\ AcksOnce(toClient[h]) => /\ AcksOnce(toClient'[h])
                                /\ \A b \in AcksIn(toClient'[h]) : b.ack_id # a.ack_id
    /\ RelaysIn(toClient'[h]) = RelaysIn(toClient[h])
    /\ RelaysOnce(toClient[h]) => RelaysOnce(toClient'[h])
    /\ \A g \in Handles : g # h => toClient'[g] = toClient[g]
    /\ \/ /\ waiting[h] # <<>> /\ waiting[h][1].ack_id = a.ack_id
          /\ waiting' = [waiting EXCEPT ![h] = <<>>]
          /\ results' = [results EXCEPT ![h] =
                            Append(@, [ack_result |-> a.ack_result, of |-> a.of])]
       \/ /\ waiting[h] # <<>> => waiting[h][1].ack_id # a.ack_id
          /\ UNCHANGED <<waiting, results>>
    /\ UNCHANGED <<alive, api_ack_magic_num, api_recv_list, running, toDaemon, daemonVars, ran>>

LEMMA AnswerTaken ==
    ASSUME TypeOK, NEW h \in Handles, RecvAck(h) PROVE \E a \in AckPacket : Answers(h, a)
<1> DEFINE a == Head(toClient[h])
<1>1. /\ toClient \in [Handles -> Seq(ClientPacket)] /\ toClient[h] \in Seq(ClientPacket)
      /\ toClient[h] # <<>>
  BY DEF TypeOK, RecvAck
<1>2. a \in AckPacket
  BY <1>1, TookFromClient, PacketParts DEF RecvAck
<1>3. /\ toClient'[h] = Tail(toClient[h])
      /\ \A g \in Handles : g # h => toClient'[g] = toClient[g]
      /\ alive[h]
      /\ UNCHANGED <<alive, api_ack_magic_num, api_recv_list, running, toDaemon, daemonVars, ran>>
      /\ \/ /\ waiting[h] # <<>> /\ waiting[h][1].ack_id = a.ack_id
            /\ waiting' = [waiting EXCEPT ![h] = <<>>]
            /\ results' = [results EXCEPT ![h] =
                              Append(@, [ack_result |-> a.ack_result, of |-> a.of])]
         \/ /\ waiting[h] # <<>> => waiting[h][1].ack_id # a.ack_id
            /\ UNCHANGED <<waiting, results>>
  BY <1>1 DEF RecvAck
<1> HIDE DEF a
<1>4. /\ AcksIn(toClient[h]) = AcksIn(toClient'[h]) \cup {a}
      /\ AcksOnce(toClient[h]) => /\ AcksOnce(toClient'[h])
                                  /\ \A b \in AcksIn(toClient'[h]) : b.ack_id # a.ack_id
      /\ RelaysIn(toClient'[h]) = RelaysIn(toClient[h])
      /\ RelaysOnce(toClient[h]) => RelaysOnce(toClient'[h])
  BY <1>1, <1>2, <1>3, TookFromClient DEF a
<1>5. QED BY <1>2, <1>3, <1>4 DEF Answers

\* The handler of c is started in h.
Begins(h, c) ==
    /\ alive[h]
    /\ Calls(api_recv_list[h]) = Calls(api_recv_list'[h]) \cup {c}
    /\ NoneTwice(api_recv_list[h])
          => NoneTwice(api_recv_list'[h]) /\ Apart(Calls(api_recv_list'[h]), {c})
    /\ \A g \in Handles : g # h => api_recv_list'[g] = api_recv_list[g]
    /\ running' = [running EXCEPT ![h] = @ \cup {c}]
    /\ ran' = [ran EXCEPT ![Id(c)] = @ + 1]
    /\ UNCHANGED <<alive, waiting, api_ack_magic_num, netVars, daemonVars, results>>

LEMMA HandlerStarted ==
    ASSUME TypeOK, NEW h \in Handles, StartHandler(h) PROVE \E c \in CallRecord : Begins(h, c)
<1> DEFINE c == Head(api_recv_list[h])
<1>1. /\ api_recv_list \in [Handles -> Seq(CallRecord)]
      /\ api_recv_list[h] \in Seq(CallRecord) /\ api_recv_list[h] # <<>>
  BY DEF TypeOK, StartHandler
<1>2. /\ api_recv_list'[h] = Tail(api_recv_list[h])
      /\ \A g \in Handles : g # h => api_recv_list'[g] = api_recv_list[g]
      /\ alive[h]
      /\ running' = [running EXCEPT ![h] = @ \cup {c}]
      /\ ran' = [ran EXCEPT ![Id(c)] = @ + 1]
      /\ UNCHANGED <<alive, waiting, api_ack_magic_num, netVars, daemonVars, results>>
  BY <1>1 DEF StartHandler, AfterPull
<1>3. /\ c \in CallRecord
      /\ Calls(api_recv_list[h]) = Calls(api_recv_list'[h]) \cup {c}
      /\ NoneTwice(api_recv_list[h])
            => NoneTwice(api_recv_list'[h]) /\ Apart(Calls(api_recv_list'[h]), {c})
  BY <1>1, <1>2, CallsTail
<1> HIDE DEF c
<1>4. QED BY <1>2, <1>3 DEF Begins

\* The daemon takes the call c, gives it a number and queues it, or drops it.
TakesCall(c) ==
    /\ Called = Called' \cup {c}
    /\ CalledOnce => CalledOnce' /\ Apart(Called', {c})
    /\ Ends' = Ends
    /\ [iit |-> "API_CALL", send_pid |-> Head(toDaemon).send_pid, call |-> c] = toDaemon[1]
    /\ \A k \in 1..Len(toDaemon') :
          k + 1 \in 1..Len(toDaemon) /\ toDaemon'[k] = toDaemon[k + 1]
    /\ Heard(Head(toDaemon).send_pid)
    /\ \/ /\ recv_alist' = Append(recv_alist, Numbered(c))
          /\ Calls(recv_alist') = Calls(recv_alist) \cup {Numbered(c)}
          /\ NoneTwice(recv_alist) /\ Apart(Calls(recv_alist), {c}) => NoneTwice(recv_alist')
          /\ api_public_magic_number' = api_public_magic_number + 1
       \/ /\ member[Head(toDaemon).send_pid] = "absent"
          /\ UNCHANGED <<recv_alist, api_public_magic_number>>
    /\ UNCHANGED <<clientVars, toClient, api_list, recv_acklist, results, ran>>

LEMMA NumberedParts ==
    ASSUME TypeOK, NEW c \in CallRecord
    PROVE  /\ Numbered(c) \in CallRecord
           /\ Numbered(c).send_pid = c.send_pid /\ Numbered(c).ack_id = c.ack_id
           /\ Numbered(c).pname = c.pname /\ Numbered(c).api_name = c.api_name
           /\ Numbered(c).daemon_magic_number = api_public_magic_number
           /\ Id(Numbered(c)) = Id(c)
<1>1. api_public_magic_number \in Nat
  BY DEF TypeOK
<1>2. QED BY <1>1 DEF CallRecord, Numbered, Id

LEMMA CallTaken == ASSUME TypeOK, DaemonCall PROVE \E c \in CallRecord : TakesCall(c)
<1> DEFINE p == Head(toDaemon)
           c == p.call
<1>1. /\ p \in DaemonPacket /\ p.iit = "API_CALL" /\ p = toDaemon[1]
      /\ \A k \in 1..Len(toDaemon') :
            k + 1 \in 1..Len(toDaemon) /\ toDaemon'[k] = toDaemon[k + 1]
      /\ Called = Called' \cup {c}
      /\ CalledOnce => CalledOnce' /\ Apart(Called', {c})
  BY TookFromDaemon DEF DaemonCall
<1>2. c \in CallRecord
  BY CallOfHead DEF DaemonCall
<1>3. Ends' = Ends
  <2>1. toDaemon \in Seq(DaemonPacket) /\ toDaemon # <<>> /\ toDaemon' = Tail(toDaemon)
    BY DEF TypeOK, DaemonCall, Receives
  <2>2. Head(toDaemon) \notin EndPacket
    BY <1>1, PacketParts
  <2>3. QED BY <2>1, <2>2, SaidTail DEF Ends
<1>4. /\ Heard(p.send_pid)
      /\ \/ /\ recv_alist' = Append(recv_alist, Numbered(c))
            /\ api_public_magic_number' = api_public_magic_number + 1
         \/ /\ member[p.send_pid] = "absent"
            /\ UNCHANGED <<recv_alist, api_public_magic_number>>
      /\ UNCHANGED <<clientVars, toClient, api_list, recv_acklist, results, ran>>
  BY DEF DaemonCall
<1>5. [iit |-> "API_CALL", send_pid |-> p.send_pid, call |-> c] = p
  <2>1. p \in CallPacket
    BY <1>1, PacketParts
  <2>2. QED BY <2>1 DEF CallPacket
<1>6. recv_alist' = Append(recv_alist, Numbered(c))
         => /\ Calls(recv_alist') = Calls(recv_alist) \cup {Numbered(c)}
            /\ NoneTwice(recv_alist) /\ Apart(Calls(recv_alist), {c}) => NoneTwice(recv_alist')
  <2>1. Numbered(c) \in CallRecord /\ Id(Numbered(c)) = Id(c) /\ recv_alist \in Seq(CallRecord)
    BY <1>2, NumberedParts DEF TypeOK
  <2> HIDE DEF c
  <2>2. Apart(Calls(recv_alist), {c}) => Apart(Calls(recv_alist), {Numbered(c)})
    BY <2>1 DEF Apart
  <2>3. QED BY <2>1, <2>2, CallsAppend
<1>7. p.send_pid = Head(toDaemon).send_pid
  OBVIOUS
<1> HIDE DEF p, c
<1>8. QED BY <1>1, <1>2, <1>3, <1>4, <1>5, <1>6, <1>7 DEF TakesCall, p

\* The daemon takes the end record of c that h sent, and answers a caller.
Ending(h, c) ==
    /\ [iit |-> "API_END", send_pid |-> h, call |-> c] \in Ends
    /\ Ends' \subseteq Ends
    /\ Called' = Called /\ (CalledOnce => CalledOnce')
    /\ \A k \in 1..Len(toDaemon') :
          k + 1 \in 1..Len(toDaemon) /\ toDaemon'[k] = toDaemon[k + 1]
    /\ Ack(c.ack_id, "OK", Id(c)) \in AckPacket
    /\ \/ UNCHANGED <<toClient, recv_acklist>>
       \/ \E d \in CallRecord :
             /\ d.daemon_magic_number = c.daemon_magic_number
             /\ Calls(recv_acklist) = Calls(recv_acklist') \cup {d}
             /\ NoneTwice(recv_acklist)
                   => NoneTwice(recv_acklist') /\ Apart(Calls(recv_acklist'), {d})
             /\ Relay(d.send_pid, Ack(c.ack_id, "OK", Id(c)))
       \/ /\ member[h] = "absent" \/ c.api_name \notin api_list[h]
          /\ Relay(h, Ack(c.ack_id, "OK", Id(c)))
          /\ UNCHANGED recv_acklist
    /\ UNCHANGED <<clientVars, member, api_list, recv_alist, api_public_magic_number,
                   results, ran>>

LEMMA EndTaken ==
    ASSUME TypeOK, DaemonEnd PROVE \E h \in Handles, c \in CallRecord : Ending(h, c)
<1> DEFINE p == Head(toDaemon)
           h == p.send_pid
           c == p.call
<1>1. h \in Handles /\ c \in CallRecord
  BY CallOfHead DEF DaemonEnd
<1>2. /\ p \in DaemonPacket /\ p.iit = "API_END" /\ p \in Ends /\ Ends' \subseteq Ends
      /\ Called' = Called /\ (CalledOnce => CalledOnce')
      /\ \A k \in 1..Len(toDaemon') :
            k + 1 \in 1..Len(toDaemon) /\ toDaemon'[k] = toDaemon[k + 1]
  BY TookFromDaemon DEF DaemonEnd
<1>3. [iit |-> "API_END", send_pid |-> h, call |-> c] = p
  <2>1. p \in EndPacket
    BY <1>2, PacketParts
  <2>2. QED BY <2>1 DEF EndPacket
<1>4. /\ \/ UNCHANGED <<toClient, recv_acklist>>
         \/ /\ Matches(c) # {}
            /\ Relay(recv_acklist[Min(Matches(c))].send_pid, Ack(c.ack_id, "OK", Id(c)))
            /\ recv_acklist' = RemoveAt(recv_acklist, Min(Matches(c)))
         \/ /\ member[h] = "absent" \/ c.api_name \notin api_list[h]
            /\ Relay(h, Ack(c.ack_id, "OK", Id(c)))
            /\ UNCHANGED recv_acklist
      /\ UNCHANGED <<clientVars, member, api_list, recv_alist, api_public_magic_number,
                     results, ran>>
  BY DEF DaemonEnd
<1> HIDE DEF p, h, c
<1>5. Ack(c.ack_id, "OK", Id(c)) \in AckPacket
  BY <1>1, CallParts DEF Ack, AckPacket, AckResults
<1>6. ASSUME Matches(c) # {},
             Relay(recv_acklist[Min(Matches(c))].send_pid, Ack(c.ack_id, "OK", Id(c))),
             recv_acklist' = RemoveAt(recv_acklist, Min(Matches(c)))
      PROVE  \E d \in CallRecord :
                /\ d.daemon_magic_number = c.daemon_magic_number
                /\ Calls(recv_acklist) = Calls(recv_acklist') \cup {d}
                /\ NoneTwice(recv_acklist)
                      => NoneTwice(recv_acklist') /\ Apart(Calls(recv_acklist'), {d})
                /\ Relay(d.send_pid, Ack(c.ack_id, "OK", Id(c)))
  <2> DEFINE i == Min(Matches(c))
  <2>1. i \in 1..Len(recv_acklist)
        /\ recv_acklist[i].daemon_magic_number = c.daemon_magic_number
    BY <1>1, <1>6, MatchesProperties
  <2>2. recv_acklist \in Seq(CallRecord)
    BY DEF TypeOK
  <2> HIDE DEF i
  <2>3. /\ recv_acklist[i] \in CallRecord
        /\ Calls(recv_acklist) = Calls(RemoveAt(recv_acklist, i)) \cup {recv_acklist[i]}
        /\ NoneTwice(recv_acklist)
              => /\ NoneTwice(RemoveAt(recv_acklist, i))
                 /\ Apart(Calls(RemoveAt(recv_acklist, i)), {recv_acklist[i]})
    BY <2>1, <2>2, CallsDelete
  <2>4. /\ Relay(recv_acklist[i].send_pid, Ack(c.ack_id, "OK", Id(c)))
        /\ recv_acklist' = RemoveAt(recv_acklist, i)
    BY <1>6 DEF i
  <2>5. QED BY <2>1, <2>3, <2>4
<1>7. [iit |-> "API_END", send_pid |-> h, call |-> c] \in Ends
  BY <1>2, <1>3
<1>8. QED BY <1>1, <1>2, <1>4, <1>5, <1>6, <1>7 DEF Ending

\* A relayed call reaches the socket of h, or is lost.
LEMMA RelayedTo ==
    ASSUME TypeOK, NEW h \in Handles, NEW c \in CallRecord,
           Relay(h, [iit |-> "API_RELAY", call |-> c])
    PROVE  /\ \A g \in Handles :
                 /\ AcksIn(toClient'[g]) = AcksIn(toClient[g])
                 /\ AcksOnce(toClient[g]) => AcksOnce(toClient'[g])
                 /\ g # h => toClient'[g] = toClient[g]
           /\ \/ RelaysIn(toClient'[h]) = RelaysIn(toClient[h]) \cup {c}
              \/ RelaysIn(toClient'[h]) = RelaysIn(toClient[h])
           /\ RelaysOnce(toClient[h]) /\ Apart(RelaysIn(toClient[h]), {c})
                 => RelaysOnce(toClient'[h])
<1> DEFINE p == [iit |-> "API_RELAY", call |-> c]
<1>1. p \in RelayPacket /\ p \in ClientPacket /\ p.call = c
  BY PacketParts DEF RelayPacket
<1> HIDE DEF p
<1>2. /\ toClient'[h] = Append(toClient[h], p) \/ toClient'[h] = toClient[h]
      /\ \A g \in Handles : g # h => toClient'[g] = toClient[g]
  BY <1>1, Relaying DEF p
<1>3. toClient[h] \in Seq(ClientPacket)
  BY DEF TypeOK
<1>4. /\ RelaysIn(Append(toClient[h], p)) = RelaysIn(toClient[h]) \cup {c}
      /\ RelaysOnce(toClient[h]) /\ Apart(RelaysIn(toClient[h]), {c})
            => RelaysOnce(Append(toClient[h], p))
      /\ AcksIn(Append(toClient[h], p)) = AcksIn(toClient[h])
      /\ AcksOnce(toClient[h]) => AcksOnce(Append(toClient[h], p))
  BY <1>1, <1>3, SentToClient
<1>5. QED BY <1>2, <1>4

\* An answer reaches the socket of h, or is lost.
LEMMA AnsweredTo ==
    ASSUME TypeOK, NEW h \in Handles, NEW a \in AckPacket, Relay(h, a)
    PROVE  /\ \A g \in Handles :
                 /\ RelaysIn(toClient'[g]) = RelaysIn(toClient[g])
                 /\ RelaysOnce(toClient[g]) => RelaysOnce(toClient'[g])
                 /\ g # h => toClient'[g] = toClient[g]
           /\ Reachable(h) => AcksIn(toClient'[h]) = AcksIn(toClient[h]) \cup {a}
           /\ ~Reachable(h) => AcksIn(toClient'[h]) = AcksIn(toClient[h])
           /\ AcksOnce(toClient[h]) /\ (\A b \in AcksIn(toClient[h]) : b.ack_id # a.ack_id)
                 => AcksOnce(toClient'[h])
<1>1. a \in ClientPacket
  BY PacketParts
<1>2. /\ Reachable(h) => toClient'[h] = Append(toClient[h], a)
      /\ ~Reachable(h) => toClient'[h] = toClient[h]
      /\ \A g \in Handles : g # h => toClient'[g] = toClient[g]
  BY <1>1, Relaying
<1>3. toClient[h] \in Seq(ClientPacket)
  BY DEF TypeOK
<1>4. /\ RelaysIn(Append(toClient[h], a)) = RelaysIn(toClient[h])
      /\ RelaysOnce(toClient[h]) => RelaysOnce(Append(toClient[h], a))
      /\ AcksIn(Append(toClient[h], a)) = AcksIn(toClient[h]) \cup {a}
      /\ AcksOnce(toClient[h]) /\ (\A b \in AcksIn(toClient[h]) : b.ack_id # a.ack_id)
            => AcksOnce(Append(toClient[h], a))
  BY <1>1, <1>3, SentToClient
<1>5. QED BY <1>2, <1>4

\* With an answer more, those to what was started stay so.
LEMMA OneMoreAnswer ==
    ASSUME TypeOK, UNCHANGED results, NEW a \in AckPacket,
           \A h \in Handles : \A b \in AcksIn(toClient'[h]) : b \in AcksIn(toClient[h]) \/ b = a
    PROVE  /\ ToldAny' \subseteq ToldAny \cup {a.of}
           /\ ToldOk' \subseteq ToldOk \cup {a.of}
           /\ a.ack_result # "OK" => ToldOk' \subseteq ToldOk
           /\ ToldNotFound' \subseteq ToldNotFound \cup {a.of}
           /\ a.ack_result \in {"OK", "TIMEOUT"} => ToldNotFound' \subseteq ToldNotFound
BY DEF ToldAny, ToldOk, ToldNotFound, Told

-----------------------------------------------------------------------------
\* Each step keeps each call at one place, and is of one of the four kinds

Placed == TypeOK /\ EachOnce /\ OnePlace /\ History
PlacedNext == EachOnce' /\ OnePlace' /\ AnyKind

LEMMA SameCalls == ASSUME UNCHANGED api_ack_magic_num PROVE CallsMade' = CallsMade
BY DEF CallsMade

LEMMA CallKind ==
    ASSUME Placed, NEW h \in Handles, NEW size \in Sizes, NEW c \in CallRecord, Issues(h, size, c)
    PROVE  PlacedNext
<1> DEFINE p == [iit |-> "API_CALL", send_pid |-> h, call |-> c]
<1>1. TypeOK /\ EachOnce /\ OnePlace /\ History
  BY DEF Placed
<1>2. Id(c) \in CallIds \ CallsMade /\ CallsMade' = CallsMade \cup {Id(c)}
  <2>1. /\ Id(c) \in CallIds /\ Id(c)[1] = h /\ Id(c)[2] = api_ack_magic_num[h]
        /\ Id(c) = <<h, api_ack_magic_num[h]>>
    BY CallParts DEF Issues
  <2>2. /\ api_ack_magic_num \in [Handles -> 0..MaxCalls] /\ api_ack_magic_num[h] \in Nat
        /\ api_ack_magic_num' = [api_ack_magic_num EXCEPT ![h] = @ + 1]
    BY <1>1 DEF TypeOK, Issues
  <2>3. ASSUME NEW id \in CallIds
        PROVE  id \in CallsMade' <=> id \in CallsMade \/ id = Id(c)
    <3>1. id[1] \in Handles /\ id[2] \in Nat /\ id = <<id[1], id[2]>>
      BY IdParts
    <3>2. CASE id[1] # h
      <4>1. api_ack_magic_num'[id[1]] = api_ack_magic_num[id[1]]
        BY <2>2, <3>1, <3>2
      <4>2. QED BY <2>1, <3>2, <4>1 DEF CallsMade
    <3>3. CASE id[1] = h
      <4>1. api_ack_magic_num'[h] = api_ack_magic_num[h] + 1
        BY <2>2
      <4>2. id[2] < api_ack_magic_num[h] + 1 <=>
               id[2] < api_ack_magic_num[h] \/ id[2] = api_ack_magic_num[h]
        BY <2>2, <3>1
      <4>3. QED BY <2>1, <3>1, <3>3, <4>1, <4>2 DEF CallsMade
    <3>4. QED BY <3>2, <3>3
  <2>4. Id(c) \notin CallsMade
    BY <2>1, <2>2 DEF CallsMade
  <2>5. CallsMade \subseteq CallIds /\ CallsMade' \subseteq CallIds
    BY DEF CallsMade
  <2>6. QED BY <2>1, <2>3, <2>4, <2>5
<1>3. Id(c) \notin Unstarted
  BY <1>1, <1>2 DEF History
<1>4. /\ p \in CallPacket /\ p \in DaemonPacket /\ p \notin EndPacket /\ p.call = c
      /\ UNCHANGED <<alive, api_recv_list, running, toClient, daemonVars, results, ran>>
      /\ toDaemon' = Append(toDaemon, p) \/ toDaemon' = toDaemon
  BY PacketParts DEF Issues, Send
<1> HIDE DEF p
<1>5. /\ Called' = Called \cup {c} \/ Called' = Called
      /\ CalledOnce'
      /\ Ends' = Ends
  <2>1. Apart(Called, {c})
    <3>1. ASSUME NEW d \in Called PROVE Id(d) # Id(c)
      <4>1. d \in CallRecord
        BY <1>1, CallsInSocket
      <4>2. At("called", d.pname, d)
        BY <4>1, CallParts DEF At
      <4>3. QED BY <1>3, <4>2, AtPlace
    <3>2. QED BY <3>1 DEF Apart
  <2>2. CASE toDaemon' = toDaemon
    BY <1>1, <2>2, SameSocket DEF EachOnce
  <2>3. CASE toDaemon' = Append(toDaemon, p)
    BY <1>1, <1>4, <2>1, <2>3, SentToDaemon DEF EachOnce
  <2>4. QED BY <1>4, <2>2, <2>3
<1>6. EachOnce'
  BY <1>1, <1>4, <1>5 DEF EachOnce, daemonVars
<1>7. Comes("called", c.pname, c)
  BY <1>4, <1>5 DEF Comes, At, daemonVars
<1>8. OnePlace' /\ Unstarted' \subseteq Unstarted \cup {Id(c)}
  BY <1>1, <1>3, <1>7, Coming
<1>9. Started' \subseteq Started /\ Pending' \subseteq Pending
  BY <1>4, <1>5, SameStarted, SamePending DEF daemonVars
<1>10. ToldAny' = ToldAny /\ ToldOk' = ToldOk /\ ToldNotFound' = ToldNotFound
  BY <1>4, SameAnswers
<1>11. Makes(Id(c))
  BY <1>2, <1>4, <1>8, <1>9, <1>10 DEF Makes
<1>12. QED BY <1>2, <1>6, <1>8, <1>11 DEF PlacedNext, AnyKind

LEMMA RelayKind ==
    ASSUME Placed, NEW h \in Handles, NEW c \in CallRecord, Arrives(h, c)
    PROVE  PlacedNext
<1>1. TypeOK /\ EachOnce /\ OnePlace /\ History
  BY DEF Placed
<1>2. At("relayed", h, c)
  BY DEF At, Arrives
<1>3. Apart(Calls(api_recv_list[h]), {c})
  <2>1. ASSUME NEW d \in Calls(api_recv_list[h]) PROVE Id(d) # Id(c)
    <3>1. d \in CallRecord
      BY <1>1, CallsInList DEF TypeOK
    <3>2. At("arrived", h, d)
      BY <3>1 DEF At
    <3>3. QED BY <1>1, <1>2, <3>2 DEF OnePlace
  <2>2. QED BY <2>1 DEF Apart
<1>4. Called' = Called /\ CalledOnce' = CalledOnce /\ Ends' = Ends
  BY SameSocket DEF Arrives
<1>5. EachOnce'
  BY <1>1, <1>3, <1>4 DEF EachOnce, Arrives, daemonVars
<1>6. c \notin RelaysIn(toClient'[h])
  BY <1>1 DEF EachOnce, Arrives, Apart
<1>7. Moves("relayed", h, c, "arrived", h, c)
  BY <1>2, <1>4, <1>6 DEF Moves, At, Arrives, daemonVars
<1>8. OnePlace' /\ Unstarted' \subseteq Unstarted
  BY <1>1, <1>7, Moving
<1>9. Started' \subseteq Started /\ Pending' = Pending /\ CallsMade' = CallsMade /\ ran' = ran
  BY <1>4, SameStarted, SamePending, SameCalls DEF Arrives, daemonVars
<1>10. ToldAny' \subseteq ToldAny /\ ToldOk' \subseteq ToldOk /\ ToldNotFound' \subseteq ToldNotFound
  BY <1>1, NoNewAnswer DEF Arrives
<1>11. QED BY <1>5, <1>8, <1>9, <1>10 DEF PlacedNext, AnyKind, Quiet

\* The result that h gets is its last one.
LEMMA LastResult ==
    ASSUME TypeOK, NEW h \in Handles, NEW a \in AckPacket, Answers(h, a)
    PROVE  /\ \A g \in Handles : g # h => results'[g] = results[g]
           /\ \/ results'[h] = results[h] /\ waiting' = waiting
              \/ /\ Len(results'[h]) = Len(results[h]) + 1
                 /\ results'[h][Len(results[h]) + 1].ack_result = a.ack_result
                 /\ results'[h][Len(results[h]) + 1].of = a.of
                 /\ \A k \in 1..Len(results[h]) : results'[h][k] = results[h][k]
                 /\ waiting[h] # <<>> /\ waiting[h][1].ack_id = a.ack_id
                 /\ waiting' = [waiting EXCEPT ![h] = <<>>]
<1> DEFINE r == [ack_result |-> a.ack_result, of |-> a.of]
<1>1. r \in Result /\ r.ack_result = a.ack_result /\ r.of = a.of
  BY PacketParts DEF Result
<1>2. results \in [Handles -> Seq(Result)] /\ results[h] \in Seq(Result)
  BY DEF TypeOK
<1>3. \/ results' = results /\ waiting' = waiting
      \/ /\ results' = [results EXCEPT ![h] = Append(@, r)]
         /\ waiting[h] # <<>> /\ waiting[h][1].ack_id = a.ack_id
         /\ waiting' = [waiting EXCEPT ![h] = <<>>]
  BY DEF Answers
<1> HIDE DEF r
<1>4. /\ Len(Append(results[h], r)) = Len(results[h]) + 1
      /\ \A k \in 1..Len(results[h]) : Append(results[h], r)[k] = results[h][k]
      /\ Append(results[h], r)[Len(results[h]) + 1] = r
  BY <1>1, <1>2, AppendedTo
<1>5. CASE results' = results /\ waiting' = waiting
  BY <1>5
<1>6. CASE /\ results' = [results EXCEPT ![h] = Append(@, r)]
           /\ waiting[h] # <<>> /\ waiting[h][1].ack_id = a.ack_id
           /\ waiting' = [waiting EXCEPT ![h] = <<>>]
  <2>1. results'[h] = Append(results[h], r) /\ \A g \in Handles : g # h => results'[g] = results[g]
    BY <1>2, <1>6
  <2>2. QED BY <1>1, <1>4, <1>6, <2>1
<1>7. QED BY <1>3, <1>5, <1>6

LEMMA AnswerKind ==
    ASSUME Placed, NEW h \in Handles, NEW a \in AckPacket, Answers(h, a)
    PROVE  PlacedNext
<1>1. TypeOK /\ EachOnce /\ OnePlace /\ History
  BY DEF Placed
<1>2. Called' = Called /\ CalledOnce' = CalledOnce /\ Ends' = Ends
  BY SameSocket DEF Answers
<1>3. EachOnce'
  BY <1>1, <1>2 DEF EachOnce, Answers, daemonVars
<1>4. Stay
  BY <1>2 DEF Stay, At, Answers, daemonVars
<1>5. OnePlace' /\ Unstarted' \subseteq Unstarted
  BY <1>1, <1>4, Staying
<1>6. Started' \subseteq Started /\ Pending' = Pending /\ CallsMade' = CallsMade /\ ran' = ran
  BY <1>2, SameStarted, SamePending, SameCalls DEF Answers, daemonVars
<1>7. ASSUME NEW g \in Handles, NEW k \in 1..Len(results'[g]), g # h \/ k # Len(results[h]) + 1
      PROVE  k \in 1..Len(results[g]) /\ results'[g][k] = results[g][k]
  <2>1. Len(results[h]) \in Nat
    BY <1>1 DEF TypeOK
  <2>2. CASE g = h
    <3>1. CASE results'[h] = results[h]
      BY <2>2, <3>1
    <3>2. CASE /\ Len(results'[h]) = Len(results[h]) + 1
               /\ \A n \in 1..Len(results[h]) : results'[h][n] = results[h][n]
      <4>1. k \in 1..(Len(results[h]) + 1) /\ k # Len(results[h]) + 1
        BY <1>7, <2>2, <3>2
      <4>2. k \in 1..Len(results[h])
        BY <2>1, <4>1
      <4>3. QED BY <2>2, <3>2, <4>2
    <3>3. QED BY <1>1, <3>1, <3>2, LastResult
  <2>3. QED BY <1>1, <2>2, LastResult
<1>8. Len(results[h]) + 1 \in 1..Len(results'[h])
         => /\ results'[h][Len(results[h]) + 1].ack_result = a.ack_result
            /\ results'[h][Len(results[h]) + 1].of = a.of
  <2>1. Len(results[h]) \in Nat
    BY <1>1 DEF TypeOK
  <2>2. CASE results'[h] = results[h]
    BY <2>1, <2>2
  <2>3. QED BY <1>1, <2>2, LastResult
<1>9. /\ a \in AcksIn(toClient[h])
      /\ \A g \in Handles : AcksIn(toClient'[g]) \subseteq AcksIn(toClient[g])
  BY DEF Answers
<1>10. ToldAny' \subseteq ToldAny /\ ToldOk' \subseteq ToldOk /\ ToldNotFound' \subseteq ToldNotFound
  <2>1. ASSUME NEW which PROVE Told(which, toClient', results') \subseteq Told(which, toClient, results)
    <3>1. ASSUME NEW id \in Told(which, toClient', results') PROVE id \in Told(which, toClient, results)
      <4>1. PICK g \in Handles :
               \/ \E b \in AcksIn(toClient'[g]) : b.ack_result \in which /\ b.of = id
               \/ \E k \in 1..Len(results'[g]) :
                     results'[g][k].ack_result \in which /\ results'[g][k].of = id
        BY <3>1 DEF Told
      <4>2. id \in CallIds
        BY <3>1 DEF Told
      <4>3. CASE \E b \in AcksIn(toClient'[g]) : b.ack_result \in which /\ b.of = id
        BY <1>9, <4>2, <4>3 DEF Told
      <4>4. ASSUME NEW k \in 1..Len(results'[g]),
                   results'[g][k].ack_result \in which, results'[g][k].of = id
            PROVE  id \in Told(which, toClient, results)
        <5>1. CASE g = h /\ k = Len(results[h]) + 1
          BY <1>8, <1>9, <4>2, <4>4, <5>1 DEF Told
        <5>2. CASE g # h \/ k # Len(results[h]) + 1
          BY <1>7, <4>2, <4>4, <5>2 DEF Told
        <5>3. QED BY <5>1, <5>2
      <4>5. QED BY <4>1, <4>3, <4>4
    <3>2. QED BY <3>1
  <2>2. QED BY <2>1 DEF ToldAny, ToldOk, ToldNotFound
<1>11. QED BY <1>3, <1>5, <1>6, <1>10 DEF PlacedNext, AnyKind, Quiet

LEMMA StartKind ==
    ASSUME Placed, NEW h \in Handles, NEW c \in CallRecord, Begins(h, c)
    PROVE  PlacedNext
<1>1. TypeOK /\ EachOnce /\ OnePlace /\ History
  BY DEF Placed
<1>2. Called' = Called /\ CalledOnce' = CalledOnce /\ Ends' = Ends
  BY SameSocket DEF Begins, netVars
<1>3. EachOnce'
  BY <1>1, <1>2 DEF EachOnce, Begins, daemonVars, netVars
<1>4. c \notin Calls(api_recv_list'[h])
  BY <1>1 DEF EachOnce, Begins, Apart
<1>5. Leaves("arrived", h, c)
  BY <1>2, <1>4 DEF Leaves, At, Begins, daemonVars, netVars
<1>6. OnePlace' /\ Unstarted' \subseteq Unstarted \ {Id(c)} /\ Id(c) \in Unstarted
  BY <1>1, <1>5, Leaving
<1>7. Pending' = Pending /\ CallsMade' = CallsMade /\ ran' = [ran EXCEPT ![Id(c)] = @ + 1]
  BY SamePending, SameCalls DEF Begins, daemonVars
<1>8. ToldAny' = ToldAny /\ ToldOk' = ToldOk /\ ToldNotFound' = ToldNotFound
  BY SameAnswers DEF Begins, netVars
<1>9. Started' \subseteq Started \cup {Id(c)}
  <2>1. \A g \in Handles : running'[g] \subseteq running[g] \cup {c}
    BY <1>1 DEF Begins, TypeOK
  <2>2. QED BY <1>2, <2>1 DEF Started
<1>10. Starts(Id(c))
  BY <1>6, <1>7, <1>8, <1>9 DEF Starts
<1>11. Id(c) \in CallIds
  BY CallParts
<1>12. QED BY <1>3, <1>6, <1>10, <1>11 DEF PlacedNext, AnyKind

\* A packet that is not a call goes to the daemon; apart from it and the calls
\* that run, everything is as it was.
LEMMA SendKind ==
    ASSUME Placed, NEW p \in DaemonPacket \ CallPacket,
           toDaemon' = Append(toDaemon, p) \/ toDaemon' = toDaemon,
           p \in EndPacket => Id(p.call) \in Started,
           \A h \in Handles : running'[h] \subseteq running[h],
           UNCHANGED <<api_ack_magic_num, api_recv_list, toClient, recv_alist, recv_acklist,
                       results, ran>>
    PROVE  PlacedNext
<1>1. TypeOK /\ EachOnce /\ OnePlace /\ History
  BY DEF Placed
<1>2. /\ Called' = Called /\ CalledOnce'
      /\ Ends' = Ends \/ (p \in EndPacket /\ Ends' = Ends \cup {p})
  <2>1. CASE toDaemon' = toDaemon
    BY <1>1, <2>1, SameSocket DEF EachOnce
  <2>2. CASE toDaemon' = Append(toDaemon, p)
    BY <1>1, <2>2, SentToDaemon DEF EachOnce
  <2>3. QED BY <2>1, <2>2
<1>3. EachOnce'
  BY <1>1, <1>2 DEF EachOnce
<1>4. Stay
  BY <1>2 DEF Stay, At
<1>5. OnePlace' /\ Unstarted' \subseteq Unstarted
  BY <1>1, <1>4, Staying
<1>6. Started' \subseteq Started
  <2>1. ASSUME NEW id \in Started' PROVE id \in Started
    <3>1. /\ id \in CallIds
          /\ \/ \E h \in Handles : \E c \in running'[h] : Id(c) = id
             \/ \E e \in Ends' : Id(e.call) = id
      BY <2>1 DEF Started
    <3>2. CASE \E e \in Ends' : Id(e.call) = id
      BY <1>2, <3>1, <3>2 DEF Started
    <3>3. CASE \E h \in Handles : \E c \in running'[h] : Id(c) = id
      BY <3>1, <3>3 DEF Started
    <3>4. QED BY <3>1, <3>2, <3>3
  <2>2. QED BY <2>1
<1>7. Pending' = Pending /\ CallsMade' = CallsMade /\ ran' = ran
  BY SamePending, SameCalls
<1>8. ToldAny' = ToldAny /\ ToldOk' = ToldOk /\ ToldNotFound' = ToldNotFound
  BY SameAnswers
<1>9. QED BY <1>3, <1>5, <1>6, <1>7, <1>8 DEF PlacedNext, AnyKind, Quiet

LEMMA CrashKind == ASSUME Placed, NEW h \in Handles, Crash(h) PROVE PlacedNext
<1>1. TypeOK /\ EachOnce /\ OnePlace /\ History
  BY DEF Placed
<1>2. Called' = Called /\ CalledOnce' = CalledOnce /\ Ends' = Ends
  BY SameSocket DEF Crash
<1>3. /\ RelaysIn(toClient'[h]) = {} /\ RelaysOnce(toClient'[h])
      /\ AcksIn(toClient'[h]) = {}
      /\ Calls(api_recv_list'[h]) = {} /\ NoneTwice(api_recv_list'[h])
      /\ running'[h] = {}
      /\ \A g \in Handles : g # h => /\ toClient'[g] = toClient[g]
                                     /\ api_recv_list'[g] = api_recv_list[g]
                                     /\ running'[g] = running[g]
  <2>1. /\ toClient'[h] = <<>> /\ api_recv_list'[h] = <<>> /\ running'[h] = {}
        /\ \A g \in Handles : g # h => /\ toClient'[g] = toClient[g]
                                       /\ api_recv_list'[g] = api_recv_list[g]
                                       /\ running'[g] = running[g]
    BY <1>1 DEF Crash, TypeOK
  <2>2. QED BY <2>1, SaidOfNone DEF RelaysIn, RelaysOnce, AcksIn, Calls, NoneTwice
<1>4. UNCHANGED <<api_ack_magic_num, recv_alist, recv_acklist, results, ran>>
  BY DEF Crash, daemonVars
<1>5. EachOnce'
  BY <1>1, <1>2, <1>3, <1>4 DEF EachOnce
<1>6. Stay
  BY <1>2, <1>3, <1>4 DEF Stay, At
<1>7. OnePlace' /\ Unstarted' \subseteq Unstarted
  BY <1>1, <1>6, Staying
<1>8. Started' \subseteq Started
  BY <1>2, <1>3 DEF Started
<1>9. Pending' = Pending /\ CallsMade' = CallsMade /\ ran' = ran
  BY <1>4, SamePending, SameCalls
<1>10. ToldAny' \subseteq ToldAny /\ ToldOk' \subseteq ToldOk /\ ToldNotFound' \subseteq ToldNotFound
  BY <1>1, <1>3, <1>4, NoNewAnswer
<1>11. QED BY <1>5, <1>7, <1>8, <1>9, <1>10 DEF PlacedNext, AnyKind, Quiet

LEMMA QueueKind == ASSUME Placed, NEW c \in CallRecord, TakesCall(c) PROVE PlacedNext
<1>1. TypeOK /\ EachOnce /\ OnePlace /\ History
  BY DEF Placed
<1>2. c \in Called /\ c \notin Called' /\ CalledOnce'
  BY <1>1 DEF EachOnce, TakesCall, Apart
<1>3. At("called", c.pname, c)
  BY <1>2, CallParts DEF At
<1>4. Apart(Calls(recv_alist), {c})
  <2>1. ASSUME NEW d \in Calls(recv_alist) PROVE Id(d) # Id(c)
    <3>1. d \in CallRecord
      BY <1>1, CallsInList DEF TypeOK
    <3>2. At("queued", d.pname, d)
      BY <3>1, CallParts DEF At
    <3>3. QED BY <1>1, <1>3, <3>2 DEF OnePlace
  <2>2. QED BY <2>1 DEF Apart
<1>5. EachOnce'
  BY <1>1, <1>2, <1>4 DEF EachOnce, TakesCall, clientVars
<1>6. /\ Numbered(c) \in CallRecord /\ Numbered(c).pname = c.pname /\ Id(Numbered(c)) = Id(c)
  BY <1>1, NumberedParts
<1>7. Moves("called", c.pname, c, "queued", c.pname, Numbered(c))
  BY <1>2, <1>3, <1>6 DEF Moves, At, TakesCall, clientVars
<1>8. OnePlace' /\ Unstarted' \subseteq Unstarted
  BY <1>1, <1>7, Moving
<1>9. Started' \subseteq Started /\ Pending' = Pending /\ CallsMade' = CallsMade /\ ran' = ran
  BY SameStarted, SamePending, SameCalls DEF TakesCall, clientVars
<1>10. ToldAny' = ToldAny /\ ToldOk' = ToldOk /\ ToldNotFound' = ToldNotFound
  BY SameAnswers DEF TakesCall
<1>11. QED BY <1>5, <1>8, <1>9, <1>10 DEF PlacedNext, AnyKind, Quiet

LEMMA EndKind ==
    ASSUME Placed, NEW h \in Handles, NEW c \in CallRecord, Ending(h, c) PROVE PlacedNext
<1>1. TypeOK /\ EachOnce /\ OnePlace /\ History
  BY DEF Placed
<1>2. Id(c) \in Started
  BY CallParts DEF Started, Ending
<1>3. /\ \A g \in Handles : /\ RelaysIn(toClient'[g]) = RelaysIn(toClient[g])
                            /\ RelaysOnce(toClient[g]) => RelaysOnce(toClient'[g])
                            /\ \A b \in AcksIn(toClient'[g]) :
                                  \/ b \in AcksIn(toClient[g])
                                  \/ b = Ack(c.ack_id, "OK", Id(c))
      /\ Calls(recv_acklist') \subseteq Calls(recv_acklist)
  <2>1. CASE UNCHANGED <<toClient, recv_acklist>>
    BY <2>1
  <2>2. ASSUME NEW i \in Handles, Relay(i, Ack(c.ack_id, "OK", Id(c))), NEW g \in Handles
        PROVE  /\ RelaysIn(toClient'[g]) = RelaysIn(toClient[g])
               /\ RelaysOnce(toClient[g]) => RelaysOnce(toClient'[g])
               /\ \A b \in AcksIn(toClient'[g]) :
                                  \/ b \in AcksIn(toClient[g])
                                  \/ b = Ack(c.ack_id, "OK", Id(c))
    <3>1. Ack(c.ack_id, "OK", Id(c)) \in AckPacket
      BY DEF Ending
    <3>2. QED BY <1>1, <2>2, <3>1, AnsweredTo
  <2>3. CASE \E d \in CallRecord :
                /\ Calls(recv_acklist) = Calls(recv_acklist') \cup {d}
                /\ Relay(d.send_pid, Ack(c.ack_id, "OK", Id(c)))
    BY <2>2, <2>3, CallParts
  <2>4. CASE Relay(h, Ack(c.ack_id, "OK", Id(c))) /\ UNCHANGED recv_acklist
    BY <2>2, <2>4
  <2>5. QED BY <2>1, <2>3, <2>4 DEF Ending
<1>4. UNCHANGED <<alive, waiting, api_ack_magic_num, api_recv_list, running, recv_alist, results, ran>>
  BY DEF Ending, clientVars
<1>5. EachOnce'
  BY <1>1, <1>3, <1>4 DEF EachOnce, Ending
<1>6. Stay
  BY <1>3, <1>4 DEF Stay, At, Ending
<1>7. OnePlace' /\ Unstarted' \subseteq Unstarted
  BY <1>1, <1>6, Staying
<1>8. Started' \subseteq Started /\ CallsMade' = CallsMade /\ ran' = ran
  BY <1>4, SameStarted, SameCalls DEF Ending
<1>9. Pending' \subseteq Pending
  BY <1>3 DEF Pending
<1>10. /\ ToldAny' \subseteq ToldAny \cup {Id(c)} /\ ToldOk' \subseteq ToldOk \cup {Id(c)}
       /\ ToldNotFound' \subseteq ToldNotFound
  <2> DEFINE a == Ack(c.ack_id, "OK", Id(c))
  <2>1. a \in AckPacket /\ a.of = Id(c) /\ a.ack_result = "OK"
    BY DEF Ending, Ack
  <2> HIDE DEF a
  <2>2. \A g \in Handles : \A b \in AcksIn(toClient'[g]) : b \in AcksIn(toClient[g]) \/ b = a
    BY <1>3 DEF a
  <2>3. QED BY <1>1, <1>4, <2>1, <2>2, OneMoreAnswer
<1>11. QED BY <1>2, <1>5, <1>7, <1>8, <1>9, <1>10 DEF PlacedNext, AnyKind, Quiet

LEMMA ProbeKind ==
    ASSUME Placed, NEW c \in CallRecord, Probes(c),
           UNCHANGED <<clientVars, toDaemon, member, api_list, api_public_magic_number,
                       results, ran>>
    PROVE  PlacedNext
<1>1. TypeOK /\ EachOnce /\ OnePlace /\ History
  BY DEF Placed
<1>2. Called' = Called /\ CalledOnce' = CalledOnce /\ Ends' = Ends
  BY SameSocket
<1>3. c \in Calls(recv_alist) /\ c \notin Calls(recv_alist') /\ NoneTwice(recv_alist')
  BY <1>1 DEF EachOnce, Probes, Apart
<1>4. At("queued", c.pname, c)
  BY <1>3, CallParts DEF At
<1>5. c.pname \in Handles /\ c.send_pid \in Handles
  BY CallParts
<1>6. UNCHANGED <<alive, waiting, api_ack_magic_num, api_recv_list, running>>
  BY DEF clientVars
<1>7. Started' \subseteq Started /\ CallsMade' = CallsMade /\ ran' = ran
  BY <1>2, <1>6, SameStarted, SameCalls
<1>8. CASE /\ Relay(c.pname, [iit |-> "API_RELAY", call |-> c])
           /\ recv_acklist' = Append(recv_acklist, c)
  <2>1. Apart(RelaysIn(toClient[c.pname]), {c})
    <3>1. ASSUME NEW d \in RelaysIn(toClient[c.pname]) PROVE Id(d) # Id(c)
      <4>1. d \in CallRecord
        BY <1>1, <1>5, InClientSocket DEF TypeOK
      <4>2. At("relayed", c.pname, d)
        BY <1>5, <4>1 DEF At
      <4>3. QED BY <1>1, <1>4, <4>2 DEF OnePlace
    <3>2. QED BY <3>1 DEF Apart
  <2>2. /\ \A g \in Handles :
             /\ AcksIn(toClient'[g]) = AcksIn(toClient[g])
             /\ g # c.pname => toClient'[g] = toClient[g]
        /\ RelaysIn(toClient'[c.pname]) \subseteq RelaysIn(toClient[c.pname]) \cup {c}
        /\ RelaysOnce(toClient[c.pname]) => RelaysOnce(toClient'[c.pname])
    BY <1>1, <1>5, <1>8, <2>1, RelayedTo
  <2>3. EachOnce'
    BY <1>1, <1>2, <1>3, <1>6, <2>2 DEF EachOnce
  <2>4. Moves("queued", c.pname, c, "relayed", c.pname, c)
    BY <1>2, <1>3, <1>4, <1>6, <2>2 DEF Moves, At, Probes
  <2>5. OnePlace' /\ Unstarted' \subseteq Unstarted /\ Id(c) \in Unstarted
    BY <1>1, <2>4, Moving
  <2>6. Pending' \subseteq Pending \cup {Id(c)}
    <3>1. Calls(recv_acklist') = Calls(recv_acklist) \cup {c}
      BY <1>1, <1>8, CallsAppend DEF TypeOK
    <3>2. QED BY <3>1 DEF Pending
  <2>7. ToldAny' \subseteq ToldAny /\ ToldOk' \subseteq ToldOk /\ ToldNotFound' \subseteq ToldNotFound
    BY <1>1, <2>2, NoNewAnswer
  <2>8. QED BY <1>7, <2>3, <2>5, <2>6, <2>7 DEF PlacedNext, AnyKind, Quiet
<1>9. ASSUME NEW r \in {"CANTFIND_API", "CANTFIND_PROGRAM"},
             Ack(c.ack_id, r, Id(c)) \in AckPacket,
             Relay(c.send_pid, Ack(c.ack_id, r, Id(c))),
             recv_acklist' = recv_acklist
      PROVE  PlacedNext
  <2> DEFINE a == Ack(c.ack_id, r, Id(c))
  <2>1. a \in AckPacket /\ a.of = Id(c) /\ a.ack_result # "OK" /\ Relay(c.send_pid, a)
    BY <1>9 DEF Ack
  <2> HIDE DEF a
  <2>2. \A g \in Handles :
           /\ RelaysIn(toClient'[g]) = RelaysIn(toClient[g])
           /\ RelaysOnce(toClient[g]) => RelaysOnce(toClient'[g])
           /\ \A b \in AcksIn(toClient'[g]) : b \in AcksIn(toClient[g]) \/ b = a
    BY <1>1, <1>5, <2>1, AnsweredTo
  <2>3. EachOnce'
    BY <1>1, <1>2, <1>3, <1>6, <2>2 DEF EachOnce
  <2>4. Leaves("queued", c.pname, c)
    BY <1>2, <1>3, <1>4, <1>6, <2>2 DEF Leaves, At, Probes
  <2>5. OnePlace' /\ Unstarted' \subseteq Unstarted \ {Id(c)} /\ Id(c) \in Unstarted
    BY <1>1, <2>4, Leaving
  <2>6. Pending' = Pending
    BY <1>9, SamePending
  <2>7. /\ ToldAny' \subseteq ToldAny \cup {Id(c)} /\ ToldOk' \subseteq ToldOk
        /\ ToldNotFound' \subseteq ToldNotFound \cup {Id(c)}
    BY <1>1, <2>1, <2>2, OneMoreAnswer
  <2>8. Denies(Id(c)) /\ Id(c) \in CallIds
    BY <1>7, <2>5, <2>6, <2>7, CallParts DEF Denies
  <2>9. QED BY <2>3, <2>5, <2>8 DEF PlacedNext, AnyKind
<1>10. QED BY <1>8, <1>9 DEF Probes

LEMMA TickKind == ASSUME Placed, Tick PROVE PlacedNext
<1>1. TypeOK /\ EachOnce /\ OnePlace /\ History
  BY DEF Placed
<1>2. /\ UNCHANGED <<api_ack_magic_num, api_recv_list, running, toDaemon, recv_alist, results, ran>>
      /\ Called' = Called /\ CalledOnce' = CalledOnce /\ Ends' = Ends
  BY SameSocket DEF Tick, clientVars
<1>3. /\ Calls(recv_acklist') =
            {Counted(c) : c \in {d \in Calls(recv_acklist) : ~Expired(Counted(d))}}
      /\ \A h \in Handles :
            /\ RelaysIn(toClient'[h]) = RelaysIn(toClient[h])
            /\ RelaysOnce(toClient[h]) => RelaysOnce(toClient'[h])
            /\ AcksIn(toClient'[h]) = AcksIn(toClient[h])
                  \cup {Ack(c.ack_id, "TIMEOUT", Id(c)) : c \in Ended(h)}
  BY <1>1, Ticking
<1>4. EachOnce'
  BY <1>1, <1>2, <1>3 DEF EachOnce
<1>5. Stay
  BY <1>2, <1>3 DEF Stay, At
<1>6. OnePlace' /\ Unstarted' \subseteq Unstarted
  BY <1>1, <1>5, Staying
<1>7. Started' \subseteq Started /\ CallsMade' = CallsMade /\ ran' = ran
  BY <1>2, SameStarted, SameCalls
<1>8. Calls(recv_acklist) \subseteq CallRecord
  BY <1>1, CallsInList DEF TypeOK
<1>9. Pending' \subseteq Pending
  BY <1>3, <1>8, CountedParts DEF Pending
<1>10. \A h \in Handles : \A a \in AcksIn(toClient'[h]) :
          a \in AcksIn(toClient[h]) \/ (a.of \in Pending /\ a.ack_result = "TIMEOUT")
  <2>1. ASSUME NEW h \in Handles, NEW c \in Ended(h) PROVE Id(c) \in Pending
    BY <1>8, CallParts DEF Ended, Pending
  <2>2. QED BY <1>3, <2>1 DEF Ack
<1>11. /\ ToldAny' \subseteq ToldAny \cup Pending
       /\ ToldOk' \subseteq ToldOk /\ ToldNotFound' \subseteq ToldNotFound
  BY <1>2, <1>10 DEF ToldAny, ToldOk, ToldNotFound, Told
<1>12. QED BY <1>4, <1>6, <1>7, <1>9, <1>11 DEF PlacedNext, AnyKind, Quiet

\* A step that leaves the calls where they are.
LEMMA StayKind ==
    ASSUME Placed, Called' = Called, CalledOnce', Ends' \subseteq Ends,
           UNCHANGED <<clientVars, toClient, recv_alist, recv_acklist, results, ran>>
    PROVE  PlacedNext
<1>1. TypeOK /\ EachOnce /\ OnePlace /\ History
  BY DEF Placed
<1>2. UNCHANGED <<api_ack_magic_num, api_recv_list, running>>
  BY DEF clientVars
<1>3. EachOnce'
  BY <1>1, <1>2 DEF EachOnce
<1>4. Stay
  BY <1>2 DEF Stay, At
<1>5. OnePlace' /\ Unstarted' \subseteq Unstarted
  BY <1>1, <1>4, Staying
<1>6. /\ Started' \subseteq Started /\ Pending' = Pending /\ CallsMade' = CallsMade
      /\ ToldAny' = ToldAny /\ ToldOk' = ToldOk /\ ToldNotFound' = ToldNotFound
  BY <1>2, SameStarted, SamePending, SameCalls, SameAnswers
<1>7. QED BY <1>3, <1>5, <1>6 DEF PlacedNext, AnyKind, Quiet

\* A call that a signal ends is told nothing.
LEMMA GivenUpKind == ASSUME Placed, NEW h \in Handles, CallInterrupted(h) PROVE PlacedNext
<1>1. TypeOK /\ EachOnce /\ OnePlace /\ History
  BY DEF Placed
<1>2. Called' = Called /\ CalledOnce' = CalledOnce /\ Ends' = Ends
  BY SameSocket DEF CallInterrupted, netVars
<1>3. EachOnce'
  BY <1>1, <1>2 DEF EachOnce, CallInterrupted, netVars, daemonVars
<1>4. Stay
  BY <1>2 DEF Stay, At, CallInterrupted, netVars, daemonVars
<1>5. OnePlace' /\ Unstarted' \subseteq Unstarted
  BY <1>1, <1>4, Staying
<1>6. Started' \subseteq Started /\ Pending' = Pending /\ CallsMade' = CallsMade /\ ran' = ran
  BY <1>2, SameStarted, SamePending, SameCalls DEF CallInterrupted, daemonVars
<1>7. ASSUME NEW which, "INTERRUPTED" \notin which
      PROVE  Told(which, toClient', results') \subseteq Told(which, toClient, results)
  <2>1. \A g \in Handles : AcksIn(toClient'[g]) = AcksIn(toClient[g])
    BY DEF CallInterrupted, netVars
  <2>2. ASSUME NEW g \in Handles, NEW k \in 1..Len(results'[g]),
               results'[g][k].ack_result \in which
        PROVE  k \in 1..Len(results[g]) /\ results'[g][k] = results[g][k]
    <3>1. CASE g # h
      BY <1>1, <3>1, GivenUp DEF GivesUp
    <3>2. CASE g = h
      <4>1. /\ Len(results'[h]) = Len(results[h]) + 1
            /\ results'[h][Len(results[h]) + 1].ack_result = "INTERRUPTED"
            /\ \A n \in 1..Len(results[h]) : results'[h][n] = results[h][n]
        BY <1>1, GivenUp DEF GivesUp
      <4>2. k # Len(results[h]) + 1
        BY <1>7, <2>2, <3>2, <4>1
      <4>3. k \in 1..Len(results[h])
        <5>1. Len(results[h]) \in Nat /\ k \in 1..(Len(results[h]) + 1)
          BY <1>1, <3>2, <4>1 DEF TypeOK
        <5>2. QED BY <4>2, <5>1
      <4>4. QED BY <3>2, <4>1, <4>3
    <3>3. QED BY <3>1, <3>2
  <2>3. QED BY <2>1, <2>2 DEF Told
<1>8. ToldAny' \subseteq ToldAny /\ ToldOk' \subseteq ToldOk /\ ToldNotFound' \subseteq ToldNotFound
  <2>1. /\ "INTERRUPTED" \notin AckResults /\ "INTERRUPTED" \notin {"OK"}
        /\ "INTERRUPTED" \notin {"CANTFIND_PROGRAM", "CANTFIND_API"}
    BY DEF AckResults
  <2>2. QED BY <1>7, <2>1 DEF ToldAny, ToldOk, ToldNotFound
<1>9. QED BY <1>3, <1>5, <1>6, <1>8 DEF PlacedNext, AnyKind, Quiet

LEMMA ClientKind == ASSUME Placed, NEW h \in Handles, ClientStep(h) PROVE PlacedNext
<1>0. TypeOK
  BY DEF Placed
<1>1. ASSUME NEW g \in Handles, NEW a \in Apis, NEW t \in Timeouts, NEW size \in Sizes,
             Call(h, g, a, t, size)
      PROVE  PlacedNext
  BY <1>0, <1>1, NewCall, CallKind
<1>2. CASE RecvRelay(h)
  BY <1>0, <1>2, RelayTaken, RelayKind
<1>3. CASE RecvAck(h)
  BY <1>0, <1>3, AnswerTaken, AnswerKind
<1>4. CASE StartHandler(h)
  BY <1>0, <1>4, HandlerStarted, StartKind
<1>5. ASSUME NEW c \in running[h], NEW size \in Sizes, EndHandler(h, c, size) PROVE PlacedNext
  <2> DEFINE p == [iit |-> "API_END", send_pid |-> h, call |-> c]
  <2>1. c \in CallRecord
    BY <1>0 DEF TypeOK
  <2>2. p \in DaemonPacket \ CallPacket /\ p.call = c
    BY <2>1, PacketParts DEF EndPacket
  <2>3. Id(c) \in Started
    BY <2>1, CallParts DEF Started
  <2>4. toDaemon' = Append(toDaemon, p) \/ toDaemon' = toDaemon
    BY <1>5 DEF EndHandler, Send
  <2>5. \A g \in Handles : running'[g] \subseteq running[g]
    BY <1>0, <1>5 DEF EndHandler, TypeOK
  <2>6. UNCHANGED <<api_ack_magic_num, api_recv_list, toClient, recv_alist, recv_acklist,
                    results, ran>>
    BY <1>5 DEF EndHandler, daemonVars
  <2> HIDE DEF p
  <2>7. QED BY <2>2, <2>3, <2>4, <2>5, <2>6, SendKind
<1>6. ASSUME NEW a \in Apis, NEW iit \in {"API_REGISTER", "API_UNREGISTER"},
             Registration(h, a, iit)
      PROVE  PlacedNext
  <2> DEFINE p == [iit |-> iit, send_pid |-> h, api_name |-> a]
  <2>1. p \in DaemonPacket \ CallPacket /\ p \notin EndPacket
    <3>1. p \in DaemonPacket /\ p.iit # "API_CALL" /\ p.iit # "API_END"
      BY DEF DaemonPacket
    <3>2. QED BY <3>1, PacketParts
  <2>2. /\ toDaemon' = Append(toDaemon, p)
        /\ running' = running
        /\ UNCHANGED <<api_ack_magic_num, api_recv_list, toClient, recv_alist, recv_acklist,
                       results, ran>>
    BY <1>6 DEF Registration, clientVars, daemonVars
  <2> HIDE DEF p
  <2>3. QED BY <2>1, <2>2, SendKind
<1>7. CASE CallExit(h)
  <2> DEFINE p == [iit |-> "EXIT", send_pid |-> h]
  <2>1. p \in DaemonPacket \ CallPacket /\ p \notin EndPacket
    <3>1. p \in DaemonPacket /\ p.iit # "API_CALL" /\ p.iit # "API_END"
      BY DEF DaemonPacket
    <3>2. QED BY <3>1, PacketParts
  <2>2. /\ toDaemon' = Append(toDaemon, p)
        /\ running' = running
        /\ UNCHANGED <<api_ack_magic_num, api_recv_list, toClient, recv_alist, recv_acklist,
                       results, ran>>
    BY <1>7 DEF CallExit, clientVars, daemonVars
  <2> HIDE DEF p
  <2>3. QED BY <2>1, <2>2, SendKind
<1>8. CASE Crash(h)
  BY <1>8, CrashKind
<1>9. CASE CallInterrupted(h)
  BY <1>9, GivenUpKind
<1>10. QED BY <1>1, <1>2, <1>3, <1>4, <1>5, <1>6, <1>7, <1>8, <1>9 DEF ClientStep

LEMMA OtherTaken ==
    ASSUME Placed, NEW iit, Receives(iit), iit # "API_CALL"
    PROVE  Called' = Called /\ CalledOnce' /\ Ends' \subseteq Ends
BY TookFromDaemon DEF Placed, EachOnce

LEMMA StepKind == ASSUME Placed, [Next]_vars PROVE PlacedNext
<1>0. TypeOK
  BY DEF Placed
<1>1. CASE DaemonStep
  <2>1. CASE DaemonCall
    BY <1>0, <2>1, CallTaken, QueueKind
  <2>2. CASE DaemonEnd
    BY <1>0, <2>2, EndTaken, EndKind
  <2>3. CASE DaemonRegister
    BY <2>3, OtherTaken, StayKind DEF DaemonRegister
  <2>4. CASE DaemonUnregister
    BY <2>4, OtherTaken, StayKind DEF DaemonUnregister
  <2>5. CASE DaemonExit
    BY <2>5, OtherTaken, StayKind DEF DaemonExit
  <2>6. QED BY <1>1, <2>1, <2>2, <2>3, <2>4, <2>5 DEF DaemonStep
<1>2. CASE ApiProbe
  BY <1>0, <1>2, Probing, ProbeKind DEF ApiProbe
<1>3. ASSUME UNCHANGED <<clientVars, netVars, recv_alist, recv_acklist, results, ran>>
      PROVE  PlacedNext
  <2>1. Called' = Called /\ CalledOnce' = CalledOnce /\ Ends' = Ends
    BY <1>3, SameSocket DEF netVars
  <2>2. CalledOnce
    BY DEF Placed, EachOnce
  <2>3. QED BY <1>3, <2>1, <2>2, StayKind DEF netVars
<1>4. ASSUME NEW h \in Handles, DaemonLive(h) \/ Suspend(h) PROVE PlacedNext
  BY <1>3, <1>4 DEF DaemonLive, Suspend
<1>5. CASE UNCHANGED vars
  BY <1>3, <1>5 DEF vars, daemonVars
<1>6. QED BY ClientKind, TickKind, <1>1, <1>2, <1>4, <1>5 DEF Next

LEMMA PlacedStep == ASSUME Placed, [Next]_vars PROVE Placed'
<1>1. TypeOK'
  BY StepTypes DEF Placed
<1>2. PlacedNext
  BY StepKind
<1>3. QED BY <1>1, <1>2, HistoryKept DEF Placed, PlacedNext

LEMMA PlacedInitially == ASSUME Init PROVE Placed
<1>1. /\ Called = {} /\ CalledOnce /\ Ends = {}
      /\ Calls(recv_alist) = {} /\ NoneTwice(recv_alist) /\ Calls(recv_acklist) = {}
      /\ \A h \in Handles :
            /\ RelaysIn(toClient[h]) = {} /\ RelaysOnce(toClient[h]) /\ AcksIn(toClient[h]) = {}
            /\ Calls(api_recv_list[h]) = {} /\ NoneTwice(api_recv_list[h])
  <2>1. /\ toDaemon = <<>> /\ recv_alist = <<>> /\ recv_acklist = <<>>
        /\ \A h \in Handles : toClient[h] = <<>> /\ api_recv_list[h] = <<>>
    BY DEF Init
  <2>2. QED BY <2>1, SaidOfNone DEF Called, CalledOnce, Ends, Calls, NoneTwice, RelaysIn,
                                    RelaysOnce, AcksIn
<1>2. /\ \A h \in Handles : results[h] = <<>> /\ running[h] = {}
      /\ \A id \in CallIds : ran[id] = 0
  BY DEF Init
<1>3. Unstarted = {} /\ OnePlace
  BY <1>1 DEF Unstarted, OnePlace, At
<1>4. Started = {} /\ Pending = {}
  BY <1>1, <1>2 DEF Started, Pending
<1>5. ToldAny = {} /\ ToldOk = {} /\ ToldNotFound = {}
  <2>1. \A h \in Handles : AcksIn(toClient[h]) = {} /\ 1..Len(results[h]) = {}
    BY <1>1, <1>2
  <2>2. \A which : Told(which, toClient, results) = {}
    BY <2>1 DEF Told
  <2>3. QED BY <2>2 DEF ToldAny, ToldOk, ToldNotFound
<1>6. QED BY TypeInitially, <1>1, <1>2, <1>3, <1>4, <1>5 DEF Placed, EachOnce, History

\* A call whose handler was not started is at one place on its way to it, and the
\* history knows of no start; where it was started, or an answer sent, it is gone.
THEOREM PlacedAlways == Spec => []Placed
<1>1. Init => Placed
  BY PlacedInitially
<1>2. Placed /\ [Next]_vars => Placed'
  BY PlacedStep
<1>3. QED BY <1>1, <1>2, PTL DEF Spec

\* Whatever a call meets on its way, its handler starts at most once.
THEOREM HandlerNeverRunsTwice == Spec => []HandlerRunsOnce
<1>1. Placed => HandlerRunsOnce
  BY DEF Placed, History, HandlerRunsOnce
<1>2. QED BY PlacedAlways, <1>1, PTL

-----------------------------------------------------------------------------
\* All steps, by what they do to the lists and sockets

\* Each packet in the daemon's socket was there, or is p.
OnlyNew(p) == \A k \in 1..Len(toDaemon') :
                 toDaemon'[k] = p \/ \E j \in 1..Len(toDaemon) : toDaemon'[k] = toDaemon[j]
NoneNew == \A k \in 1..Len(toDaemon') : \E j \in 1..Len(toDaemon) : toDaemon'[k] = toDaemon[j]

\* h makes the call c, which reaches the socket unless it is too large.
Asks(h, size, c) ==
    /\ Issues(h, size, c)
    /\ Called' = Called \cup {c} \/ (size = "large" /\ Called' = Called)
    /\ Ends' = Ends
    /\ OnlyNew([iit |-> "API_CALL", send_pid |-> h, call |-> c])

\* The handler of c returns in h, and its end record is sent or too large.
Finishes(h, c) ==
    /\ c \in running[h]
    /\ running' = [running EXCEPT ![h] = @ \ {c}]
    /\ Called' = Called
    /\ Ends' \subseteq Ends \cup {[iit |-> "API_END", send_pid |-> h, call |-> c]}
    /\ OnlyNew([iit |-> "API_END", send_pid |-> h, call |-> c])
    /\ UNCHANGED <<alive, waiting, api_ack_magic_num, api_recv_list, toClient, daemonVars,
                   results, ran>>

\* h tells the daemon of an api or of its exit.
Announces(h, p) ==
    /\ p.send_pid = h /\ p.iit \in {"API_REGISTER", "API_UNREGISTER", "EXIT"}
    /\ p.iit = "API_UNREGISTER" => MayUnregister
    /\ Called' = Called /\ Ends' = Ends
    /\ OnlyNew(p)
    /\ UNCHANGED <<clientVars, toClient, daemonVars, results, ran>>

\* h dies.
Dies(h) ==
    /\ RelaysIn(toClient'[h]) = {} /\ AcksIn(toClient'[h]) = {} /\ AcksOnce(toClient'[h])
    /\ Calls(api_recv_list'[h]) = {}
    /\ running' = [running EXCEPT ![h] = {}]
    /\ alive' = [alive EXCEPT ![h] = FALSE]
    /\ waiting' = [waiting EXCEPT ![h] = <<>>]
    /\ \A g \in Handles : g # h => /\ toClient'[g] = toClient[g]
                                   /\ api_recv_list'[g] = api_recv_list[g]
    /\ UNCHANGED <<api_ack_magic_num, toDaemon, daemonVars, results, ran>>

\* The daemon hears of an api or an exit, hears from a member or not.
Listens ==
    /\ Called' = Called /\ (CalledOnce => CalledOnce') /\ Ends' \subseteq Ends
    /\ NoneNew
    /\ \A h \in Handles :
          /\ member[h] = "absent" => member'[h] = "absent"
          /\ member'[h] = "absent" => Exited(h)
          /\ \/ api_list[h] \subseteq api_list'[h]
             \/ member'[h] = "absent"
             \/ \E k \in 1..Len(toDaemon) : toDaemon[k].iit = "API_UNREGISTER"
    /\ UNCHANGED <<clientVars, toClient, recv_alist, recv_acklist, api_public_magic_number,
                   results, ran>>

\* The timeout thread answers what has expired, and keeps the rest.
Expires ==
    /\ Calls(recv_acklist') =
          {Counted(c) : c \in {d \in Calls(recv_acklist) : ~Expired(Counted(d))}}
    /\ NoneTwice(recv_acklist) => NoneTwice(recv_acklist')
    /\ \A h \in Handles :
          /\ RelaysIn(toClient'[h]) = RelaysIn(toClient[h])
          /\ AcksIn(toClient'[h]) = AcksIn(toClient[h])
                \cup {Ack(c.ack_id, "TIMEOUT", Id(c)) : c \in Ended(h)}
          /\ /\ NoneTwice(recv_acklist)
             /\ AcksOnce(toClient[h])
             /\ \A a \in AcksIn(toClient[h]), c \in Ended(h) : a.ack_id # c.ack_id
             => AcksOnce(toClient'[h])
    /\ UNCHANGED <<clientVars, toDaemon, member, api_list, recv_alist,
                   api_public_magic_number, results, ran>>

\* The thread _ipcd_api_probe takes c.
TakesQueued(c) ==
    /\ Probes(c)
    /\ UNCHANGED <<clientVars, toDaemon, member, api_list, api_public_magic_number,
                   results, ran>>

ClientEffect(h) ==
    \/ \E c \in CallRecord, size \in Sizes : Asks(h, size, c)
    \/ \E c \in CallRecord : Arrives(h, c) \/ Begins(h, c) \/ Finishes(h, c)
    \/ \E a \in AckPacket : Answers(h, a)
    \/ \E p \in DaemonPacket : Announces(h, p)
    \/ CallInterrupted(h)
    \/ Dies(h)
DaemonEffect ==
    \/ \E c \in CallRecord : TakesCall(c) \/ TakesQueued(c)
    \/ \E h \in Handles, c \in CallRecord : Ending(h, c)
    \/ Listens
    \/ Expires

\* The packet p was appended to the socket, or was too large.
LEMMA PacketSent ==
    ASSUME TypeOK, NEW p \in DaemonPacket, NEW size \in Sizes, Send(size, p)
    PROVE  /\ OnlyNew(p)
           /\ p \in CallPacket => /\ Ends' = Ends
                                  /\ \/ Called' = Called \cup {p.call}
                                     \/ size = "large" /\ Called' = Called
           /\ p \in EndPacket => Called' = Called /\ Ends' \subseteq Ends \cup {p}
           /\ p \notin CallPacket \cup EndPacket => Called' = Called /\ Ends' = Ends
<1>1. CASE toDaemon' = Append(toDaemon, p)
  <2>1. toDaemon \in Seq(DaemonPacket)
    BY DEF TypeOK
  <2>2. OnlyNew(p)
    BY <1>1, <2>1, AppendedTo DEF OnlyNew
  <2>3. ~(p \in CallPacket /\ p \in EndPacket)
    BY PacketParts
  <2>4. QED BY <1>1, <2>2, <2>3, SentToDaemon
<1>2. CASE size = "large" /\ toDaemon' = toDaemon
  <2>1. OnlyNew(p)
    BY <1>2 DEF OnlyNew
  <2>2. Called' = Called /\ Ends' = Ends
    BY <1>2, SameSocket
  <2>3. QED BY <1>2, <2>1, <2>2
<1>3. size \in {"fits", "large"}
  BY SizesAssumption
<1>4. QED BY <1>1, <1>2, <1>3 DEF Send

LEMMA ClientEffects == ASSUME TypeOK, NEW h \in Handles, ClientStep(h) PROVE ClientEffect(h)
<1>1. ASSUME NEW g \in Handles, NEW a \in Apis, NEW t \in Timeouts, NEW size \in Sizes,
             Call(h, g, a, t, size)
      PROVE  ClientEffect(h)
  <2>1. PICK c \in CallRecord : Issues(h, size, c)
    BY <1>1, NewCall
  <2> DEFINE p == [iit |-> "API_CALL", send_pid |-> h, call |-> c]
  <2>2. p \in CallPacket /\ p \in DaemonPacket /\ p.call = c /\ Send(size, p)
    BY <2>1, PacketParts DEF Issues
  <2> HIDE DEF p
  <2>3. /\ OnlyNew(p) /\ Ends' = Ends
        /\ Called' = Called \cup {c} \/ (size = "large" /\ Called' = Called)
    BY <2>2, PacketSent
  <2>4. Asks(h, size, c)
    BY <2>1, <2>3 DEF Asks, p
  <2>5. QED BY <2>4 DEF ClientEffect
<1>2. CASE RecvRelay(h)
  BY <1>2, RelayTaken DEF ClientEffect
<1>3. CASE RecvAck(h)
  BY <1>3, AnswerTaken DEF ClientEffect
<1>4. CASE StartHandler(h)
  BY <1>4, HandlerStarted DEF ClientEffect
<1>5. ASSUME NEW c \in running[h], NEW size \in Sizes, EndHandler(h, c, size)
      PROVE  ClientEffect(h)
  <2> DEFINE p == [iit |-> "API_END", send_pid |-> h, call |-> c]
  <2>1. c \in CallRecord
    BY DEF TypeOK
  <2>2. p \in EndPacket /\ p \in DaemonPacket /\ Send(size, p)
    BY <1>5, <2>1, PacketParts DEF EndPacket, EndHandler
  <2> HIDE DEF p
  <2>3. OnlyNew(p) /\ Called' = Called /\ Ends' \subseteq Ends \cup {p}
    BY <2>2, PacketSent
  <2>4. Finishes(h, c)
    BY <1>5, <2>3 DEF Finishes, EndHandler, p
  <2>5. QED BY <2>1, <2>4 DEF ClientEffect
<1>6. ASSUME NEW p \in DaemonPacket,
             p.iit \in {"API_REGISTER", "API_UNREGISTER", "EXIT"},
             toDaemon' = Append(toDaemon, p)
      PROVE  Called' = Called /\ Ends' = Ends /\ OnlyNew(p)
  <2>1. p \notin CallPacket /\ p \notin EndPacket
    BY <1>6, PacketParts
  <2>2. toDaemon \in Seq(DaemonPacket)
    BY DEF TypeOK
  <2>3. OnlyNew(p)
    BY <1>6, <2>2, AppendedTo DEF OnlyNew
  <2>4. QED BY <1>6, <2>1, <2>3, SentToDaemon
<1>7. ASSUME NEW a \in Apis, NEW iit \in {"API_REGISTER", "API_UNREGISTER"},
             Registration(h, a, iit)
      PROVE  ClientEffect(h)
  <2> DEFINE p == [iit |-> iit, send_pid |-> h, api_name |-> a]
  <2>1. /\ p \in DaemonPacket /\ p.send_pid = h /\ p.iit = iit
        /\ p.iit \in {"API_REGISTER", "API_UNREGISTER", "EXIT"}
        /\ p.iit = "API_UNREGISTER" => MayUnregister
        /\ p.iit # "EXIT"
        /\ toDaemon' = Append(toDaemon, p)
        /\ UNCHANGED <<clientVars, toClient, daemonVars, results, ran>>
    BY <1>7 DEF DaemonPacket, Registration
  <2> HIDE DEF p
  <2>2. Announces(h, p)
    BY <1>6, <2>1 DEF Announces
  <2>3. QED BY <2>1, <2>2 DEF ClientEffect
<1>8. CASE CallExit(h)
  <2> DEFINE p == [iit |-> "EXIT", send_pid |-> h]
  <2>1. /\ p \in DaemonPacket /\ p.send_pid = h /\ p.iit = "EXIT"
        /\ toDaemon' = Append(toDaemon, p)
        /\ UNCHANGED <<clientVars, toClient, daemonVars, results, ran>>
    BY <1>8 DEF DaemonPacket, CallExit
  <2> HIDE DEF p
  <2>2. Announces(h, p)
    BY <1>6, <2>1 DEF Announces
  <2>3. QED BY <2>1, <2>2 DEF ClientEffect
<1>9. CASE Crash(h)
  <2>1. /\ toClient'[h] = <<>> /\ api_recv_list'[h] = <<>>
        /\ \A g \in Handles : g # h => /\ toClient'[g] = toClient[g]
                                       /\ api_recv_list'[g] = api_recv_list[g]
    BY <1>9 DEF Crash, TypeOK
  <2>2. /\ RelaysIn(toClient'[h]) = {} /\ AcksIn(toClient'[h]) = {} /\ AcksOnce(toClient'[h])
        /\ Calls(api_recv_list'[h]) = {}
    BY <2>1, SaidOfNone DEF RelaysIn, AcksIn, AcksOnce, Calls
  <2>3. Dies(h)
    BY <1>9, <2>1, <2>2 DEF Crash, Dies
  <2>4. QED BY <2>3 DEF ClientEffect
<1>10. CASE CallInterrupted(h)
  BY <1>10 DEF ClientEffect
<1>11. QED BY <1>1, <1>2, <1>3, <1>4, <1>5, <1>7, <1>8, <1>9, <1>10 DEF ClientStep

LEMMA OtherHeard ==
    ASSUME TypeOK, NEW iit, Receives(iit), iit # "API_CALL"
    PROVE  /\ Called' = Called /\ (CalledOnce => CalledOnce') /\ Ends' \subseteq Ends
           /\ NoneNew
           /\ Head(toDaemon) \in DaemonPacket /\ Head(toDaemon).iit = iit
           /\ Head(toDaemon) = toDaemon[1] /\ 1 \in 1..Len(toDaemon)
BY TookFromDaemon DEF NoneNew

LEMMA DaemonEffects ==
    ASSUME TypeOK, [DaemonStep \/ ApiProbe \/ Tick
                       \/ \E h \in Handles : DaemonLive(h) \/ Suspend(h)]_vars
    PROVE  DaemonEffect
<1>0. DOMAIN toDaemon = 1..Len(toDaemon)
  BY DEF TypeOK
<1>1. CASE DaemonCall
  BY <1>1, CallTaken DEF DaemonEffect
<1>2. CASE DaemonEnd
  BY <1>2, EndTaken DEF DaemonEffect
<1>3. CASE DaemonRegister
  <2>1. PICK h, a : api_list' = api_list \/ api_list' = [api_list EXCEPT ![h] = @ \cup {a}]
    BY <1>3 DEF DaemonRegister
  <2>2. \A g \in Handles : api_list[g] \subseteq api_list'[g]
    BY <2>1 DEF TypeOK
  <2>3. Listens
    BY <1>3, <2>2, OtherHeard DEF DaemonRegister, Listens, Exited
  <2>4. QED BY <2>3 DEF DaemonEffect
<1>4. CASE DaemonUnregister
  <2>1. \E k \in 1..Len(toDaemon) : toDaemon[k].iit = "API_UNREGISTER"
    BY <1>4, OtherHeard DEF DaemonUnregister
  <2>2. Listens
    BY <1>4, <2>1, OtherHeard DEF DaemonUnregister, Listens, Exited
  <2>3. QED BY <2>2 DEF DaemonEffect
<1>5. CASE DaemonExit
  <2>1. PICK h \in Handles :
           /\ h = Head(toDaemon).send_pid
           /\ member' = [member EXCEPT ![h] = "absent"]
           /\ api_list' = [api_list EXCEPT ![h] = {}]
    BY <1>5, OtherHeard, PacketParts DEF DaemonExit
  <2>2. Exited(h)
    BY <1>0, <1>5, <2>1, OtherHeard DEF DaemonExit, Exited
  <2>3. \A g \in Handles :
          /\ member[g] = "absent" => member'[g] = "absent"
          /\ member'[g] = "absent" => Exited(g)
          /\ api_list[g] \subseteq api_list'[g] \/ member'[g] = "absent"
    BY <2>1, <2>2 DEF TypeOK, Exited
  <2>4. Listens
    BY <1>5, <2>3, OtherHeard DEF DaemonExit, Listens
  <2>5. QED BY <2>4 DEF DaemonEffect
<1>6. CASE ApiProbe
  BY <1>6, Probing DEF DaemonEffect, TakesQueued, ApiProbe
<1>7. CASE Tick
  <2>1. Expires
    BY <1>7, Ticking DEF Expires, Tick
  <2>2. QED BY <2>1 DEF DaemonEffect
<1>8. ASSUME UNCHANGED <<clientVars, netVars, api_list, recv_alist, recv_acklist,
                         api_public_magic_number, results, ran>>,
             \A h \in Handles : member'[h] = "absent" <=> member[h] = "absent"
      PROVE  DaemonEffect
  <2>1. NoneNew
    BY <1>8 DEF NoneNew, netVars
  <2>2. Called' = Called /\ CalledOnce' = CalledOnce /\ Ends' = Ends
    BY <1>8, SameSocket DEF netVars
  <2>3. Listens
    BY <1>8, <2>1, <2>2 DEF Listens, netVars, Exited
  <2>4. QED BY <2>3 DEF DaemonEffect
<1>9. ASSUME NEW h \in Handles, DaemonLive(h) \/ Suspend(h) PROVE DaemonEffect
  <2>1. \A g \in Handles : member'[g] = "absent" <=> member[g] = "absent"
    BY <1>9 DEF DaemonLive, Suspend, Heard, TypeOK
  <2>2. QED BY <1>8, <1>9, <2>1 DEF DaemonLive, Suspend
<1>10. CASE UNCHANGED vars
  BY <1>8, <1>10 DEF vars, daemonVars
<1>11. QED BY <1>1, <1>2, <1>3, <1>4, <1>5, <1>6, <1>7, <1>9, <1>10 DEF DaemonStep

LEMMA Effects ==
    ASSUME TypeOK, [Next]_vars PROVE DaemonEffect \/ \E h \in Handles : ClientEffect(h)
BY ClientEffects, DaemonEffects DEF Next

-----------------------------------------------------------------------------
\* Who waits, and for what

\* A client's own packets name it. A handle that is dead waits in no call. A call
\* that waits is the last one made, and each one before it returned.
Packets ==
    \A k \in 1..Len(toDaemon) :
        /\ toDaemon[k].iit = "API_CALL" => toDaemon[k].send_pid = toDaemon[k].call.send_pid
        /\ toDaemon[k].iit = "API_UNREGISTER" => MayUnregister
LastCall(h) ==
    /\ ~alive[h] => waiting[h] = <<>>
    /\ Len(results[h]) + Len(waiting[h]) <= api_ack_magic_num[h]
    /\ alive[h] => Len(results[h]) + Len(waiting[h]) = api_ack_magic_num[h]
    /\ waiting[h] # <<>> => /\ h \in Callers
                            /\ waiting[h][1].send_pid = h
                            /\ waiting[h][1].ack_id = Len(results[h])
Waiters == Packets /\ \A h \in Handles : LastCall(h)

\* What a handle says of its exit lies in the socket until the daemon takes it.
LEMMA ExitedIff ==
    ASSUME TypeOK, NEW h
    PROVE  Exited(h) <=> \/ member[h] = "absent"
                         \/ \E k \in 1..Len(toDaemon) : /\ toDaemon[k].iit = "EXIT"
                                                        /\ toDaemon[k].send_pid = h
BY DEF TypeOK, Exited

LEMMA SameWaiting ==
    ASSUME TypeOK, TypeOK', Waiters, NEW h \in Handles,
           UNCHANGED <<alive, waiting, api_ack_magic_num, results>>
    PROVE  LastCall(h)'
BY DEF LastCall, Waiters

LEMMA SamePackets ==
    ASSUME TypeOK, TypeOK', Packets, NEW p, OnlyNew(p),
           p.iit = "API_CALL" => p.send_pid = p.call.send_pid,
           p.iit = "API_UNREGISTER" => MayUnregister
    PROVE  Packets'
BY DEF Packets, OnlyNew

LEMMA QuietSocket ==
    ASSUME TypeOK, TypeOK', Waiters, UNCHANGED toDaemon
    PROVE  Packets'
BY DEF Packets, Waiters

LEMMA TakenSocket == ASSUME TypeOK, TypeOK', Waiters, NoneNew PROVE Packets'
BY DEF Packets, NoneNew, Waiters

LEMMA OneWaits ==
    ASSUME NEW T, NEW s \in Seq(T), Len(s) <= 1
    PROVE  /\ s # <<>> => Len(s) = 1
           /\ s = <<>> => Len(s) = 0
<1>1. Len(s) \in Nat /\ (s # <<>> => 1 \in 1..Len(s)) /\ (s = <<>> => Len(s) = 0)
  BY TakenFrom
<1>2. \A n \in Nat : n <= 1 /\ 1 \in 1..n => n = 1
  OBVIOUS
<1>3. QED BY <1>1, <1>2, Zenon

LEMMA WaitersStep == ASSUME TypeOK, TypeOK', Waiters, [Next]_vars PROVE Waiters'
<1>1. ASSUME NEW h \in Handles, ClientEffect(h) PROVE Waiters'
  <2>0. \A g \in Handles : /\ Len(results[g]) \in Nat /\ Len(waiting[g]) \in Nat
                           /\ api_ack_magic_num[g] \in Nat
    <3>1. \A g \in Handles : /\ results[g] \in Seq(Result) /\ waiting[g] \in Seq(CallRecord)
                             /\ api_ack_magic_num[g] \in 0..MaxCalls
      BY DEF TypeOK
    <3>2. QED BY <3>1, BoundsAssumption
  <2>1. ASSUME NEW c \in CallRecord, NEW size \in Sizes, Asks(h, size, c) PROVE Waiters'
    <3> DEFINE p == [iit |-> "API_CALL", send_pid |-> h, call |-> c]
    <3>1. /\ OnlyNew(p) /\ p.iit = "API_CALL" /\ p.send_pid = p.call.send_pid
          /\ UNCHANGED <<alive, member, results>>
          /\ waiting[h] = <<>> /\ alive[h] /\ ~Exited(h) /\ h \in Callers
          /\ c.send_pid = h /\ c.ack_id = api_ack_magic_num[h]
          /\ waiting' = [waiting EXCEPT ![h] = <<c>>]
          /\ api_ack_magic_num' = [api_ack_magic_num EXCEPT ![h] = @ + 1]
      BY <2>1 DEF Asks, Issues, daemonVars
    <3> HIDE DEF p
    <3>2. Packets'
      BY <3>1, SamePackets DEF Waiters
    <3>3. LastCall(h)'
      <4>1. /\ waiting'[h] = <<c>> /\ Len(waiting'[h]) = 1 /\ waiting'[h][1] = c
            /\ Len(waiting[h]) = 0
            /\ api_ack_magic_num'[h] = api_ack_magic_num[h] + 1
        BY <3>1 DEF TypeOK
      <4>2. Len(results[h]) = api_ack_magic_num[h]
        <5>1. Len(results[h]) + Len(waiting[h]) = api_ack_magic_num[h]
          BY <3>1, Zenon DEF Waiters, LastCall
        <5>2. QED BY <2>0, <4>1, <5>1
      <4>3. QED BY <2>0, <3>1, <3>2, <4>1, <4>2 DEF LastCall
    <3>4. ASSUME NEW g \in Handles, g # h PROVE LastCall(g)'
      <4>1. /\ waiting'[g] = waiting[g] /\ api_ack_magic_num'[g] = api_ack_magic_num[g]
            /\ results'[g] = results[g] /\ alive'[g] = alive[g]
        BY <3>1, <3>4 DEF TypeOK
      <4>2. QED BY <3>2, <4>1 DEF LastCall, Waiters
    <3>5. QED BY <3>2, <3>3, <3>4 DEF Waiters
  <2>2. ASSUME UNCHANGED <<alive, waiting, api_ack_magic_num, results>>,
               Packets'
        PROVE  Waiters'
    BY <2>2, SameWaiting DEF Waiters
  <2>3. ASSUME NEW c \in CallRecord, Arrives(h, c) \/ Begins(h, c) PROVE Waiters'
    BY <2>2, <2>3, QuietSocket DEF Arrives, Begins, netVars, daemonVars
  <2>4. ASSUME NEW c \in CallRecord, Finishes(h, c) PROVE Waiters'
    <3> DEFINE p == [iit |-> "API_END", send_pid |-> h, call |-> c]
    <3>1. OnlyNew(p) /\ p.iit = "API_END"
      BY <2>4 DEF Finishes, daemonVars
    <3> HIDE DEF p
    <3>2. Packets'
      BY <3>1, SamePackets DEF Waiters
    <3>3. QED BY <2>2, <2>4, <3>2 DEF Finishes
  <2>5. ASSUME NEW a \in AckPacket, Answers(h, a) PROVE Waiters'
    <3>1. Packets'
      BY <2>5, QuietSocket DEF Answers, daemonVars
    <3>2. CASE results'[h] = results[h] /\ waiting' = waiting
      <4>1. \A g \in Handles : results'[g] = results[g]
        BY <2>5, <3>2, LastResult
      <4>2. QED BY <2>5, <3>1, <3>2, <4>1 DEF Answers, Waiters, LastCall
    <3>3. CASE /\ Len(results'[h]) = Len(results[h]) + 1
               /\ waiting[h] # <<>> /\ waiting' = [waiting EXCEPT ![h] = <<>>]
      <4>1. /\ waiting'[h] = <<>> /\ Len(waiting'[h]) = 0
            /\ \A g \in Handles : g # h => waiting'[g] = waiting[g] /\ results'[g] = results[g]
            /\ UNCHANGED <<alive, api_ack_magic_num>>
        BY <2>5, <3>3, LastResult DEF TypeOK, Answers
      <4>2. Len(waiting[h]) = 1
        <5>1. waiting[h] \in Seq(CallRecord) /\ Len(waiting[h]) <= 1 /\ waiting[h] # <<>>
          BY <3>3 DEF TypeOK
        <5>2. QED BY <5>1, OneWaits
      <4>3. LastCall(h)'
        <5>1. LastCall(h)
          BY DEF Waiters
        <5>2. Len(results'[h]) + Len(waiting'[h]) = Len(results[h]) + Len(waiting[h])
          <6>1. Len(results[h]) + 1 + 0 = Len(results[h]) + 1
            BY <2>0
          <6>2. QED BY <3>3, <4>1, <4>2, <6>1, Zenon
        <5>3. api_ack_magic_num'[h] = api_ack_magic_num[h] /\ alive'[h] = alive[h]
          BY <4>1
        <5>4. QED BY <4>1, <5>1, <5>2, <5>3 DEF LastCall
      <4>4. ASSUME NEW g \in Handles, g # h PROVE LastCall(g)'
        <5>1. /\ waiting'[g] = waiting[g] /\ api_ack_magic_num'[g] = api_ack_magic_num[g]
              /\ results'[g] = results[g] /\ alive'[g] = alive[g]
          BY <4>1, <4>4
        <5>2. QED BY <5>1 DEF LastCall, Waiters
      <4>5. QED BY <3>1, <4>3, <4>4 DEF Waiters
    <3>4. QED BY <2>5, <3>2, <3>3, LastResult
  <2>6. ASSUME NEW p \in DaemonPacket, Announces(h, p) PROVE Waiters'
    <3>1. Packets' /\ UNCHANGED <<alive, waiting, api_ack_magic_num, results, member>>
      BY <2>6, SamePackets DEF Announces, Waiters, clientVars, daemonVars
    <3>2. QED BY <2>2, <3>1
  <2>7. CASE Dies(h)
    <3>1. Packets'
      BY <2>7, QuietSocket DEF Dies, daemonVars
    <3>2. /\ waiting'[h] = <<>> /\ Len(waiting'[h]) = 0 /\ ~alive'[h]
          /\ \A g \in Handles : g # h => waiting'[g] = waiting[g] /\ alive'[g] = alive[g]
          /\ UNCHANGED <<api_ack_magic_num, results>>
      BY <2>7 DEF Dies, TypeOK
    <3>3. LastCall(h)'
      <4>1. Len(results[h]) + Len(waiting[h]) <= api_ack_magic_num[h]
        BY DEF LastCall, Waiters
      <4>2. Len(results'[h]) + Len(waiting'[h]) <= api_ack_magic_num'[h]
        <5>1. Len(results[h]) + 0 <= api_ack_magic_num[h]
          <6>1. \A m, n, k \in Nat : m + n <= k => m + 0 <= k
            OBVIOUS
          <6>2. QED BY <2>0, <4>1, <6>1
        <5>2. results'[h] = results[h] /\ api_ack_magic_num'[h] = api_ack_magic_num[h]
          BY <3>2
        <5>3. QED BY <3>2, <5>1, <5>2, Zenon
      <4>3. QED BY <3>2, <4>2 DEF LastCall
    <3>4. \A g \in Handles : g # h => LastCall(g)'
      BY <3>1, <3>2 DEF LastCall, Waiters
    <3>5. QED BY <3>1, <3>3, <3>4 DEF Waiters
  <2>8. CASE CallInterrupted(h)
    <3>1. Packets'
      BY <2>8, QuietSocket DEF CallInterrupted, netVars
    <3>2. /\ waiting'[h] = <<>> /\ Len(waiting'[h]) = 0
          /\ Len(results'[h]) = Len(results[h]) + 1
          /\ \A g \in Handles : g # h => waiting'[g] = waiting[g] /\ results'[g] = results[g]
          /\ UNCHANGED <<alive, api_ack_magic_num>>
      <4>1. /\ waiting'[h] = <<>>
            /\ Len(results'[h]) = Len(results[h]) + 1
            /\ \A g \in Handles : g # h => waiting'[g] = waiting[g] /\ results'[g] = results[g]
        BY <2>8, GivenUp DEF GivesUp
      <4>2. UNCHANGED <<alive, api_ack_magic_num>>
        BY <2>8 DEF CallInterrupted
      <4>3. Len(<<>>) = 0
        OBVIOUS
      <4>4. QED BY <4>1, <4>2, <4>3
    <3>3. Len(waiting[h]) = 1
      <4>1. waiting[h] \in Seq(CallRecord) /\ Len(waiting[h]) <= 1 /\ waiting[h] # <<>>
        BY <2>8 DEF TypeOK, CallInterrupted
      <4>2. QED BY <4>1, OneWaits
    <3>4. LastCall(h)'
      <4>1. LastCall(h)
        BY DEF Waiters
      <4>2. Len(results'[h]) + Len(waiting'[h]) = Len(results[h]) + Len(waiting[h])
        <5>1. Len(results[h]) + 1 + 0 = Len(results[h]) + 1
          BY <2>0
        <5>2. QED BY <3>2, <3>3, <5>1, Zenon
      <4>3. api_ack_magic_num'[h] = api_ack_magic_num[h] /\ alive'[h] = alive[h]
        BY <3>2
      <4>4. QED BY <3>2, <4>1, <4>2, <4>3 DEF LastCall
    <3>5. ASSUME NEW g \in Handles, g # h PROVE LastCall(g)'
      <4>1. /\ waiting'[g] = waiting[g] /\ api_ack_magic_num'[g] = api_ack_magic_num[g]
            /\ results'[g] = results[g] /\ alive'[g] = alive[g]
        BY <3>2, <3>5
      <4>2. QED BY <4>1 DEF LastCall, Waiters
    <3>6. QED BY <3>1, <3>4, <3>5 DEF Waiters
  <2>9. QED BY <1>1, <2>1, <2>3, <2>4, <2>5, <2>6, <2>7, <2>8 DEF ClientEffect
<1>2. ASSUME UNCHANGED <<clientVars, results>>, Packets' PROVE Waiters'
  BY <1>2, SameWaiting DEF Waiters, clientVars
<1>3. CASE DaemonEffect
  <2>1. ASSUME NEW c \in CallRecord, TakesCall(c) PROVE Waiters'
    <3>1. NoneNew
      BY <2>1 DEF TakesCall, NoneNew
    <3>2. QED BY <1>2, <2>1, <3>1, TakenSocket DEF TakesCall
  <2>2. ASSUME NEW c \in CallRecord, TakesQueued(c) PROVE Waiters'
    BY <1>2, <2>2, QuietSocket DEF TakesQueued
  <2>3. ASSUME NEW h \in Handles, NEW c \in CallRecord, Ending(h, c) PROVE Waiters'
    <3>1. NoneNew
      BY <2>3 DEF Ending, NoneNew
    <3>2. QED BY <1>2, <2>3, <3>1, TakenSocket DEF Ending
  <2>4. CASE Listens
    BY <1>2, <2>4, TakenSocket DEF Listens
  <2>5. CASE Expires
    BY <1>2, <2>5, QuietSocket DEF Expires
  <2>6. QED BY <1>3, <2>1, <2>2, <2>3, <2>4, <2>5 DEF DaemonEffect
<1>4. QED BY <1>1, <1>3, Effects

LEMMA WaitersInitially == ASSUME Init PROVE Waiters
<1>1. toDaemon = <<>> /\ \A h \in Handles : waiting[h] = <<>> /\ results[h] = <<>>
  BY DEF Init
<1>2. \A h \in Handles : /\ Len(waiting[h]) = 0 /\ Len(results[h]) = 0
                         /\ api_ack_magic_num[h] = 0
  BY <1>1 DEF Init
<1>3. Packets
  BY <1>1 DEF Packets
<1>4. ASSUME NEW h \in Handles PROVE LastCall(h)
  <2>1. /\ Len(results[h]) + Len(waiting[h]) <= api_ack_magic_num[h]
        /\ Len(results[h]) + Len(waiting[h]) = api_ack_magic_num[h]
    <3>1. 0 + 0 <= 0 /\ 0 + 0 = 0
      OBVIOUS
    <3>2. QED BY <1>2, <3>1, Zenon
  <2>2. waiting[h] = <<>>
    BY <1>1
  <2>3. QED BY <2>1, <2>2, Zenon DEF LastCall
<1>5. QED BY <1>3, <1>4 DEF Waiters

-----------------------------------------------------------------------------
\* The daemon's numbers

\* The calls that carry a number of the daemon: from recv_alist to their end records.
Carried ==
    {c \in CallRecord :
        \/ c \in Calls(recv_alist) \/ c \in Calls(recv_acklist)
        \/ \E h \in Handles : \/ c \in RelaysIn(toClient[h])
                              \/ c \in Calls(api_recv_list[h])
                              \/ c \in running[h]
        \/ \E e \in Ends : e.call = c}

\* A number belongs to one call, and the next one to none.
Numbers ==
    /\ \A c \in Carried : c.daemon_magic_number < api_public_magic_number
    /\ \A c, d \in Carried : c.daemon_magic_number = d.daemon_magic_number => Id(c) = Id(d)

\* Steps other than the one that gives a number keep what each number stands for.
SameNumber(c, d) == c.daemon_magic_number = d.daemon_magic_number /\ Id(c) = Id(d)

LEMMA NumbersKept ==
    ASSUME Numbers, UNCHANGED api_public_magic_number,
           \A c \in Carried' : \E d \in Carried : SameNumber(c, d)
    PROVE  Numbers'
BY DEF Numbers, SameNumber

LEMMA SameCarried ==
    ASSUME Numbers, UNCHANGED api_public_magic_number, Carried' \subseteq Carried
    PROVE  Numbers'
<1>1. \A c \in Carried' : \E d \in Carried : SameNumber(c, d)
  BY DEF SameNumber
<1>2. QED BY <1>1, NumbersKept

LEMMA NumbersStep == ASSUME TypeOK, TypeOK', Numbers, [Next]_vars PROVE Numbers'
<1>1. ASSUME NEW h \in Handles, ClientEffect(h) PROVE Numbers'
  <2>1. ASSUME NEW c \in CallRecord, NEW size \in Sizes, Asks(h, size, c) PROVE Numbers'
    <3>1. Carried' \subseteq Carried
      BY <2>1 DEF Asks, Issues, Carried, daemonVars
    <3>2. QED BY <2>1, <3>1, SameCarried DEF Asks, Issues, daemonVars
  <2>2. ASSUME NEW c \in CallRecord, Arrives(h, c) PROVE Numbers'
    <3>1. Ends' = Ends
      BY <2>2, SameSocket DEF Arrives
    <3>2. /\ \A g \in Handles : RelaysIn(toClient'[g]) \subseteq RelaysIn(toClient[g])
          /\ \A g \in Handles : Calls(api_recv_list'[g])
                \subseteq Calls(api_recv_list[g]) \cup RelaysIn(toClient[g])
      BY <2>2 DEF Arrives
    <3>3. Carried' \subseteq Carried
      BY <2>2, <3>1, <3>2 DEF Arrives, Carried, daemonVars
    <3>4. QED BY <2>2, <3>3, SameCarried DEF Arrives, daemonVars
  <2>3. ASSUME NEW c \in CallRecord, Begins(h, c) PROVE Numbers'
    <3>1. Ends' = Ends
      BY <2>3, SameSocket DEF Begins, netVars
    <3>2. /\ \A g \in Handles : Calls(api_recv_list'[g]) \subseteq Calls(api_recv_list[g])
          /\ \A g \in Handles : running'[g] \subseteq running[g] \cup Calls(api_recv_list[g])
      BY <2>3 DEF Begins, TypeOK
    <3>3. Carried' \subseteq Carried
      BY <2>3, <3>1, <3>2 DEF Begins, Carried, netVars, daemonVars
    <3>4. QED BY <2>3, <3>3, SameCarried DEF Begins, daemonVars
  <2>4. ASSUME NEW c \in CallRecord, Finishes(h, c) PROVE Numbers'
    <3> DEFINE p == [iit |-> "API_END", send_pid |-> h, call |-> c]
    <3>1. Ends' \subseteq Ends \cup {p} /\ p.call = c /\ c \in running[h]
      BY <2>4 DEF Finishes
    <3> HIDE DEF p
    <3>2. \A g \in Handles : running'[g] \subseteq running[g]
      BY <2>4 DEF Finishes, TypeOK
    <3>3. Carried' \subseteq Carried
      BY <2>4, <3>1, <3>2 DEF Finishes, Carried, daemonVars
    <3>4. QED BY <2>4, <3>3, SameCarried DEF Finishes, daemonVars
  <2>5. ASSUME NEW a \in AckPacket, Answers(h, a) PROVE Numbers'
    <3>1. Ends' = Ends
      BY <2>5, SameSocket DEF Answers
    <3>2. \A g \in Handles : RelaysIn(toClient'[g]) = RelaysIn(toClient[g])
      BY <2>5 DEF Answers
    <3>3. Carried' \subseteq Carried
      BY <2>5, <3>1, <3>2 DEF Answers, Carried, daemonVars
    <3>4. QED BY <2>5, <3>3, SameCarried DEF Answers, daemonVars
  <2>6. ASSUME NEW p \in DaemonPacket, Announces(h, p) PROVE Numbers'
    <3>1. Carried' \subseteq Carried
      BY <2>6 DEF Announces, Carried, clientVars, daemonVars
    <3>2. QED BY <2>6, <3>1, SameCarried DEF Announces, daemonVars
  <2>7. CASE Dies(h)
    <3>1. Ends' = Ends
      BY <2>7, SameSocket DEF Dies
    <3>2. \A g \in Handles : /\ RelaysIn(toClient'[g]) \subseteq RelaysIn(toClient[g])
                             /\ Calls(api_recv_list'[g]) \subseteq Calls(api_recv_list[g])
                             /\ running'[g] \subseteq running[g]
      BY <2>7 DEF Dies, TypeOK
    <3>3. Carried' \subseteq Carried
      BY <2>7, <3>1, <3>2 DEF Dies, Carried, daemonVars
    <3>4. QED BY <2>7, <3>3, SameCarried DEF Dies, daemonVars
  <2>8. CASE CallInterrupted(h)
    <3>1. Ends' = Ends
      BY <2>8, SameSocket DEF CallInterrupted, netVars
    <3>2. Carried' \subseteq Carried
      BY <2>8, <3>1 DEF CallInterrupted, Carried, netVars, daemonVars
    <3>3. QED BY <2>8, <3>2, SameCarried DEF CallInterrupted, daemonVars
  <2>9. QED BY <1>1, <2>1, <2>2, <2>3, <2>4, <2>5, <2>6, <2>7, <2>8 DEF ClientEffect
<1>2. CASE DaemonEffect
  <2>1. ASSUME NEW c \in CallRecord, TakesCall(c) PROVE Numbers'
    <3>1. CASE UNCHANGED <<recv_alist, api_public_magic_number>>
      <4>1. Carried' \subseteq Carried
        BY <2>1, <3>1 DEF TakesCall, Carried, clientVars
      <4>2. QED BY <3>1, <4>1, SameCarried
    <3>2. CASE /\ Calls(recv_alist') = Calls(recv_alist) \cup {Numbered(c)}
               /\ api_public_magic_number' = api_public_magic_number + 1
      <4>1. Carried' \subseteq Carried \cup {Numbered(c)}
        BY <2>1, <3>2 DEF TakesCall, Carried, clientVars
      <4>2. /\ Numbered(c).daemon_magic_number = api_public_magic_number
            /\ api_public_magic_number \in Nat
            /\ \A d \in Carried : d.daemon_magic_number \in Nat
        BY NumberedParts, CallParts DEF TypeOK, Carried
      <4>3. QED BY <3>2, <4>1, <4>2 DEF Numbers
    <3>3. QED BY <2>1, <3>1, <3>2 DEF TakesCall
  <2>2. ASSUME NEW c \in CallRecord, TakesQueued(c) PROVE Numbers'
    <3>1. Ends' = Ends
      BY <2>2, SameSocket DEF TakesQueued
    <3>2. /\ Calls(recv_alist') \cup {c} = Calls(recv_alist)
          /\ Calls(recv_acklist') \subseteq Calls(recv_acklist) \cup {c}
          /\ \A g \in Handles : RelaysIn(toClient'[g]) \subseteq RelaysIn(toClient[g]) \cup {c}
      <4>1. Calls(recv_alist') \cup {c} = Calls(recv_alist)
        BY <2>2 DEF TakesQueued, Probes
      <4>2. CASE /\ Relay(c.pname, [iit |-> "API_RELAY", call |-> c])
                 /\ recv_acklist' = Append(recv_acklist, c)
        <5>1. c.pname \in Handles /\ recv_acklist \in Seq(CallRecord)
          BY CallParts DEF TypeOK
        <5>2. Calls(recv_acklist') = Calls(recv_acklist) \cup {c}
          BY <4>2, <5>1, CallsAppend
        <5>3. \A g \in Handles : RelaysIn(toClient'[g]) \subseteq RelaysIn(toClient[g]) \cup {c}
          BY <4>2, <5>1, RelayedTo
        <5>4. QED BY <4>1, <5>2, <5>3
      <4>3. ASSUME NEW a \in AckPacket, Relay(c.send_pid, a), recv_acklist' = recv_acklist
            PROVE  <3>2
        <5>1. \A g \in Handles : RelaysIn(toClient'[g]) = RelaysIn(toClient[g])
          BY <4>3, CallParts, AnsweredTo
        <5>2. QED BY <4>1, <4>3, <5>1
      <4>4. QED BY <2>2, <4>2, <4>3 DEF TakesQueued, Probes
    <3>3. Carried' \subseteq Carried
      BY <2>2, <3>1, <3>2 DEF TakesQueued, Carried, clientVars
    <3>4. QED BY <2>2, <3>3, SameCarried DEF TakesQueued
  <2>3. ASSUME NEW h \in Handles, NEW c \in CallRecord, Ending(h, c) PROVE Numbers'
    <3>1. ASSUME NEW g \in Handles, Relay(g, Ack(c.ack_id, "OK", Id(c)))
          PROVE  \A i \in Handles : RelaysIn(toClient'[i]) = RelaysIn(toClient[i])
      <4>1. Ack(c.ack_id, "OK", Id(c)) \in AckPacket
        BY <2>3 DEF Ending
      <4>2. QED BY <3>1, <4>1, AnsweredTo
    <3>2. /\ Calls(recv_acklist') \subseteq Calls(recv_acklist)
          /\ \A i \in Handles : RelaysIn(toClient'[i]) = RelaysIn(toClient[i])
      BY <2>3, <3>1, CallParts DEF Ending
    <3>3. Carried' \subseteq Carried
      BY <2>3, <3>2 DEF Ending, Carried, clientVars
    <3>4. QED BY <2>3, <3>3, SameCarried DEF Ending
  <2>4. CASE Listens
    <3>1. Carried' \subseteq Carried
      BY <2>4 DEF Listens, Carried, clientVars
    <3>2. QED BY <2>4, <3>1, SameCarried DEF Listens
  <2>5. CASE Expires
    <3>1. Ends' = Ends
      BY <2>5, SameSocket DEF Expires
    <3>2. ASSUME NEW c \in Carried' PROVE \E d \in Carried : SameNumber(c, d)
      <4>1. CASE c \in Calls(recv_acklist')
        <5>1. PICK d \in Calls(recv_acklist) : c = Counted(d)
          BY <2>5, <4>1 DEF Expires
        <5>2. d \in CallRecord
          BY CallsInList DEF TypeOK
        <5>3. QED BY <5>1, <5>2, CountedParts DEF Carried, SameNumber
      <4>2. CASE c \notin Calls(recv_acklist')
        <5>1. c \in Carried
          BY <2>5, <3>1, <3>2, <4>2 DEF Expires, Carried, clientVars
        <5>2. QED BY <5>1 DEF SameNumber
      <4>3. QED BY <4>1, <4>2
    <3>3. QED BY <2>5, <3>2, NumbersKept DEF Expires
  <2>6. QED BY <1>2, <2>1, <2>2, <2>3, <2>4, <2>5 DEF DaemonEffect
<1>3. QED BY <1>1, <1>2, Effects

LEMMA NumbersInitially == ASSUME Init PROVE Numbers
<1>1. /\ Ends = {} /\ Calls(recv_alist) = {} /\ Calls(recv_acklist) = {}
      /\ \A h \in Handles : /\ RelaysIn(toClient[h]) = {} /\ Calls(api_recv_list[h]) = {}
                            /\ running[h] = {}
  <2>1. /\ toDaemon = <<>> /\ recv_alist = <<>> /\ recv_acklist = <<>>
        /\ \A h \in Handles : toClient[h] = <<>> /\ api_recv_list[h] = <<>> /\ running[h] = {}
    BY DEF Init
  <2>2. QED BY <2>1, SaidOfNone DEF Ends, Calls, RelaysIn
<1>2. Carried = {}
  BY <1>1 DEF Carried
<1>3. QED BY <1>2 DEF Numbers

-----------------------------------------------------------------------------
\* Where an answer can still come from

\* By their ids: the calls in the daemon's socket and in recv_alist, those that an
\* answer on its way would wake; and those that wait.
CalledIds == {id \in CallIds : \E c \in Called : Id(c) = id}
QueuedIds == {id \in CallIds : \E c \in Calls(recv_alist) : Id(c) = id}
SentIds == {id \in CallIds : \E a \in AcksIn(toClient[id[1]]) : a.ack_id = id[2]}
Awaited == {id \in CallIds : Waits(id)}

\* Every call that waits is at one of these places, or in recv_acklist, unless its
\* own handle leaves.
ToCome == CalledIds \cup QueuedIds \cup Pending \cup SentIds
Owed == {id \in Awaited : ~Exited(id[1])}
NoneForgotten == Owed \subseteq ToCome

\* The socket keeps all but its first packet.
LEMMA StillSaid ==
    ASSUME TypeOK, TypeOK', NEW g, Exited(g),
           \/ toDaemon' = toDaemon
           \/ \E p \in DaemonPacket : toDaemon' = Append(toDaemon, p)
           \/ \E iit : Receives(iit) /\ iit # "EXIT",
           member[g] = "absent" => member'[g] = "absent"
    PROVE  Exited(g)'
<1>1. CASE member[g] = "absent"
  BY <1>1 DEF Exited
<1>2. ASSUME NEW k \in 1..Len(toDaemon), toDaemon[k].iit = "EXIT", toDaemon[k].send_pid = g
      PROVE  \E j \in 1..Len(toDaemon') : toDaemon'[j].iit = "EXIT" /\ toDaemon'[j].send_pid = g
  <2>1. toDaemon \in Seq(DaemonPacket)
    BY DEF TypeOK
  <2>2. CASE toDaemon' = toDaemon
    BY <1>2, <2>2
  <2>3. ASSUME NEW p \in DaemonPacket, toDaemon' = Append(toDaemon, p)
        PROVE  \E j \in 1..Len(toDaemon') : toDaemon'[j].iit = "EXIT" /\ toDaemon'[j].send_pid = g
    <3>1. k \in 1..Len(toDaemon') /\ toDaemon'[k] = toDaemon[k]
      BY <1>2, <2>1, <2>3
    <3>2. QED BY <1>2, <3>1
  <2>4. ASSUME NEW iit, Receives(iit), iit # "EXIT"
        PROVE  \E j \in 1..Len(toDaemon') : toDaemon'[j].iit = "EXIT" /\ toDaemon'[j].send_pid = g
    <3>1. toDaemon # <<>> /\ Head(toDaemon).iit = iit /\ toDaemon' = Tail(toDaemon)
      BY <2>4 DEF Receives
    <3>2. Head(toDaemon) = toDaemon[1]
      BY <2>1, <3>1
    <3>3. k # 1
      BY <1>2, <2>4, <3>1, <3>2
    <3>4. k - 1 \in 1..Len(toDaemon') /\ toDaemon'[k - 1] = toDaemon[k]
      BY <1>2, <2>1, <3>1, <3>3
    <3>5. QED BY <1>2, <3>4
  <2>5. QED BY <2>2, <2>3, <2>4
<1>3. DOMAIN toDaemon' = 1..Len(toDaemon')
  BY DEF TypeOK
<1>4. QED BY <1>1, <1>2, <1>3, ExitedIff DEF Exited

\* Who has left does not come back.
LEMMA ExitedStays ==
    ASSUME TypeOK, TypeOK', [Next]_vars, NEW g \in Handles, Exited(g) PROVE Exited(g)'
<1>1. ASSUME NEW h \in Handles, ClientStep(h) PROVE Exited(g)'
  <2>1. ASSUME NEW e \in Handles, NEW a \in Apis, NEW t \in Timeouts, NEW size \in Sizes,
               Call(h, e, a, t, size)
        PROVE  Exited(g)'
    <3>1. PICK c \in CallRecord : Issues(h, size, c)
      BY <2>1, NewCall
    <3> DEFINE p == [iit |-> "API_CALL", send_pid |-> h, call |-> c]
    <3>2. p \in DaemonPacket /\ Send(size, p) /\ UNCHANGED member
      BY <3>1, PacketParts DEF Issues, daemonVars
    <3> HIDE DEF p
    <3>3. toDaemon' = toDaemon \/ toDaemon' = Append(toDaemon, p)
      BY <3>2 DEF Send
    <3>4. QED BY <3>2, <3>3, StillSaid
  <2>2. CASE RecvRelay(h) \/ RecvAck(h) \/ CallInterrupted(h) \/ StartHandler(h) \/ Crash(h)
    <3>1. UNCHANGED <<toDaemon, member>>
      BY <2>2 DEF RecvRelay, RecvAck, CallInterrupted, StartHandler, Crash, netVars, daemonVars
    <3>2. QED BY <3>1, StillSaid
  <2>3. ASSUME NEW c \in running[h], NEW size \in Sizes, EndHandler(h, c, size)
        PROVE  Exited(g)'
    <3> DEFINE p == [iit |-> "API_END", send_pid |-> h, call |-> c]
    <3>1. c \in CallRecord
      BY DEF TypeOK
    <3>2. p \in DaemonPacket /\ Send(size, p) /\ UNCHANGED member
      BY <2>3, <3>1, PacketParts DEF EndPacket, EndHandler, daemonVars
    <3> HIDE DEF p
    <3>3. toDaemon' = toDaemon \/ toDaemon' = Append(toDaemon, p)
      BY <3>2 DEF Send
    <3>4. QED BY <3>2, <3>3, StillSaid
  <2>4. ASSUME NEW a \in Apis, NEW iit \in {"API_REGISTER", "API_UNREGISTER"},
               Registration(h, a, iit)
        PROVE  Exited(g)'
    <3>1. [iit |-> iit, send_pid |-> h, api_name |-> a] \in DaemonPacket
      BY DEF DaemonPacket
    <3>2. QED BY <2>4, <3>1, StillSaid DEF Registration, daemonVars
  <2>5. CASE CallExit(h)
    <3>1. [iit |-> "EXIT", send_pid |-> h] \in DaemonPacket
      BY DEF DaemonPacket
    <3>2. QED BY <2>5, <3>1, StillSaid DEF CallExit, daemonVars
  <2>6. QED BY <1>1, <2>1, <2>2, <2>3, <2>4, <2>5 DEF ClientStep
<1>2. CASE DaemonCall
  <2>1. Receives("API_CALL") /\ (member[g] = "absent" => member'[g] = "absent")
    BY <1>2 DEF DaemonCall, Heard, TypeOK
  <2>2. QED BY <2>1, StillSaid
<1>3. CASE DaemonEnd
  <2>1. Receives("API_END") /\ UNCHANGED member
    BY <1>3 DEF DaemonEnd
  <2>2. QED BY <2>1, StillSaid
<1>4. CASE DaemonRegister
  <2>1. Receives("API_REGISTER") /\ UNCHANGED member
    BY <1>4 DEF DaemonRegister
  <2>2. QED BY <2>1, StillSaid
<1>5. CASE DaemonUnregister
  <2>1. Receives("API_UNREGISTER") /\ UNCHANGED member
    BY <1>5 DEF DaemonUnregister
  <2>2. QED BY <2>1, StillSaid
<1>6. CASE DaemonExit
  <2> DEFINE h == Head(toDaemon).send_pid
  <2>1. /\ toDaemon # <<>> /\ toDaemon' = Tail(toDaemon)
        /\ member' = [member EXCEPT ![h] = "absent"]
    BY <1>6 DEF DaemonExit, Receives
  <2>2. Head(toDaemon) = toDaemon[1] /\ toDaemon \in Seq(DaemonPacket)
    BY <2>1 DEF TypeOK
  <2> HIDE DEF h
  <2>3. CASE member[g] = "absent" \/ g = h
    <3>1. member'[g] = "absent"
      BY <2>1, <2>3 DEF TypeOK
    <3>2. QED BY <3>1 DEF Exited
  <2>4. ASSUME NEW k \in 1..Len(toDaemon), toDaemon[k].iit = "EXIT",
               toDaemon[k].send_pid = g, g # h
        PROVE  Exited(g)'
    <3>1. k # 1
      BY <2>2, <2>4 DEF h
    <3>2. k - 1 \in 1..Len(toDaemon') /\ toDaemon'[k - 1] = toDaemon[k]
      BY <2>1, <2>2, <2>4, <3>1
    <3>3. DOMAIN toDaemon' = 1..Len(toDaemon')
      BY DEF TypeOK
    <3>4. QED BY <2>4, <3>2, <3>3 DEF Exited
  <2>5. QED BY <2>3, <2>4, ExitedIff
<1>7. CASE ApiProbe \/ Tick
  <2>1. UNCHANGED <<toDaemon, member>>
    BY <1>7 DEF ApiProbe, Tick
  <2>2. QED BY <2>1, StillSaid
<1>8. ASSUME NEW h \in Handles, DaemonLive(h) \/ Suspend(h) PROVE Exited(g)'
  <2>1. toDaemon' = toDaemon /\ (member[g] = "absent" => member'[g] = "absent")
    BY <1>8 DEF DaemonLive, Suspend, Heard, TypeOK, netVars
  <2>2. QED BY <2>1, StillSaid
<1>9. CASE UNCHANGED vars
  <2>1. UNCHANGED <<toDaemon, member>>
    BY <1>9 DEF vars, netVars, daemonVars
  <2>2. QED BY <2>1, StillSaid
<1>10. QED BY <1>1, <1>2, <1>3, <1>4, <1>5, <1>6, <1>7, <1>8, <1>9 DEF Next, DaemonStep

\* A step owes an answer to no call that was not owed one and does not begin to wait.
LEMMA OwedBefore ==
    ASSUME TypeOK, TypeOK', [Next]_vars, NEW id \in Owed', id \in Awaited PROVE id \in Owed
<1>1. id[1] \in Handles /\ ~Exited(id[1])'
  BY IdParts DEF Owed, Awaited
<1>2. ~Exited(id[1])
  BY <1>1, ExitedStays
<1>3. QED BY <1>2 DEF Owed

LEMMA SameOwed ==
    ASSUME TypeOK, TypeOK', [Next]_vars, UNCHANGED waiting PROVE Owed' \subseteq Owed
<1>1. \A id \in Owed' : id \in Awaited
  BY DEF Owed, Awaited, Waits
<1>2. QED BY <1>1, OwedBefore

LEMMA SameAwaited == ASSUME UNCHANGED waiting PROVE Awaited' = Awaited
BY DEF Awaited, Waits

LEMMA SameSent ==
    ASSUME \A h \in Handles : AcksIn(toClient'[h]) = AcksIn(toClient[h])
    PROVE  SentIds' = SentIds
BY IdParts DEF SentIds

LEMMA SameQueued == ASSUME UNCHANGED recv_alist PROVE QueuedIds' = QueuedIds
BY DEF QueuedIds

LEMMA SameCalled == ASSUME Called' = Called PROVE CalledIds' = CalledIds
BY DEF CalledIds

\* No call waits in a handle that the daemon cannot reach, unless that leaves.
LEMMA Unreached ==
    ASSUME TypeOK, Waiters, NEW h \in Handles, ~Reachable(h), NEW id \in Owed
    PROVE  id[1] # h
<1>1. Exited(h) \/ ~alive[h]
  BY ExitedIff DEF Reachable
<1>2. CASE Exited(h)
  BY <1>2 DEF Owed
<1>3. CASE ~alive[h]
  <2>1. waiting[h] = <<>>
    BY <1>3 DEF Waiters, LastCall
  <2>2. QED BY <2>1 DEF Owed, Awaited, Waits
<1>4. QED BY <1>1, <1>2, <1>3

\* An answer to the call c reaches its caller, or that does not wait, or leaves.
LEMMA AnsweredOrGone ==
    ASSUME TypeOK, Waiters, NEW c \in CallRecord, NEW a \in AckPacket,
           a.ack_id = c.ack_id, Relay(c.send_pid, a)
    PROVE  /\ SentIds \subseteq SentIds' /\ SentIds' \subseteq SentIds \cup {Id(c)}
           /\ Id(c) \in Owed => Id(c) \in SentIds'
<1> DEFINE h == c.send_pid
<1>1. h \in Handles /\ Id(c) \in CallIds /\ Id(c)[1] = h /\ Id(c)[2] = c.ack_id
  BY CallParts
<1>2. /\ \A g \in Handles : g # h => toClient'[g] = toClient[g]
      /\ Reachable(h) => AcksIn(toClient'[h]) = AcksIn(toClient[h]) \cup {a}
      /\ ~Reachable(h) => AcksIn(toClient'[h]) = AcksIn(toClient[h])
  BY <1>1, AnsweredTo
<1> HIDE DEF h
<1>3. ASSUME NEW id \in SentIds PROVE id \in SentIds'
  <2>1. PICK b \in AcksIn(toClient[id[1]]) : b.ack_id = id[2]
    BY DEF SentIds
  <2>2. id \in CallIds /\ id[1] \in Handles
    BY IdParts DEF SentIds
  <2>3. b \in AcksIn(toClient'[id[1]])
    BY <1>2, <2>2
  <2>4. QED BY <2>1, <2>2, <2>3 DEF SentIds
<1>4. ASSUME NEW id \in SentIds' PROVE id \in SentIds \cup {Id(c)}
  <2>1. PICK b \in AcksIn(toClient'[id[1]]) : b.ack_id = id[2]
    BY DEF SentIds
  <2>2. id \in CallIds /\ id[1] \in Handles /\ id = <<id[1], id[2]>>
    BY <1>4, IdParts DEF SentIds
  <2>3. b \in AcksIn(toClient[id[1]]) \/ (b = a /\ id[1] = h)
    BY <1>2, <2>1, <2>2
  <2>4. CASE b \in AcksIn(toClient[id[1]])
    BY <2>1, <2>2, <2>4 DEF SentIds
  <2>5. CASE b = a /\ id[1] = h
    BY <2>1, <2>2, <2>5 DEF Id, h
  <2>6. QED BY <2>3, <2>4, <2>5
<1>5. ASSUME Id(c) \in Owed PROVE Id(c) \in SentIds'
  <2>1. Reachable(h)
    BY <1>1, <1>5, Unreached
  <2>2. a \in AcksIn(toClient'[Id(c)[1]])
    BY <1>1, <1>2, <2>1
  <2>3. QED BY <1>1, <2>2 DEF SentIds
<1>6. QED BY <1>3, <1>4, <1>5

\* The end record of c completes the entry of that very call.
LEMMA SameCall ==
    ASSUME Numbers, NEW h, NEW c \in CallRecord, NEW d \in CallRecord,
           [iit |-> "API_END", send_pid |-> h, call |-> c] \in Ends,
           d \in Calls(recv_acklist), d.daemon_magic_number = c.daemon_magic_number
    PROVE  Id(d) = Id(c) /\ d.ack_id = c.ack_id /\ d.send_pid = c.send_pid
<1>1. c \in Carried
  BY DEF Carried
<1>2. d \in Carried
  BY DEF Carried
<1>3. Id(d) = Id(c)
  BY <1>1, <1>2 DEF Numbers
<1>4. QED BY <1>3, CallParts DEF Id

LEMMA ForgetsNone ==
    ASSUME TypeOK, TypeOK', Waiters, Numbers, NoneForgotten, "large" \notin Sizes,
           [Next]_vars
    PROVE  NoneForgotten'
<1>1. ASSUME NEW h \in Handles, ClientEffect(h) PROVE NoneForgotten'
  <2>1. ASSUME NEW c \in CallRecord, NEW size \in Sizes, Asks(h, size, c)
        PROVE  NoneForgotten'
    <3>1. /\ Called' = Called \cup {c}
          /\ c.send_pid = h
          /\ waiting' = [waiting EXCEPT ![h] = <<c>>]
          /\ UNCHANGED <<toClient, recv_alist, recv_acklist>>
      BY <2>1 DEF Asks, Issues, daemonVars
    <3>2. /\ waiting'[h][1] = c
          /\ \A g \in Handles : g # h => waiting'[g] = waiting[g]
      BY <3>1 DEF TypeOK
    <3>3. Id(c) \in CalledIds' /\ CalledIds \subseteq CalledIds'
      BY <3>1, CallParts DEF CalledIds
    <3>4. QueuedIds' = QueuedIds /\ Pending' = Pending /\ SentIds' = SentIds
      BY <3>1, SameQueued, SamePending, SameSent
    <3>5. Owed' \subseteq Owed \cup {Id(c)}
      <4>1. ASSUME NEW id \in Owed' PROVE id \in Awaited \cup {Id(c)}
        <5>1. id \in CallIds /\ id[1] \in Handles /\ id = <<id[1], id[2]>>
          BY <4>1, IdParts DEF Owed, Awaited
        <5>2. waiting'[id[1]] # <<>> /\ waiting'[id[1]][1].ack_id = id[2]
          BY DEF Owed, Awaited, Waits
        <5>3. CASE id[1] = h
          BY <3>1, <3>2, <5>1, <5>2, <5>3 DEF Id
        <5>4. CASE id[1] # h
          BY <3>2, <5>1, <5>2, <5>4 DEF Awaited, Waits
        <5>5. QED BY <5>3, <5>4
      <4>2. QED BY <4>1, OwedBefore
    <3>6. QED BY <3>3, <3>4, <3>5 DEF NoneForgotten, ToCome
  <2>2. ASSUME UNCHANGED <<waiting, recv_alist, recv_acklist>>, Called' = Called,
               \A g \in Handles : AcksIn(toClient'[g]) = AcksIn(toClient[g])
        PROVE  NoneForgotten'
    BY <2>2, SameOwed, SameQueued, SamePending, SameSent, SameCalled
       DEF NoneForgotten, ToCome
  <2>3. ASSUME NEW c \in CallRecord, Arrives(h, c) \/ Begins(h, c) PROVE NoneForgotten'
    <3>1. Called' = Called
      BY <2>3, SameSocket DEF Arrives, Begins, netVars
    <3>2. \A g \in Handles : AcksIn(toClient'[g]) = AcksIn(toClient[g])
      BY <2>3 DEF Arrives, Begins, netVars
    <3>3. QED BY <2>2, <2>3, <3>1, <3>2 DEF Arrives, Begins, daemonVars
  <2>4. ASSUME NEW c \in CallRecord, Finishes(h, c) PROVE NoneForgotten'
    BY <2>2, <2>4 DEF Finishes, daemonVars
  <2>5. ASSUME NEW p \in DaemonPacket, Announces(h, p) PROVE NoneForgotten'
    BY <2>2, <2>5 DEF Announces, clientVars, daemonVars
  <2>6. ASSUME UNCHANGED <<recv_alist, recv_acklist>>, Called' = Called,
               \A g \in Handles : g # h => /\ toClient'[g] = toClient[g]
                                           /\ waiting'[g] = waiting[g]
        PROVE  \A id \in Owed' : id[1] # h => id \in ToCome'
    <3>1. CalledIds' = CalledIds /\ QueuedIds' = QueuedIds /\ Pending' = Pending
      BY <2>6, SameQueued, SamePending, SameCalled
    <3>2. ASSUME NEW id \in Owed', id[1] # h PROVE id \in ToCome'
      <4>1. id \in CallIds /\ id[1] \in Handles
        BY IdParts DEF Owed, Awaited
      <4>2. waiting'[id[1]] = waiting[id[1]] /\ toClient'[id[1]] = toClient[id[1]]
        BY <2>6, <3>2, <4>1
      <4>3. id \in Awaited
        BY <4>1, <4>2 DEF Owed, Awaited, Waits
      <4>4. id \in ToCome
        BY <4>3, OwedBefore DEF NoneForgotten
      <4>5. id \in SentIds => id \in SentIds'
        BY <4>2 DEF SentIds
      <4>6. QED BY <3>1, <4>4, <4>5 DEF ToCome
    <3>3. QED BY <3>2
  <2>7. ASSUME NEW a \in AckPacket, Answers(h, a) PROVE NoneForgotten'
    <3>1. /\ Called' = Called
          /\ UNCHANGED <<recv_alist, recv_acklist>>
          /\ \A g \in Handles : g # h => /\ toClient'[g] = toClient[g]
                                         /\ waiting'[g] = waiting[g]
      BY <2>7, SameSocket DEF Answers, daemonVars, TypeOK
    <3>2. ASSUME NEW id \in Owed', id[1] = h PROVE id \in ToCome'
      <4>1. id \in CallIds
        BY DEF Owed, Awaited
      <4>2. waiting'[h] # <<>> /\ waiting'[h][1].ack_id = id[2]
        BY <3>2 DEF Owed, Awaited, Waits
      <4>3. waiting' # [waiting EXCEPT ![h] = <<>>]
        BY <4>2 DEF TypeOK
      <4>4. waiting' = waiting /\ waiting[h][1].ack_id # a.ack_id
        BY <2>7, <4>2, <4>3 DEF Answers
      <4>5. id \in ToCome
        BY <4>4, SameOwed, <3>2 DEF NoneForgotten
      <4>6. AcksIn(toClient[h]) = AcksIn(toClient'[h]) \cup {a}
        BY <2>7 DEF Answers
      <4>7. id \in SentIds => id \in SentIds'
        BY <3>2, <4>2, <4>4, <4>6 DEF SentIds
      <4>8. CalledIds' = CalledIds /\ QueuedIds' = QueuedIds /\ Pending' = Pending
        BY <3>1, SameQueued, SamePending, SameCalled
      <4>9. QED BY <4>5, <4>7, <4>8 DEF ToCome
    <3>3. QED BY <2>6, <3>1, <3>2 DEF NoneForgotten
  <2>8. CASE Dies(h)
    <3>1. /\ Called' = Called
          /\ UNCHANGED <<recv_alist, recv_acklist>>
          /\ waiting'[h] = <<>>
          /\ \A g \in Handles : g # h => /\ toClient'[g] = toClient[g]
                                         /\ waiting'[g] = waiting[g]
      BY <2>8, SameSocket DEF Dies, daemonVars, TypeOK
    <3>2. \A id \in Owed' : id[1] # h
      BY <3>1 DEF Owed, Awaited, Waits
    <3>3. QED BY <2>6, <3>1, <3>2 DEF NoneForgotten
  <2>9. CASE CallInterrupted(h)
    <3>1. /\ waiting'[h] = <<>>
          /\ \A g \in Handles : g # h => waiting'[g] = waiting[g]
      BY <2>9, GivenUp DEF GivesUp
    <3>2. /\ Called' = Called
          /\ UNCHANGED <<recv_alist, recv_acklist, toClient>>
      BY <2>9, SameSocket DEF CallInterrupted, netVars, daemonVars
    <3>3. \A id \in Owed' : id[1] # h
      BY <3>1 DEF Owed, Awaited, Waits
    <3>4. QED BY <2>6, <3>1, <3>2, <3>3 DEF NoneForgotten
  <2>10. QED BY <1>1, <2>1, <2>3, <2>4, <2>5, <2>7, <2>8, <2>9 DEF ClientEffect
<1>2. CASE DaemonEffect
  <2>0. Owed' \subseteq Owed
    BY <1>2, SameOwed DEF DaemonEffect, TakesCall, TakesQueued, Ending, Listens, Expires,
                             clientVars
  <2>1. ASSUME NEW c \in CallRecord, TakesCall(c) PROVE NoneForgotten'
    <3>1. SentIds' = SentIds /\ Pending' = Pending
      BY <2>1, SameSent, SamePending DEF TakesCall
    <3>2. CalledIds \subseteq CalledIds' \cup {Id(c)}
      BY <2>1 DEF TakesCall, CalledIds
    <3>3. CASE Calls(recv_alist') = Calls(recv_alist) \cup {Numbered(c)}
      <4>1. QueuedIds' = QueuedIds \cup {Id(c)}
        BY <3>3, NumberedParts, CallParts DEF QueuedIds
      <4>2. QED BY <2>0, <3>1, <3>2, <4>1 DEF NoneForgotten, ToCome
    <3>4. CASE member[Head(toDaemon).send_pid] = "absent" /\ UNCHANGED recv_alist
      <4>1. c.send_pid = Head(toDaemon).send_pid
        <5>1. /\ [iit |-> "API_CALL", send_pid |-> Head(toDaemon).send_pid, call |-> c]
                     = toDaemon[1]
              /\ 1 \in 1..Len(toDaemon)
          <6>1. toDaemon # <<>> => 1 \in 1..Len(toDaemon)
            BY TakenFrom DEF TypeOK
          <6>2. toDaemon # <<>>
            <7>1. Called # {}
              BY <2>1 DEF TakesCall
            <7>2. QED BY <7>1, SaidOfNone DEF Called
          <6>3. QED BY <2>1, <6>1, <6>2 DEF TakesCall
        <5>2. QED BY <5>1 DEF Waiters, Packets
      <4>2. c.send_pid \in Handles /\ Id(c)[1] = c.send_pid
        BY CallParts
      <4>3. Id(c) \notin Owed
        BY <3>4, <4>1, <4>2, Unreached DEF Reachable
      <4>4. QueuedIds' = QueuedIds
        BY <3>4, SameQueued
      <4>5. QED BY <2>0, <3>1, <3>2, <4>3, <4>4 DEF NoneForgotten, ToCome
    <3>5. QED BY <2>1, <3>3, <3>4 DEF TakesCall
  <2>2. ASSUME NEW c \in CallRecord, TakesQueued(c) PROVE NoneForgotten'
    <3>1. CalledIds' = CalledIds
      BY <2>2, SameSocket, SameCalled DEF TakesQueued
    <3>2. QueuedIds \subseteq QueuedIds' \cup {Id(c)}
      BY <2>2 DEF TakesQueued, Probes, QueuedIds
    <3>3. CASE /\ Relay(c.pname, [iit |-> "API_RELAY", call |-> c])
               /\ recv_acklist' = Append(recv_acklist, c)
      <4>1. c.pname \in Handles /\ recv_acklist \in Seq(CallRecord) /\ Id(c) \in CallIds
        BY CallParts DEF TypeOK
      <4>2. Calls(recv_acklist') = Calls(recv_acklist) \cup {c}
        BY <3>3, <4>1, CallsAppend
      <4>3. Pending' = Pending \cup {Id(c)}
        BY <4>1, <4>2 DEF Pending
      <4>4. SentIds' = SentIds
        BY <3>3, <4>1, RelayedTo, SameSent
      <4>5. QED BY <2>0, <3>1, <3>2, <4>3, <4>4 DEF NoneForgotten, ToCome
    <3>4. ASSUME NEW r, Ack(c.ack_id, r, Id(c)) \in AckPacket,
                 Relay(c.send_pid, Ack(c.ack_id, r, Id(c))), recv_acklist' = recv_acklist
          PROVE  NoneForgotten'
      <4>1. /\ SentIds \subseteq SentIds'
            /\ Id(c) \in Owed => Id(c) \in SentIds'
        <5>1. Ack(c.ack_id, r, Id(c)).ack_id = c.ack_id
          BY DEF Ack
        <5>2. QED BY <3>4, <5>1, AnsweredOrGone
      <4>2. Pending' = Pending
        BY <3>4, SamePending
      <4>3. QED BY <2>0, <3>1, <3>2, <4>1, <4>2 DEF NoneForgotten, ToCome
    <3>5. QED BY <2>2, <3>3, <3>4 DEF TakesQueued, Probes
  <2>3. ASSUME NEW h \in Handles, NEW c \in CallRecord, Ending(h, c) PROVE NoneForgotten'
    <3> DEFINE a == Ack(c.ack_id, "OK", Id(c))
    <3>1. CalledIds' = CalledIds /\ QueuedIds' = QueuedIds
      BY <2>3, SameCalled, SameQueued DEF Ending
    <3>2. a \in AckPacket /\ a.ack_id = c.ack_id /\ UNCHANGED waiting
      BY <2>3 DEF Ending, Ack, clientVars
    <3>3. \/ UNCHANGED <<toClient, recv_acklist>>
          \/ \E d \in CallRecord :
                /\ d.daemon_magic_number = c.daemon_magic_number
                /\ Calls(recv_acklist) = Calls(recv_acklist') \cup {d}
                /\ Relay(d.send_pid, a)
          \/ Relay(h, a) /\ UNCHANGED recv_acklist
      BY <2>3 DEF Ending
    <3> HIDE DEF a
    <3>4. CASE UNCHANGED <<toClient, recv_acklist>>
      BY <2>0, <3>1, <3>4, SameSent, SamePending DEF NoneForgotten, ToCome
    <3>5. ASSUME NEW d \in CallRecord, d.daemon_magic_number = c.daemon_magic_number,
                 Calls(recv_acklist) = Calls(recv_acklist') \cup {d}, Relay(d.send_pid, a)
          PROVE  NoneForgotten'
      <4>1. d.ack_id = c.ack_id
        BY <2>3, <3>5, SameCall DEF Ending
      <4>2. SentIds \subseteq SentIds' /\ (Id(d) \in Owed => Id(d) \in SentIds')
        BY <3>2, <3>5, <4>1, AnsweredOrGone
      <4>3. Pending \subseteq Pending' \cup {Id(d)}
        BY <3>5 DEF Pending
      <4>4. QED BY <2>0, <3>1, <4>2, <4>3 DEF NoneForgotten, ToCome
    <3>6. CASE Relay(h, a) /\ UNCHANGED recv_acklist
      <4>1. \A g \in Handles : AcksIn(toClient[g]) \subseteq AcksIn(toClient'[g])
        BY <3>2, <3>6, AnsweredTo
      <4>2. SentIds \subseteq SentIds'
        BY <4>1, IdParts DEF SentIds
      <4>3. QED BY <2>0, <3>1, <3>6, <4>2, SamePending DEF NoneForgotten, ToCome
    <3>7. QED BY <3>3, <3>4, <3>5, <3>6
  <2>4. CASE Listens
    BY <2>0, <2>4, SameCalled, SameQueued, SamePending, SameSent
       DEF NoneForgotten, ToCome, Listens
  <2>5. CASE Expires
    <3>1. CalledIds' = CalledIds /\ QueuedIds' = QueuedIds
      BY <2>5, SameSocket, SameCalled, SameQueued DEF Expires
    <3>2. SentIds \subseteq SentIds'
      BY <2>5, IdParts DEF Expires, SentIds
    <3>3. ASSUME NEW id \in Owed', id \in Pending PROVE id \in Pending' \cup SentIds'
      <4>1. PICK c \in Calls(recv_acklist) : Id(c) = id
        BY <3>3 DEF Pending
      <4>2. c \in CallRecord /\ id \in CallIds /\ id[1] = c.send_pid /\ id[2] = c.ack_id
        BY <4>1, CallsInList, CallParts DEF TypeOK
      <4>3. CASE Expired(Counted(c))
        <5>1. Reachable(c.send_pid) /\ c.send_pid \in Handles
          BY <2>0, <3>3, <4>2, CallParts, Unreached
        <5>2. c \in Ended(c.send_pid)
          BY <4>1, <4>3, <5>1 DEF Ended
        <5>3. Ack(c.ack_id, "TIMEOUT", Id(c)) \in AcksIn(toClient'[c.send_pid])
          BY <2>5, <5>1, <5>2 DEF Expires
        <5>4. Ack(c.ack_id, "TIMEOUT", Id(c)).ack_id = id[2]
          BY <4>2 DEF Ack
        <5>5. QED BY <4>2, <5>3, <5>4 DEF SentIds
      <4>4. CASE ~Expired(Counted(c))
        <5>1. Counted(c) \in Calls(recv_acklist')
          BY <2>5, <4>1, <4>4 DEF Expires
        <5>2. QED BY <4>1, <4>2, <5>1, CountedParts DEF Pending
      <4>5. QED BY <4>3, <4>4
    <3>4. QED BY <2>0, <3>1, <3>2, <3>3 DEF NoneForgotten, ToCome
  <2>6. QED BY <1>2, <2>1, <2>2, <2>3, <2>4, <2>5 DEF DaemonEffect
<1>3. QED BY <1>1, <1>2, Effects

LEMMA NoneForgottenInitially == ASSUME Init PROVE NoneForgotten
<1>1. ASSUME NEW id \in Owed PROVE FALSE
  <2>1. id[1] \in Handles
    BY IdParts DEF Owed, Awaited
  <2>2. waiting[id[1]] = <<>>
    BY <2>1 DEF Init
  <2>3. QED BY <2>2 DEF Owed, Awaited, Waits
<1>2. QED BY <1>1 DEF NoneForgotten

-----------------------------------------------------------------------------
\* How many sources of an answer there are

\* The positions of a list counted by Sources.
LEMMA Counting ==
    ASSUME NEW n \in Nat, NEW S \in SUBSET (1..n)
    PROVE  /\ Cardinality(S) \in Nat
           /\ S = {} => Cardinality(S) = 0
           /\ S # {} => Cardinality(S) >= 1
           /\ S # {} /\ (\A i, j \in S : i = j) => Cardinality(S) = 1
<1>1. IsFiniteSet(S)
  BY FS_Interval, FS_Subset, 1 \in Int, n \in Int
<1>2. Cardinality(S) \in Nat /\ (Cardinality(S) = 0 <=> S = {})
  BY <1>1, FS_CardinalityType, FS_EmptySet
<1>3. S # {} => Cardinality(S) >= 1
  <2>1. \A m \in Nat : m # 0 => m >= 1
    OBVIOUS
  <2>2. QED BY <1>2, <2>1, Zenon
<1>4. ASSUME S # {}, \A i, j \in S : i = j PROVE Cardinality(S) = 1
  <2>1. PICK x \in S : TRUE
    BY <1>4
  <2>2. S = {x}
    BY <1>4, <2>1
  <2>3. QED BY <2>2, FS_Singleton
<1>5. QED BY <1>2, <1>3, <1>4

\* The four sets of positions that Sources counts.
AsCalled(id) ==
    {k \in DOMAIN toDaemon : toDaemon[k].iit = "API_CALL" /\ Id(toDaemon[k].call) = id}
AsQueued(id) == {k \in DOMAIN recv_alist : Id(recv_alist[k]) = id}
AsPending(id) == {k \in DOMAIN recv_acklist : Id(recv_acklist[k]) = id}
AsSent(id) == {k \in DOMAIN toClient[id[1]] : /\ toClient[id[1]][k].iit = "API_ACK"
                                              /\ toClient[id[1]][k].ack_id = id[2]}

LEMMA SourcesSum ==
    ASSUME NEW id
    PROVE  Sources(id) = Cardinality(AsCalled(id)) + Cardinality(AsQueued(id))
                            + Cardinality(AsPending(id)) + Cardinality(AsSent(id))
BY DEF Sources, AsCalled, AsQueued, AsPending, AsSent

LEMMA SourceSets ==
    ASSUME TypeOK, NEW id \in CallIds
    PROVE  /\ Len(toDaemon) \in Nat /\ AsCalled(id) \in SUBSET (1..Len(toDaemon))
           /\ Len(recv_alist) \in Nat /\ AsQueued(id) \in SUBSET (1..Len(recv_alist))
           /\ Len(recv_acklist) \in Nat /\ AsPending(id) \in SUBSET (1..Len(recv_acklist))
           /\ Len(toClient[id[1]]) \in Nat
           /\ AsSent(id) \in SUBSET (1..Len(toClient[id[1]]))
           /\ AsCalled(id) # {} <=> id \in CalledIds
           /\ AsQueued(id) # {} <=> id \in QueuedIds
           /\ AsPending(id) # {} <=> id \in Pending
           /\ AsSent(id) # {} <=> id \in SentIds
           /\ CalledOnce => \A i, j \in AsCalled(id) : i = j
           /\ NoneTwice(recv_alist) => \A i, j \in AsQueued(id) : i = j
           /\ NoneTwice(recv_acklist) => \A i, j \in AsPending(id) : i = j
           /\ AcksOnce(toClient[id[1]]) => \A i, j \in AsSent(id) : i = j
<1>1. /\ Len(toDaemon) \in Nat /\ DOMAIN toDaemon = 1..Len(toDaemon)
      /\ \A k \in 1..Len(toDaemon) : toDaemon[k] \in DaemonPacket
  BY DEF TypeOK
<1>2. /\ AsCalled(id) \in SUBSET (1..Len(toDaemon))
      /\ AsCalled(id) # {} <=> id \in CalledIds
      /\ CalledOnce => \A i, j \in AsCalled(id) : i = j
  <2>1. \A k \in 1..Len(toDaemon) : toDaemon[k].iit = "API_CALL" <=> toDaemon[k] \in CallPacket
    BY <1>1, PacketParts
  <2>2. /\ \A p \in CallPacket : PacketCall[p] = p.call
        /\ \A p \in CallPacket : PacketId[p] = Id(p.call)
    BY DEF PacketCall, PacketId
  <2>3. \A x : x \in Called <=> \E k \in 1..Len(toDaemon) :
                                 toDaemon[k] \in CallPacket /\ x = toDaemon[k].call
    BY <2>2, SaidIff DEF Called
  <2>4. AsCalled(id) # {} <=> id \in CalledIds
    BY <1>1, <2>1, <2>3 DEF AsCalled, CalledIds
  <2>5. CalledOnce => \A i, j \in AsCalled(id) : i = j
    BY <1>1, <2>1, <2>2 DEF AsCalled, CalledOnce, Once
  <2>6. QED BY <1>1, <2>4, <2>5 DEF AsCalled
<1>3. ASSUME NEW s \in Seq(CallRecord)
      PROVE  /\ Len(s) \in Nat
             /\ {k \in DOMAIN s : Id(s[k]) = id} \in SUBSET (1..Len(s))
             /\ {k \in DOMAIN s : Id(s[k]) = id} # {} <=> \E c \in Calls(s) : Id(c) = id
             /\ NoneTwice(s) => \A i, j \in {k \in DOMAIN s : Id(s[k]) = id} : i = j
  <2>1. Len(s) \in Nat /\ DOMAIN s = 1..Len(s) /\ \A k \in 1..Len(s) : s[k] \in CallRecord
    OBVIOUS
  <2>2. /\ \A k \in 1..Len(s) : s[k] \in Calls(s)
        /\ \A c \in Calls(s) : \E k \in 1..Len(s) : s[k] = c
    BY CallsInList
  <2>3. NoneTwice(s) => \A i, j \in 1..Len(s) : Id(s[i]) = Id(s[j]) => i = j
    BY <2>1 DEF NoneTwice, Once
  <2>4. QED BY <2>1, <2>2, <2>3
<1>4. recv_alist \in Seq(CallRecord) /\ recv_acklist \in Seq(CallRecord)
  BY DEF TypeOK
<1>5. id[1] \in Handles
  BY IdParts
<1>6. /\ toClient[id[1]] \in Seq(ClientPacket)
      /\ Len(toClient[id[1]]) \in Nat /\ DOMAIN toClient[id[1]] = 1..Len(toClient[id[1]])
      /\ \A k \in 1..Len(toClient[id[1]]) : toClient[id[1]][k] \in ClientPacket
  BY <1>5 DEF TypeOK
<1>7. /\ AsSent(id) \in SUBSET (1..Len(toClient[id[1]]))
      /\ AsSent(id) # {} <=> id \in SentIds
      /\ AcksOnce(toClient[id[1]]) => \A i, j \in AsSent(id) : i = j
  <2> DEFINE s == toClient[id[1]]
  <2>1. \A k \in 1..Len(s) : s[k].iit = "API_ACK" <=> s[k] \in AckPacket
    BY <1>6, PacketParts
  <2>2. \A a : a \in AcksIn(s) <=> \E k \in 1..Len(s) : s[k] \in AckPacket /\ s[k] = a
    BY <1>6, InClientSocket
  <2>3. AsSent(id) # {} <=> id \in SentIds
    BY <1>6, <2>1, <2>2 DEF AsSent, SentIds
  <2>4. ASSUME AcksOnce(s), NEW i \in AsSent(id), NEW j \in AsSent(id) PROVE i = j
    <3> DEFINE v == [a \in AckPacket |-> a.ack_id]
    <3>1. /\ i \in 1..Len(s) /\ s[i] \in AckPacket /\ s[i].ack_id = id[2]
          /\ j \in 1..Len(s) /\ s[j] \in AckPacket /\ s[j].ack_id = id[2]
      BY <1>6, <2>1 DEF AsSent
    <3>2. v[s[i]] = v[s[j]]
      BY <3>1
    <3> HIDE DEF v
    <3>3. Once(s, AckPacket, v)
      BY <2>4 DEF AcksOnce, v
    <3>4. QED BY <3>1, <3>2, <3>3 DEF Once
  <2>5. QED BY <1>6, <2>3, <2>4 DEF AsSent
<1>8. QED BY <1>1, <1>2, <1>3, <1>4, <1>6, <1>7 DEF AsQueued, AsPending, QueuedIds, Pending

LEMMA SourceCounts ==
    ASSUME TypeOK, NEW id \in CallIds
    PROVE  /\ Cardinality(AsCalled(id)) \in Nat
           /\ id \in CalledIds => Cardinality(AsCalled(id)) >= 1
           /\ id \notin CalledIds => Cardinality(AsCalled(id)) = 0
           /\ id \in CalledIds /\ CalledOnce => Cardinality(AsCalled(id)) = 1
           /\ Cardinality(AsQueued(id)) \in Nat
           /\ id \in QueuedIds => Cardinality(AsQueued(id)) >= 1
           /\ id \notin QueuedIds => Cardinality(AsQueued(id)) = 0
           /\ id \in QueuedIds /\ NoneTwice(recv_alist) => Cardinality(AsQueued(id)) = 1
           /\ Cardinality(AsPending(id)) \in Nat
           /\ id \in Pending => Cardinality(AsPending(id)) >= 1
           /\ id \notin Pending => Cardinality(AsPending(id)) = 0
           /\ id \in Pending /\ NoneTwice(recv_acklist) => Cardinality(AsPending(id)) = 1
           /\ Cardinality(AsSent(id)) \in Nat
           /\ id \in SentIds => Cardinality(AsSent(id)) >= 1
           /\ id \notin SentIds => Cardinality(AsSent(id)) = 0
           /\ id \in SentIds /\ AcksOnce(toClient[id[1]]) => Cardinality(AsSent(id)) = 1
<1>1. /\ Cardinality(AsCalled(id)) \in Nat
      /\ id \in CalledIds => Cardinality(AsCalled(id)) >= 1
      /\ id \notin CalledIds => Cardinality(AsCalled(id)) = 0
      /\ id \in CalledIds /\ CalledOnce => Cardinality(AsCalled(id)) = 1
  BY SourceSets, Counting, Zenon
<1>2. /\ Cardinality(AsQueued(id)) \in Nat
      /\ id \in QueuedIds => Cardinality(AsQueued(id)) >= 1
      /\ id \notin QueuedIds => Cardinality(AsQueued(id)) = 0
      /\ id \in QueuedIds /\ NoneTwice(recv_alist) => Cardinality(AsQueued(id)) = 1
  BY SourceSets, Counting, Zenon
<1>3. /\ Cardinality(AsPending(id)) \in Nat
      /\ id \in Pending => Cardinality(AsPending(id)) >= 1
      /\ id \notin Pending => Cardinality(AsPending(id)) = 0
      /\ id \in Pending /\ NoneTwice(recv_acklist) => Cardinality(AsPending(id)) = 1
  BY SourceSets, Counting, Zenon
<1>4. /\ Cardinality(AsSent(id)) \in Nat
      /\ id \in SentIds => Cardinality(AsSent(id)) >= 1
      /\ id \notin SentIds => Cardinality(AsSent(id)) = 0
      /\ id \in SentIds /\ AcksOnce(toClient[id[1]]) => Cardinality(AsSent(id)) = 1
  <2>1. /\ Len(toClient[id[1]]) \in Nat
        /\ AsSent(id) \in SUBSET (1..Len(toClient[id[1]]))
        /\ AsSent(id) # {} <=> id \in SentIds
        /\ AcksOnce(toClient[id[1]]) => \A i, j \in AsSent(id) : i = j
    BY SourceSets
  <2>2. QED BY <2>1, Counting, Zenon
<1>5. QED BY <1>1, <1>2, <1>3, <1>4, Zenon

\* The thread of a handle that waits in sem_wait has an answer to come, whatever was
\* lost or unregistered, as long as its own packets are not too large and its handle
\* does not leave.
THEOREM NoCallForgotten == ASSUME "large" \notin Sizes PROVE Spec => []AnswerToCome
<1> DEFINE Inv == TypeOK /\ Waiters /\ Numbers /\ NoneForgotten
<1>1. Init => Inv
  BY TypeInitially, WaitersInitially, NumbersInitially, NoneForgottenInitially
<1>2. Inv /\ [Next]_vars => Inv'
  BY StepTypes, WaitersStep, NumbersStep, ForgetsNone
<1>3. Inv => AnswerToCome
  <2> SUFFICES ASSUME Inv, NEW id \in CallIds, Waits(id), ~Exited(id[1]) PROVE Sources(id) >= 1
    BY DEF AnswerToCome
  <2>1. id \in ToCome
    BY DEF NoneForgotten, Owed, Awaited
  <2>2. \A m, n, k, l \in Nat : m >= 1 \/ n >= 1 \/ k >= 1 \/ l >= 1 => m + n + k + l >= 1
    OBVIOUS
  <2>3. /\ Cardinality(AsCalled(id)) \in Nat /\ Cardinality(AsQueued(id)) \in Nat
        /\ Cardinality(AsPending(id)) \in Nat /\ Cardinality(AsSent(id)) \in Nat
        /\ \/ Cardinality(AsCalled(id)) >= 1 \/ Cardinality(AsQueued(id)) >= 1
           \/ Cardinality(AsPending(id)) >= 1 \/ Cardinality(AsSent(id)) >= 1
    BY <2>1, SourceCounts DEF ToCome
  <2>4. QED BY <2>2, <2>3, SourcesSum, Zenon
<1> HIDE DEF Inv
<1>4. QED BY <1>1, <1>2, <1>3, PTL DEF Spec

-----------------------------------------------------------------------------
\* Answers go to their own calls

\* The calls that a handle has: on their way to it, started, or ended by it.
Held == {x \in [at : Handles, call : CallRecord] :
            \/ x.call \in RelaysIn(toClient[x.at])
            \/ x.call \in Calls(api_recv_list[x.at])
            \/ x.call \in running[x.at]
            \/ [iit |-> "API_END", send_pid |-> x.at, call |-> x.call] \in Ends}

\* As long as nobody takes an api back, a handle has registered what it is called
\* for, unless it has left.
Registered ==
    \A x \in Held : x.call.api_name \in api_list[x.at] \/ member[x.at] = "absent"

\* Each answer on its way is one to the call it will wake.
OwnAnswers ==
    \A h \in Handles : \A a \in AcksIn(toClient[h]) : a.of = <<h, a.ack_id>>

LEMMA RegisteredKept ==
    ASSUME Registered, Held' \subseteq Held,
           \A h \in Handles : \/ member'[h] = "absent"
                              \/ /\ api_list[h] \subseteq api_list'[h]
                                 /\ member[h] = "absent" => member'[h] = "absent"
    PROVE  Registered'
<1>1. ASSUME NEW x \in Held'
      PROVE  x.call.api_name \in api_list'[x.at] \/ member'[x.at] = "absent"
  <2>1. x \in Held /\ x.at \in Handles
    BY <1>1 DEF Held
  <2>2. x.call.api_name \in api_list[x.at] \/ member[x.at] = "absent"
    BY <2>1 DEF Registered
  <2>3. QED BY <2>1, <2>2
<1>2. QED BY <1>1 DEF Registered

LEMMA SameRegistered ==
    ASSUME Registered, Held' \subseteq Held, UNCHANGED <<member, api_list>>
    PROVE  Registered'
BY RegisteredKept

LEMMA RegisteredStep ==
    ASSUME ~MayUnregister, TypeOK, TypeOK', Waiters, Registered, [Next]_vars
    PROVE  Registered'
<1>1. ASSUME NEW h \in Handles, ClientEffect(h) PROVE Registered'
  <2>1. ASSUME NEW c \in CallRecord, NEW size \in Sizes, Asks(h, size, c) PROVE Registered'
    <3>1. Held' \subseteq Held
      BY <2>1 DEF Asks, Issues, Held, daemonVars
    <3>2. QED BY <2>1, <3>1, SameRegistered DEF Asks, Issues, daemonVars
  <2>2. ASSUME NEW c \in CallRecord, Arrives(h, c) PROVE Registered'
    <3>1. Ends' = Ends
      BY <2>2, SameSocket DEF Arrives
    <3>2. /\ \A g \in Handles : RelaysIn(toClient'[g]) \subseteq RelaysIn(toClient[g])
          /\ \A g \in Handles : Calls(api_recv_list'[g])
                \subseteq Calls(api_recv_list[g]) \cup RelaysIn(toClient[g])
      BY <2>2 DEF Arrives
    <3>3. Held' \subseteq Held
      BY <2>2, <3>1, <3>2 DEF Arrives, Held, daemonVars
    <3>4. QED BY <2>2, <3>3, SameRegistered DEF Arrives, daemonVars
  <2>3. ASSUME NEW c \in CallRecord, Begins(h, c) PROVE Registered'
    <3>1. Ends' = Ends
      BY <2>3, SameSocket DEF Begins, netVars
    <3>2. /\ \A g \in Handles : Calls(api_recv_list'[g]) \subseteq Calls(api_recv_list[g])
          /\ \A g \in Handles : running'[g] \subseteq running[g] \cup Calls(api_recv_list[g])
      BY <2>3 DEF Begins, TypeOK
    <3>3. Held' \subseteq Held
      BY <2>3, <3>1, <3>2 DEF Begins, Held, netVars, daemonVars
    <3>4. QED BY <2>3, <3>3, SameRegistered DEF Begins, daemonVars
  <2>4. ASSUME NEW c \in CallRecord, Finishes(h, c) PROVE Registered'
    <3>1. /\ c \in running[h]
          /\ Ends' \subseteq Ends \cup {[iit |-> "API_END", send_pid |-> h, call |-> c]}
          /\ UNCHANGED <<toClient, api_recv_list, member, api_list>>
      BY <2>4 DEF Finishes, daemonVars
    <3>2. \A g \in Handles : running'[g] \subseteq running[g]
      BY <2>4 DEF Finishes, TypeOK
    <3>3. ASSUME NEW x \in Held' PROVE x \in Held
      <4>1. CASE [iit |-> "API_END", send_pid |-> x.at, call |-> x.call]
                    = [iit |-> "API_END", send_pid |-> h, call |-> c]
        <5>1. x.at = h /\ x.call = c
          BY <4>1
        <5>2. QED BY <3>1, <3>3, <5>1 DEF Held
      <4>2. CASE [iit |-> "API_END", send_pid |-> x.at, call |-> x.call]
                    # [iit |-> "API_END", send_pid |-> h, call |-> c]
        BY <3>1, <3>2, <3>3, <4>2 DEF Held
      <4>3. QED BY <4>1, <4>2
    <3>4. QED BY <3>1, <3>3, SameRegistered
  <2>5. ASSUME NEW a \in AckPacket, Answers(h, a) PROVE Registered'
    <3>1. Ends' = Ends
      BY <2>5, SameSocket DEF Answers
    <3>2. \A g \in Handles : RelaysIn(toClient'[g]) = RelaysIn(toClient[g])
      BY <2>5 DEF Answers
    <3>3. Held' \subseteq Held
      BY <2>5, <3>1, <3>2 DEF Answers, Held
    <3>4. QED BY <2>5, <3>3, SameRegistered DEF Answers, daemonVars
  <2>6. ASSUME NEW p \in DaemonPacket, Announces(h, p) PROVE Registered'
    <3>1. Held' \subseteq Held
      BY <2>6 DEF Announces, Held, clientVars
    <3>2. QED BY <2>6, <3>1, SameRegistered DEF Announces, daemonVars
  <2>7. CASE Dies(h)
    <3>1. Ends' = Ends
      BY <2>7, SameSocket DEF Dies
    <3>2. \A g \in Handles : /\ RelaysIn(toClient'[g]) \subseteq RelaysIn(toClient[g])
                             /\ Calls(api_recv_list'[g]) \subseteq Calls(api_recv_list[g])
                             /\ running'[g] \subseteq running[g]
      BY <2>7 DEF Dies, TypeOK
    <3>3. Held' \subseteq Held
      BY <3>1, <3>2 DEF Held
    <3>4. QED BY <2>7, <3>3, SameRegistered DEF Dies, daemonVars
  <2>8. CASE CallInterrupted(h)
    <3>1. Ends' = Ends
      BY <2>8, SameSocket DEF CallInterrupted, netVars
    <3>2. Held' \subseteq Held
      BY <2>8, <3>1 DEF CallInterrupted, Held, netVars
    <3>3. QED BY <2>8, <3>2, SameRegistered DEF CallInterrupted, daemonVars
  <2>9. QED BY <1>1, <2>1, <2>2, <2>3, <2>4, <2>5, <2>6, <2>7, <2>8 DEF ClientEffect
<1>2. CASE DaemonEffect
  <2>1. ASSUME NEW c \in CallRecord, TakesCall(c) PROVE Registered'
    <3>1. Held' \subseteq Held
      BY <2>1 DEF TakesCall, Held, clientVars
    <3>2. \A h \in Handles : member[h] = "absent" => member'[h] = "absent"
      BY <2>1 DEF TakesCall, Heard, TypeOK
    <3>3. QED BY <2>1, <3>1, <3>2, RegisteredKept DEF TakesCall
  <2>2. ASSUME NEW c \in CallRecord, TakesQueued(c) PROVE Registered'
    <3>1. Ends' = Ends /\ UNCHANGED <<api_recv_list, running, member, api_list>>
      BY <2>2, SameSocket DEF TakesQueued, clientVars
    <3>2. CASE /\ c.api_name \in api_list[c.pname]
               /\ Relay(c.pname, [iit |-> "API_RELAY", call |-> c])
      <4>1. /\ \A g \in Handles : g # c.pname => toClient'[g] = toClient[g]
            /\ RelaysIn(toClient'[c.pname]) \subseteq RelaysIn(toClient[c.pname]) \cup {c}
        BY <3>2, CallParts, RelayedTo
      <4>2. ASSUME NEW x \in Held' PROVE x \in Held \/ (x.at = c.pname /\ x.call = c)
        <5>1. x \in [at : Handles, call : CallRecord]
          BY <4>2 DEF Held
        <5>2. CASE x.call \in RelaysIn(toClient'[x.at])
          BY <4>1, <5>1, <5>2 DEF Held
        <5>3. CASE x.call \notin RelaysIn(toClient'[x.at])
          BY <3>1, <4>2, <5>3 DEF Held
        <5>4. QED BY <5>2, <5>3
      <4>3. ASSUME NEW x \in Held'
            PROVE  x.call.api_name \in api_list'[x.at] \/ member'[x.at] = "absent"
        <5>1. CASE x \in Held
          BY <3>1, <5>1 DEF Registered
        <5>2. CASE x.at = c.pname /\ x.call = c
          BY <3>1, <3>2, <5>2
        <5>3. QED BY <4>2, <5>1, <5>2
      <4>4. QED BY <4>3 DEF Registered
    <3>3. ASSUME NEW a \in AckPacket, Relay(c.send_pid, a) PROVE Registered'
      <4>1. \A g \in Handles : RelaysIn(toClient'[g]) = RelaysIn(toClient[g])
        BY <3>3, CallParts, AnsweredTo
      <4>2. Held' \subseteq Held
        BY <3>1, <4>1 DEF Held
      <4>3. QED BY <3>1, <4>2, SameRegistered
    <3>4. QED BY <2>2, <3>2, <3>3 DEF TakesQueued, Probes
  <2>3. ASSUME NEW h \in Handles, NEW c \in CallRecord, Ending(h, c) PROVE Registered'
    <3>1. ASSUME NEW g \in Handles, Relay(g, Ack(c.ack_id, "OK", Id(c)))
          PROVE  \A i \in Handles : RelaysIn(toClient'[i]) = RelaysIn(toClient[i])
      <4>1. Ack(c.ack_id, "OK", Id(c)) \in AckPacket
        BY <2>3 DEF Ending
      <4>2. QED BY <3>1, <4>1, AnsweredTo
    <3>2. \A i \in Handles : RelaysIn(toClient'[i]) = RelaysIn(toClient[i])
      BY <2>3, <3>1, CallParts DEF Ending
    <3>3. Held' \subseteq Held
      BY <2>3, <3>2 DEF Ending, Held, clientVars
    <3>4. QED BY <2>3, <3>3, SameRegistered DEF Ending
  <2>4. CASE Listens
    <3>1. Held' \subseteq Held
      BY <2>4 DEF Listens, Held, clientVars
    <3>2. ~ \E k \in 1..Len(toDaemon) : toDaemon[k].iit = "API_UNREGISTER"
      BY DEF Waiters, Packets
    <3>3. QED BY <2>4, <3>1, <3>2, RegisteredKept DEF Listens
  <2>5. CASE Expires
    <3>1. Ends' = Ends
      BY <2>5, SameSocket DEF Expires
    <3>2. Held' \subseteq Held
      BY <2>5, <3>1 DEF Expires, Held, clientVars
    <3>3. QED BY <2>5, <3>2, SameRegistered DEF Expires
  <2>6. QED BY <1>2, <2>1, <2>2, <2>3, <2>4, <2>5 DEF DaemonEffect
<1>3. QED BY <1>1, <1>2, Effects

\* An end record completes the entry of its call, or does nothing: its sender has
\* registered the api, or cannot be reached any more.
LEMMA EndingOwn ==
    ASSUME TypeOK, Numbers, Registered, NEW h \in Handles, NEW c \in CallRecord, Ending(h, c)
    PROVE  \/ UNCHANGED <<toClient, recv_acklist>>
           \/ \E d \in CallRecord :
                 /\ Id(d) = Id(c)
                 /\ Calls(recv_acklist) = Calls(recv_acklist') \cup {d}
                 /\ NoneTwice(recv_acklist)
                       => NoneTwice(recv_acklist') /\ Apart(Calls(recv_acklist'), {d})
                 /\ Ack(d.ack_id, "OK", Id(d)) \in AckPacket
                 /\ Relay(d.send_pid, Ack(d.ack_id, "OK", Id(d)))
<1>1. [iit |-> "API_END", send_pid |-> h, call |-> c] \in Ends
  BY DEF Ending
<1>2. ASSUME member[h] = "absent" \/ c.api_name \notin api_list[h]
      PROVE  ~Reachable(h)
  <2> DEFINE x == [at |-> h, call |-> c]
  <2>1. x \in Held /\ x.at = h /\ x.call = c
    BY <1>1 DEF Held
  <2> HIDE DEF x
  <2>2. member[h] = "absent"
    BY <1>2, <2>1 DEF Registered
  <2>3. QED BY <2>2 DEF Reachable
<1>3. CASE /\ member[h] = "absent" \/ c.api_name \notin api_list[h]
           /\ Relay(h, Ack(c.ack_id, "OK", Id(c)))
           /\ UNCHANGED recv_acklist
  BY <1>2, <1>3 DEF Relay
<1>4. ASSUME NEW d \in CallRecord, d.daemon_magic_number = c.daemon_magic_number,
             Calls(recv_acklist) = Calls(recv_acklist') \cup {d}
      PROVE  Id(d) = Id(c) /\ d.ack_id = c.ack_id
  BY <1>1, <1>4, SameCall
<1>5. Ack(c.ack_id, "OK", Id(c)) \in AckPacket
  BY DEF Ending
<1>6. QED BY <1>3, <1>4, <1>5 DEF Ending

LEMMA OwnAnswer ==
    ASSUME NEW c \in CallRecord, NEW r
    PROVE  /\ Ack(c.ack_id, r, Id(c)).of = <<c.send_pid, c.ack_id>>
           /\ Ack(c.ack_id, r, Id(c)).ack_id = c.ack_id
           /\ Ack(c.ack_id, r, Id(c)).ack_result = r
BY DEF Ack, Id

LEMMA OwnSent ==
    ASSUME TypeOK, OwnAnswers, NEW c \in CallRecord, NEW r, Ack(c.ack_id, r, Id(c)) \in AckPacket,
           Relay(c.send_pid, Ack(c.ack_id, r, Id(c)))
    PROVE  OwnAnswers'
<1> DEFINE a == Ack(c.ack_id, r, Id(c))
           h == c.send_pid
<1>1. h \in Handles /\ a.of = <<h, a.ack_id>> /\ a \in AckPacket /\ Relay(h, a)
  BY OwnAnswer, CallParts
<1> HIDE DEF a, h
<1>2. /\ \A g \in Handles : g # h => toClient'[g] = toClient[g]
      /\ AcksIn(toClient'[h]) \subseteq AcksIn(toClient[h]) \cup {a}
  BY <1>1, AnsweredTo
<1>3. ASSUME NEW g \in Handles, NEW b \in AcksIn(toClient'[g]) PROVE b.of = <<g, b.ack_id>>
  <2>1. b \in AcksIn(toClient[g]) \/ (g = h /\ b = a)
    BY <1>2
  <2>2. QED BY <1>1, <2>1 DEF OwnAnswers
<1>4. QED BY <1>3 DEF OwnAnswers

LEMMA OwnAnswersStep ==
    ASSUME TypeOK, TypeOK', Numbers, Registered, OwnAnswers, [Next]_vars
    PROVE  OwnAnswers'
<1>1. ASSUME \A h \in Handles : AcksIn(toClient'[h]) \subseteq AcksIn(toClient[h])
      PROVE  OwnAnswers'
  BY <1>1 DEF OwnAnswers
<1>2. ASSUME NEW h \in Handles, ClientEffect(h) PROVE OwnAnswers'
  <2>1. \A g \in Handles : AcksIn(toClient'[g]) \subseteq AcksIn(toClient[g])
    <3>1. ASSUME NEW c \in CallRecord, NEW size \in Sizes, Asks(h, size, c) PROVE <2>1
      BY <3>1 DEF Asks, Issues
    <3>2. ASSUME NEW c \in CallRecord, Arrives(h, c) PROVE <2>1
      BY <3>2 DEF Arrives
    <3>3. ASSUME NEW c \in CallRecord, Begins(h, c) \/ Finishes(h, c) PROVE <2>1
      BY <3>3 DEF Begins, Finishes, netVars
    <3>4. ASSUME NEW a \in AckPacket, Answers(h, a) PROVE <2>1
      BY <3>4 DEF Answers
    <3>5. ASSUME NEW p \in DaemonPacket, Announces(h, p) PROVE <2>1
      BY <3>5 DEF Announces
    <3>6. CASE Dies(h)
      BY <3>6 DEF Dies
    <3>7. CASE CallInterrupted(h)
      BY <3>7 DEF CallInterrupted, netVars
    <3>8. QED BY <1>2, <3>1, <3>2, <3>3, <3>4, <3>5, <3>6, <3>7 DEF ClientEffect
  <2>2. QED BY <1>1, <2>1
<1>3. CASE DaemonEffect
  <2>1. ASSUME NEW c \in CallRecord, TakesCall(c) PROVE OwnAnswers'
    BY <1>1, <2>1 DEF TakesCall
  <2>2. ASSUME NEW c \in CallRecord, TakesQueued(c) PROVE OwnAnswers'
    <3>1. CASE Relay(c.pname, [iit |-> "API_RELAY", call |-> c])
      <4>1. \A g \in Handles : AcksIn(toClient'[g]) = AcksIn(toClient[g])
        BY <3>1, CallParts, RelayedTo
      <4>2. QED BY <1>1, <4>1
    <3>2. QED BY <2>2, <3>1, OwnSent DEF TakesQueued, Probes
  <2>3. ASSUME NEW h \in Handles, NEW c \in CallRecord, Ending(h, c) PROVE OwnAnswers'
    <3>1. CASE UNCHANGED toClient
      BY <1>1, <3>1
    <3>2. QED BY <2>3, <3>1, EndingOwn, OwnSent
  <2>4. CASE Listens
    BY <1>1, <2>4 DEF Listens
  <2>5. CASE Expires
    <3>1. ASSUME NEW h \in Handles, NEW a \in AcksIn(toClient'[h]) PROVE a.of = <<h, a.ack_id>>
      <4>1. CASE a \in AcksIn(toClient[h])
        BY <4>1 DEF OwnAnswers
      <4>2. ASSUME NEW c \in Ended(h), a = Ack(c.ack_id, "TIMEOUT", Id(c))
            PROVE  a.of = <<h, a.ack_id>>
        <5>1. c \in CallRecord /\ c.send_pid = h
          BY CallsInList DEF Ended, TypeOK
        <5>2. QED BY <4>2, <5>1, OwnAnswer
      <4>3. QED BY <2>5, <4>1, <4>2 DEF Expires
    <3>2. QED BY <3>1 DEF OwnAnswers
  <2>6. QED BY <1>3, <2>1, <2>2, <2>3, <2>4, <2>5 DEF DaemonEffect
<1>4. QED BY <1>2, <1>3, Effects

\* Only an answer that a client takes, or a signal, changes what calls have returned.
LEMMA ResultsChange ==
    ASSUME TypeOK, [Next]_vars
    PROVE  \/ UNCHANGED results
           \/ \E h \in Handles, a \in AckPacket : Answers(h, a)
           \/ \E h \in Handles : CallInterrupted(h)
<1>1. ASSUME NEW h \in Handles, ClientEffect(h)
      PROVE  \/ UNCHANGED results
             \/ \E a \in AckPacket : Answers(h, a)
             \/ CallInterrupted(h)
  BY <1>1 DEF ClientEffect, Asks, Issues, Arrives, Begins, Finishes, Announces, Dies
<1>2. DaemonEffect => UNCHANGED results
  BY DEF DaemonEffect, TakesCall, TakesQueued, Ending, Listens, Expires
<1>3. QED BY <1>1, <1>2, Effects

LEMMA OwnResultsStep ==
    ASSUME TypeOK, TypeOK', Waiters, OwnAnswers, AckAnswersOwnCall, [Next]_vars
    PROVE  AckAnswersOwnCall'
<1>0. \A h \in Handles : /\ Len(results[h]) \in Nat
                         /\ DOMAIN results[h] = 1..Len(results[h])
                         /\ DOMAIN results'[h] = 1..Len(results'[h])
  BY DEF TypeOK
<1>1. CASE UNCHANGED results
  BY <1>1 DEF AckAnswersOwnCall
<1>2. ASSUME NEW h \in Handles, NEW a \in AckPacket, Answers(h, a)
      PROVE  AckAnswersOwnCall'
  <2>1. \A g \in Handles : g # h => results'[g] = results[g]
    BY <1>2, LastResult
  <2>2. CASE results'[h] = results[h]
    BY <2>1, <2>2 DEF AckAnswersOwnCall
  <2>3. CASE /\ Len(results'[h]) = Len(results[h]) + 1
             /\ results'[h][Len(results[h]) + 1].of = a.of
             /\ \A k \in 1..Len(results[h]) : results'[h][k] = results[h][k]
             /\ waiting[h] # <<>> /\ waiting[h][1].ack_id = a.ack_id
    <3>1. a.ack_id = Len(results[h])
      BY <2>3 DEF Waiters, LastCall
    <3>2. a.of = <<h, a.ack_id>>
      BY <1>2 DEF Answers, OwnAnswers
    <3>3. ASSUME NEW k \in DOMAIN results'[h] PROVE results'[h][k].of = <<h, k - 1>>
      <4>1. k \in 1..Len(results[h]) \/ k = Len(results[h]) + 1
        BY <1>0, <2>3
      <4>2. CASE k \in 1..Len(results[h])
        BY <1>0, <2>3, <4>2 DEF AckAnswersOwnCall
      <4>3. CASE k = Len(results[h]) + 1
        <5>1. k - 1 = Len(results[h])
          BY <1>0, <4>3
        <5>2. QED BY <2>3, <3>1, <3>2, <4>3, <5>1
      <4>4. QED BY <4>1, <4>2, <4>3
    <3>4. QED BY <2>1, <3>3 DEF AckAnswersOwnCall
  <2>4. QED BY <1>2, <2>2, <2>3, LastResult
<1>3. ASSUME NEW h \in Handles, CallInterrupted(h) PROVE AckAnswersOwnCall'
  <2>1. /\ \A g \in Handles : g # h => results'[g] = results[g]
        /\ waiting[h] # <<>> /\ waiting[h][1] \in CallRecord
        /\ Len(results'[h]) = Len(results[h]) + 1
        /\ results'[h][Len(results[h]) + 1].of = Id(waiting[h][1])
        /\ \A k \in 1..Len(results[h]) : results'[h][k] = results[h][k]
    BY <1>3, GivenUp DEF GivesUp
  <2>2. waiting[h][1].send_pid = h /\ waiting[h][1].ack_id = Len(results[h])
    BY <2>1 DEF Waiters, LastCall
  <2>3. Id(waiting[h][1]) = <<h, Len(results[h])>>
    BY <2>2 DEF Id
  <2>4. ASSUME NEW k \in DOMAIN results'[h] PROVE results'[h][k].of = <<h, k - 1>>
    <3>1. k \in 1..Len(results[h]) \/ k = Len(results[h]) + 1
      BY <1>0, <2>1
    <3>2. CASE k \in 1..Len(results[h])
      BY <1>0, <2>1, <3>2 DEF AckAnswersOwnCall
    <3>3. CASE k = Len(results[h]) + 1
      <4>1. k - 1 = Len(results[h])
        BY <1>0, <3>3
      <4>2. QED BY <2>1, <2>3, <3>3, <4>1
    <3>4. QED BY <3>1, <3>2, <3>3
  <2>5. QED BY <2>1, <2>4 DEF AckAnswersOwnCall
<1>4. QED BY <1>1, <1>2, <1>3, ResultsChange

LEMMA OwnInitially == ASSUME Init PROVE Registered /\ OwnAnswers /\ AckAnswersOwnCall
<1>1. /\ Ends = {}
      /\ \A h \in Handles : /\ RelaysIn(toClient[h]) = {} /\ Calls(api_recv_list[h]) = {}
                            /\ running[h] = {} /\ AcksIn(toClient[h]) = {}
  <2>1. /\ toDaemon = <<>>
        /\ \A h \in Handles : toClient[h] = <<>> /\ api_recv_list[h] = <<>> /\ running[h] = {}
    BY DEF Init
  <2>2. QED BY <2>1, SaidOfNone DEF Ends, Calls, RelaysIn, AcksIn
<1>2. Held = {}
  BY <1>1 DEF Held
<1>3. \A h \in Handles : results[h] = <<>> /\ DOMAIN results[h] = {}
  BY DEF Init
<1>4. QED BY <1>1, <1>2, <1>3 DEF Registered, OwnAnswers, AckAnswersOwnCall

\* What is known at every moment when no program takes an api back.
Paired == Placed /\ Waiters /\ Numbers /\ Registered /\ OwnAnswers /\ AckAnswersOwnCall

\* As long as no program takes an api back, an end record or an answer, wherever it
\* is, belongs to the call whose number it carries.
THEOREM PairedAlways == ASSUME ~MayUnregister PROVE Spec => []Paired
<1>1. Init => Paired
  BY PlacedInitially, WaitersInitially, NumbersInitially, OwnInitially DEF Paired
<1>2. Paired /\ [Next]_vars => Paired'
  BY StepTypes, PlacedStep, WaitersStep, NumbersStep, RegisteredStep, OwnAnswersStep,
     OwnResultsStep DEF Paired, Placed
<1>3. QED BY <1>1, <1>2, PTL DEF Spec

\* As long as no program takes an api back, what a call returns answers that call
\* and no other, whatever times out, dies, leaves or is suspended meanwhile.
THEOREM OwnCallAnswered == ASSUME ~MayUnregister PROVE Spec => []AckAnswersOwnCall
<1>1. Paired => AckAnswersOwnCall
  BY DEF Paired
<1>2. QED BY PairedAlways, <1>1, PTL

-----------------------------------------------------------------------------
\* One source of an answer at most

\* The calls that wait, and those that waited until a signal came.
Open == {id \in CallIds : Waits(id) \/ Interrupted(id)}

\* No answer is at two of the places, or twice at one, and only calls that wait,
\* or waited until a signal or the death of their process, have one to come.
Single ==
    /\ NoneTwice(recv_acklist)
    /\ \A h \in Handles : AcksOnce(toClient[h])
    /\ CalledIds \cap QueuedIds = {}
    /\ Pending \cap (CalledIds \cup QueuedIds) = {}
    /\ SentIds \cap (CalledIds \cup QueuedIds \cup Pending) = {}
    /\ \A id \in ToCome : alive[id[1]] => id \in Open

LEMMA SameOpen == ASSUME UNCHANGED <<waiting, results>> PROVE Open' = Open
BY DEF Open, Waits, Interrupted

\* What calls returned stays.
LEMMA InterruptedStays ==
    ASSUME TypeOK, TypeOK', NEW id \in CallIds, Interrupted(id),
           \A k \in 1..Len(results[id[1]]) :
               k \in 1..Len(results'[id[1]]) /\ results'[id[1]][k] = results[id[1]][k]
    PROVE  Interrupted(id)'
<1>1. /\ DOMAIN results[id[1]] = 1..Len(results[id[1]])
      /\ DOMAIN results'[id[1]] = 1..Len(results'[id[1]])
  <2>1. results[id[1]] \in Seq(Result) /\ results'[id[1]] \in Seq(Result)
    BY IdParts DEF TypeOK
  <2>2. QED BY <2>1
<1>2. QED BY <1>1 DEF Interrupted

\* A call that was not made yet was not interrupted.
LEMMA NewNotInterrupted ==
    ASSUME TypeOK, Waiters, AckAnswersOwnCall, NEW id \in CallIds, Interrupted(id)
    PROVE  id[2] < api_ack_magic_num[id[1]]
<1>1. id[1] \in Handles /\ id[2] \in Nat
  BY IdParts
<1>2. PICK k \in DOMAIN results[id[1]] :
         results[id[1]][k] = [ack_result |-> "INTERRUPTED", of |-> id]
  BY DEF Interrupted
<1>3. results[id[1]][k].of = id
  BY <1>2
<1>4. id = <<id[1], k - 1>>
  BY <1>1, <1>3 DEF AckAnswersOwnCall
<1>5. k \in 1..Len(results[id[1]]) /\ Len(results[id[1]]) \in Nat
  BY <1>1 DEF TypeOK
<1>6. id[2] = k - 1
  BY <1>4
<1>7. Len(results[id[1]]) + Len(waiting[id[1]]) <= api_ack_magic_num[id[1]]
  BY <1>1 DEF Waiters, LastCall
<1>8. Len(waiting[id[1]]) \in Nat /\ api_ack_magic_num[id[1]] \in Nat
  <2>1. waiting[id[1]] \in Seq(CallRecord) /\ api_ack_magic_num[id[1]] \in 0..MaxCalls
    BY <1>1 DEF TypeOK
  <2>2. QED BY <2>1, BoundsAssumption
<1>9. \A l, m, n \in Nat : \A i \in 1..l : l + m <= n => i - 1 < n
  OBVIOUS
<1>10. k - 1 < api_ack_magic_num[id[1]]
  BY <1>5, <1>7, <1>8, <1>9
<1>11. QED BY <1>6, <1>10

LEMMA SingleStays ==
    ASSUME Single, CalledIds' \subseteq CalledIds, QueuedIds' \subseteq QueuedIds,
           Pending' \subseteq Pending, SentIds' \subseteq SentIds,
           NoneTwice(recv_acklist'), \A h \in Handles : AcksOnce(toClient'[h]),
           \A id \in ToCome' : alive'[id[1]] /\ alive[id[1]] /\ id \in Open
                                  => id \in Open',
           \A id \in ToCome' : alive'[id[1]] => alive[id[1]]
    PROVE  Single'
<1>1. NoneTwice(recv_acklist)' /\ \A h \in Handles : AcksOnce(toClient[h])'
  BY DEF NoneTwice, AcksOnce
<1>2. ToCome' \subseteq ToCome
  BY DEF ToCome
<1>3. \A id \in ToCome' : alive'[id[1]] => id \in Open'
  BY <1>2 DEF Single
<1>4. /\ (CalledIds \cap QueuedIds = {})'
      /\ (Pending \cap (CalledIds \cup QueuedIds) = {})'
      /\ (SentIds \cap (CalledIds \cup QueuedIds \cup Pending) = {})'
  BY DEF Single
<1>5. QED BY <1>1, <1>3, <1>4 DEF Single

\* One answer goes from a place to another, or is lost.
LEMMA SingleMoves ==
    ASSUME Single, NEW id \in ToCome, Open' = Open, alive' = alive,
           CalledIds' \subseteq CalledIds \cup {id}, QueuedIds' \subseteq QueuedIds \cup {id},
           Pending' \subseteq Pending \cup {id}, SentIds' \subseteq SentIds \cup {id},
           id \in CalledIds' => id \notin QueuedIds' \cup Pending' \cup SentIds',
           id \in QueuedIds' => id \notin Pending' \cup SentIds',
           id \in Pending' => id \notin SentIds',
           NoneTwice(recv_acklist'), \A h \in Handles : AcksOnce(toClient'[h])
    PROVE  Single'
<1>1. NoneTwice(recv_acklist)' /\ \A h \in Handles : AcksOnce(toClient[h])'
  BY DEF NoneTwice, AcksOnce
<1>2. ToCome' \subseteq ToCome
  BY DEF ToCome
<1>3. \A i \in ToCome' : alive'[i[1]] => i \in Open'
  BY <1>2 DEF Single
<1>4. /\ (CalledIds \cap QueuedIds = {})'
      /\ (Pending \cap (CalledIds \cup QueuedIds) = {})'
      /\ (SentIds \cap (CalledIds \cup QueuedIds \cup Pending) = {})'
  BY DEF Single
<1>5. QED BY <1>1, <1>3, <1>4 DEF Single

LEMMA OnceInList ==
    ASSUME NEW s \in Seq(CallRecord), NoneTwice(s), NEW c \in Calls(s), NEW d \in Calls(s),
           Id(c) = Id(d)
    PROVE  c = d
<1>1. PICK j, k \in 1..Len(s) : s[j] = c /\ s[k] = d
  BY CallsInList
<1>2. s[j] \in CallRecord /\ s[k] \in CallRecord
  OBVIOUS
<1>3. j = k
  BY <1>1, <1>2 DEF NoneTwice, Once
<1>4. QED BY <1>1, <1>3

\* An answer to c is new to the socket of the caller.
LEMMA NewAnswerOnce ==
    ASSUME TypeOK, Single, NEW c \in CallRecord, Id(c) \notin SentIds,
           NEW a \in AckPacket, a.ack_id = c.ack_id, Relay(c.send_pid, a)
    PROVE  \A g \in Handles : AcksOnce(toClient'[g])
<1>1. c.send_pid \in Handles /\ Id(c) \in CallIds /\ Id(c)[1] = c.send_pid /\ Id(c)[2] = c.ack_id
  BY CallParts
<1>2. \A b \in AcksIn(toClient[c.send_pid]) : b.ack_id # a.ack_id
  BY <1>1 DEF SentIds
<1>3. /\ \A g \in Handles : g # c.send_pid => toClient'[g] = toClient[g]
      /\ AcksOnce(toClient[c.send_pid]) => AcksOnce(toClient'[c.send_pid])
  BY <1>1, <1>2, AnsweredTo
<1>4. QED BY <1>1, <1>3 DEF Single

LEMMA SingleStep ==
    ASSUME TypeOK, TypeOK', EachOnce, Waiters, Numbers, Registered, AckAnswersOwnCall, Single,
           [Next]_vars
    PROVE  Single'
<1>0. NoneTwice(recv_acklist) /\ \A g \in Handles : AcksOnce(toClient[g])
  BY DEF Single
<1>1. ASSUME NEW h \in Handles, ClientEffect(h) PROVE Single'
  <2>1. ASSUME NEW c \in CallRecord, NEW size \in Sizes, Asks(h, size, c) PROVE Single'
    <3> DEFINE id == Id(c)
    <3>1. /\ Called' \subseteq Called \cup {c}
          /\ c.send_pid = h /\ alive[h] /\ waiting[h] = <<>>
          /\ c.ack_id = api_ack_magic_num[h]
          /\ waiting' = [waiting EXCEPT ![h] = <<c>>]
          /\ UNCHANGED <<alive, toClient, recv_alist, recv_acklist, results>>
      BY <2>1 DEF Asks, Issues, daemonVars
    <3>2. id \in CallIds /\ id[1] = h /\ id[2] = c.ack_id
      BY <3>1, CallParts
    <3>3. CalledIds' \subseteq CalledIds \cup {id}
      BY <3>1 DEF CalledIds
    <3>4. QueuedIds' = QueuedIds /\ Pending' = Pending /\ SentIds' = SentIds
      BY <3>1, SameQueued, SamePending, SameSent
    <3>5. id \in Open' /\ Open \subseteq Open'
      <4>1. /\ waiting'[h] = <<c>> /\ <<c>> # <<>> /\ <<c>>[1] = c
            /\ \A g \in Handles : g # h => waiting'[g] = waiting[g]
        BY <3>1 DEF TypeOK
      <4>2. id \in Open'
        BY <3>2, <4>1 DEF Open, Waits
      <4>3. ASSUME NEW i \in CallIds, Interrupted(i) PROVE i \in Open'
        BY <3>1, <4>3 DEF Open, Interrupted
      <4>4. ASSUME NEW i \in CallIds, Waits(i) PROVE i \in Open'
        <5>1. i[1] \in Handles /\ i[1] # h
          BY <3>1, <4>4, IdParts DEF Waits
        <5>2. waiting'[i[1]] = waiting[i[1]]
          BY <4>1, <5>1
        <5>3. QED BY <4>4, <5>2 DEF Open, Waits
      <4>5. QED BY <4>2, <4>3, <4>4 DEF Open
    <3>6. id \notin ToCome
      <4>1. ~Waits(id)
        BY <3>1, <3>2 DEF Waits
      <4>2. ~Interrupted(id)
        <5>1. api_ack_magic_num[h] \in 0..MaxCalls
          BY DEF TypeOK
        <5>2. ~(id[2] < api_ack_magic_num[id[1]])
          BY <3>1, <3>2, <5>1, BoundsAssumption
        <5>3. QED BY <3>2, <5>2, NewNotInterrupted
      <4>3. id \notin Open
        BY <4>1, <4>2 DEF Open
      <4>4. QED BY <3>1, <3>2, <4>3 DEF Single
    <3> HIDE DEF id
    <3>7. /\ (CalledIds \cap QueuedIds = {})'
          /\ (Pending \cap (CalledIds \cup QueuedIds) = {})'
          /\ (SentIds \cap (CalledIds \cup QueuedIds \cup Pending) = {})'
      BY <3>3, <3>4, <3>6 DEF Single, ToCome
    <3>8. \A i \in ToCome' : alive'[i[1]] => i \in Open'
      <4>1. ToCome' \subseteq ToCome \cup {id}
        BY <3>3, <3>4 DEF ToCome
      <4>2. QED BY <3>1, <3>5, <4>1 DEF Single
    <3>9. (NoneTwice(recv_acklist) /\ \A g \in Handles : AcksOnce(toClient[g]))'
      BY <1>0, <3>1
    <3>10. QED BY <3>7, <3>8, <3>9 DEF Single
  <2>2. ASSUME UNCHANGED <<alive, waiting, results, recv_alist, recv_acklist>>, Called' = Called,
               \A g \in Handles : /\ AcksIn(toClient'[g]) = AcksIn(toClient[g])
                                  /\ AcksOnce(toClient[g]) => AcksOnce(toClient'[g])
        PROVE  Single'
    <3>1. /\ CalledIds' = CalledIds /\ QueuedIds' = QueuedIds /\ Pending' = Pending
          /\ SentIds' = SentIds /\ Open' = Open
      BY <2>2, SameOpen, SameQueued, SamePending, SameSent, SameCalled
    <3>2. NoneTwice(recv_acklist') /\ \A g \in Handles : AcksOnce(toClient'[g])
      BY <1>0, <2>2
    <3>3. QED BY <2>2, <3>1, <3>2, SingleStays
  <2>3. ASSUME NEW c \in CallRecord, Arrives(h, c) PROVE Single'
    <3>1. Called' = Called
      BY <2>3, SameSocket DEF Arrives
    <3>2. \A g \in Handles : /\ AcksIn(toClient'[g]) = AcksIn(toClient[g])
                             /\ AcksOnce(toClient[g]) => AcksOnce(toClient'[g])
      BY <2>3 DEF Arrives
    <3>3. QED BY <2>2, <2>3, <3>1, <3>2 DEF Arrives, daemonVars
  <2>4. ASSUME NEW c \in CallRecord, Begins(h, c) PROVE Single'
    <3>1. Called' = Called
      BY <2>4, SameSocket DEF Begins, netVars
    <3>2. QED BY <2>2, <2>4, <3>1 DEF Begins, netVars, daemonVars
  <2>5. ASSUME NEW c \in CallRecord, Finishes(h, c) PROVE Single'
    BY <2>2, <2>5 DEF Finishes, daemonVars
  <2>6. ASSUME NEW p \in DaemonPacket, Announces(h, p) PROVE Single'
    BY <2>2, <2>6 DEF Announces, clientVars, daemonVars
  <2>7. ASSUME UNCHANGED <<recv_alist, recv_acklist>>, Called' = Called,
               \A g \in Handles :
                  /\ AcksIn(toClient'[g]) \subseteq AcksIn(toClient[g])
                  /\ AcksOnce(toClient[g]) => AcksOnce(toClient'[g])
                  /\ alive'[g] => alive[g],
               \A id \in ToCome' : alive'[id[1]] /\ id \in Open => id \in Open'
        PROVE  Single'
    <3>1. CalledIds' = CalledIds /\ QueuedIds' = QueuedIds /\ Pending' = Pending
      BY <2>7, SameQueued, SamePending, SameCalled
    <3>2. SentIds' \subseteq SentIds
      BY <2>7, IdParts DEF SentIds
    <3>3. NoneTwice(recv_acklist') /\ \A g \in Handles : AcksOnce(toClient'[g])
      BY <1>0, <2>7
    <3>4. \A id \in ToCome' : id[1] \in Handles
      BY IdParts DEF ToCome, CalledIds, QueuedIds, Pending, SentIds
    <3>5. QED BY <2>7, <3>1, <3>2, <3>3, <3>4, SingleStays
  <2>8. ASSUME NEW a \in AckPacket, Answers(h, a) PROVE Single'
    <3>1. /\ Called' = Called
          /\ UNCHANGED <<alive, recv_alist, recv_acklist>>
          /\ \A g \in Handles : g # h => toClient'[g] = toClient[g]
          /\ AcksIn(toClient[h]) = AcksIn(toClient'[h]) \cup {a}
          /\ AcksOnce(toClient'[h])
          /\ \A b \in AcksIn(toClient'[h]) : b.ack_id # a.ack_id
      BY <1>0, <2>8, SameSocket DEF Answers, daemonVars
    <3>2. \A g \in Handles : /\ AcksIn(toClient'[g]) \subseteq AcksIn(toClient[g])
                             /\ AcksOnce(toClient[g]) => AcksOnce(toClient'[g])
      BY <3>1
    <3>3. CASE UNCHANGED <<waiting, results>>
      <4>1. Open' = Open
        BY <3>3, SameOpen
      <4>2. QED BY <2>7, <3>1, <3>2, <4>1
    <3>4. CASE /\ waiting[h] # <<>> /\ waiting[h][1].ack_id = a.ack_id
               /\ waiting' = [waiting EXCEPT ![h] = <<>>]
      <4>1. ASSUME NEW id \in ToCome', id \in CallIds, Waits(id) PROVE id \in Open'
        <5>1. id[1] \in Handles
          BY <4>1, IdParts
        <5>2. CASE id[1] # h
          <6>1. waiting'[id[1]] = waiting[id[1]]
            BY <3>4, <5>1, <5>2 DEF TypeOK
          <6>2. QED BY <4>1, <6>1 DEF Open, Waits
        <5>3. CASE id[1] = h
          <6>1. id[2] = a.ack_id
            BY <3>4, <4>1, <5>3 DEF Waits
          <6>2. id \in SentIds
            BY <3>1, <4>1, <5>3, <6>1 DEF SentIds
          <6>3. id \notin SentIds'
            BY <3>1, <5>3, <6>1 DEF SentIds
          <6>4. CalledIds' = CalledIds /\ QueuedIds' = QueuedIds /\ Pending' = Pending
            BY <3>1, SameQueued, SamePending, SameCalled
          <6>5. id \notin ToCome'
            BY <6>2, <6>3, <6>4 DEF Single, ToCome
          <6>6. QED BY <4>1, <6>5
        <5>4. QED BY <5>2, <5>3
      <4>2. ASSUME NEW id \in CallIds, Interrupted(id) PROVE id \in Open'
        <5>1. id[1] \in Handles
          BY IdParts
        <5>2. \A k \in 1..Len(results[id[1]]) :
                 k \in 1..Len(results'[id[1]]) /\ results'[id[1]][k] = results[id[1]][k]
          <6>1. CASE results'[id[1]] = results[id[1]]
            BY <6>1
          <6>2. CASE /\ id[1] = h /\ Len(results'[h]) = Len(results[h]) + 1
                     /\ \A k \in 1..Len(results[h]) : results'[h][k] = results[h][k]
            <7>1. Len(results[h]) \in Nat
              BY DEF TypeOK
            <7>2. QED BY <6>2, <7>1
          <6>3. QED BY <2>8, <5>1, <6>1, <6>2, LastResult
        <5>3. Interrupted(id)'
          BY <4>2, <5>2, InterruptedStays
        <5>4. QED BY <5>3 DEF Open
      <4>3. \A id \in ToCome' : id \in Open => id \in Open'
        BY <4>1, <4>2 DEF Open
      <4>4. QED BY <2>7, <3>1, <3>2, <4>3
    <3>5. QED BY <2>8, <3>3, <3>4 DEF Answers
  <2>9. CASE Dies(h)
    <3>1. /\ Called' = Called
          /\ UNCHANGED <<recv_alist, recv_acklist>>
          /\ \A g \in Handles : g # h => toClient'[g] = toClient[g]
          /\ AcksIn(toClient'[h]) = {} /\ AcksOnce(toClient'[h])
      BY <2>9, SameSocket DEF Dies, daemonVars
    <3>2. /\ ~alive'[h] /\ waiting'[h] = <<>>
          /\ \A g \in Handles : g # h => alive'[g] = alive[g] /\ waiting'[g] = waiting[g]
      BY <2>9 DEF Dies, TypeOK
    <3>3. \A g \in Handles : /\ AcksIn(toClient'[g]) \subseteq AcksIn(toClient[g])
                             /\ AcksOnce(toClient[g]) => AcksOnce(toClient'[g])
                             /\ alive'[g] => alive[g]
      BY <3>1, <3>2
    <3>4. ASSUME NEW id \in ToCome', alive'[id[1]], id \in Open PROVE id \in Open'
      <4>1. id \in CallIds /\ id[1] \in Handles /\ id[1] # h
        BY <3>2, <3>4, IdParts DEF Open
      <4>2. waiting'[id[1]] = waiting[id[1]] /\ results' = results
        BY <2>9, <3>2, <4>1 DEF Dies
      <4>3. QED BY <3>4, <4>1, <4>2 DEF Open, Waits, Interrupted
    <3>5. QED BY <2>7, <3>1, <3>3, <3>4
  <2>10. CASE CallInterrupted(h)
    <3>1. GivesUp(h)
      BY <2>10, GivenUp
    <3>2. /\ Called' = Called
          /\ UNCHANGED <<alive, recv_alist, recv_acklist, toClient>>
      BY <2>10, SameSocket DEF CallInterrupted, netVars, daemonVars
    <3>3. ASSUME NEW id \in CallIds, Waits(id) PROVE id \in Open'
      <4>1. id[1] \in Handles /\ id = <<id[1], id[2]>>
        BY IdParts
      <4>2. CASE id[1] # h
        <5>1. waiting'[id[1]] = waiting[id[1]]
          BY <3>1, <4>1, <4>2 DEF GivesUp
        <5>2. QED BY <3>3, <5>1 DEF Open, Waits
      <4>3. CASE id[1] = h
        <5>1. waiting[h] # <<>> /\ waiting[h][1].ack_id = id[2] /\ waiting[h][1].send_pid = h
          BY <3>3, <4>3 DEF Waits, Waiters, LastCall
        <5>2. Id(waiting[h][1]) = id
          BY <4>1, <4>3, <5>1 DEF Id
        <5>3. /\ results'[h][Len(results[h]) + 1] = [ack_result |-> "INTERRUPTED", of |-> id]
              /\ Len(results'[h]) = Len(results[h]) + 1
          BY <3>1, <5>2 DEF GivesUp
        <5>4. Len(results[h]) \in Nat /\ DOMAIN results'[h] = 1..Len(results'[h])
          BY DEF TypeOK
        <5>5. Len(results[h]) + 1 \in DOMAIN results'[h]
          BY <5>3, <5>4
        <5>6. Interrupted(id)'
          BY <4>3, <5>3, <5>5 DEF Interrupted
        <5>7. QED BY <5>6 DEF Open
      <4>4. QED BY <4>2, <4>3
    <3>4. ASSUME NEW id \in CallIds, Interrupted(id) PROVE id \in Open'
      <4>1. id[1] \in Handles
        BY IdParts
      <4>2. \A k \in 1..Len(results[id[1]]) :
               k \in 1..Len(results'[id[1]]) /\ results'[id[1]][k] = results[id[1]][k]
        <5>1. CASE id[1] # h
          <6>1. results'[id[1]] = results[id[1]]
            BY <3>1, <4>1, <5>1 DEF GivesUp
          <6>2. QED BY <6>1
        <5>2. CASE id[1] = h
          <6>1. Len(results[h]) \in Nat
            BY DEF TypeOK
          <6>2. /\ Len(results'[h]) = Len(results[h]) + 1
                /\ \A k \in 1..Len(results[h]) : results'[h][k] = results[h][k]
            BY <3>1 DEF GivesUp
          <6>3. QED BY <5>2, <6>1, <6>2
        <5>3. QED BY <5>1, <5>2
      <4>3. Interrupted(id)'
        BY <3>4, <4>2, InterruptedStays
      <4>4. QED BY <4>3 DEF Open
    <3>5. Open \subseteq Open'
      BY <3>3, <3>4 DEF Open
    <3>6. QED BY <2>7, <3>2, <3>5
  <2>11. QED BY <1>1, <2>1, <2>3, <2>4, <2>5, <2>6, <2>8, <2>9, <2>10 DEF ClientEffect
<1>2. CASE DaemonEffect
  <2>0. Open' = Open /\ UNCHANGED alive
    <3>1. UNCHANGED <<clientVars, results>>
      BY <1>2 DEF DaemonEffect, TakesCall, TakesQueued, Ending, Listens, Expires
    <3>2. QED BY <3>1, SameOpen DEF clientVars
  <2>1. ASSUME NEW c \in CallRecord, TakesCall(c) PROVE Single'
    <3>1. SentIds' = SentIds /\ Pending' = Pending /\ UNCHANGED <<toClient, recv_acklist>>
      BY <2>1, SameSent, SamePending DEF TakesCall
    <3>2. Id(c) \in CalledIds /\ Id(c) \in CallIds
      BY <2>1, CallParts DEF TakesCall, CalledIds
    <3>3. CalledIds' \subseteq CalledIds \ {Id(c)}
      BY <2>1 DEF TakesCall, CalledIds, EachOnce, Apart
    <3>4. QueuedIds' \subseteq QueuedIds \cup {Id(c)}
      <4>1. CASE Calls(recv_alist') = Calls(recv_alist) \cup {Numbered(c)}
        BY <4>1, NumberedParts DEF QueuedIds
      <4>2. CASE UNCHANGED recv_alist
        BY <4>2 DEF QueuedIds
      <4>3. QED BY <2>1, <4>1, <4>2 DEF TakesCall
    <3>5. Id(c) \in ToCome /\ Id(c) \notin Pending \cup SentIds
      BY <3>2 DEF ToCome, Single
    <3>6. NoneTwice(recv_acklist') /\ \A g \in Handles : AcksOnce(toClient'[g])
      BY <1>0, <3>1
    <3>7. QED BY <2>0, <3>1, <3>3, <3>4, <3>5, <3>6, SingleMoves
  <2>2. ASSUME NEW c \in CallRecord, TakesQueued(c) PROVE Single'
    <3>1. CalledIds' = CalledIds
      BY <2>2, SameSocket, SameCalled DEF TakesQueued
    <3>2. Id(c) \in QueuedIds /\ Id(c) \in CallIds
      BY <2>2, CallParts DEF TakesQueued, Probes, QueuedIds
    <3>3. QueuedIds' \subseteq QueuedIds \ {Id(c)}
      BY <2>2 DEF TakesQueued, Probes, QueuedIds, EachOnce, Apart
    <3>4. Id(c) \in ToCome /\ Id(c) \notin CalledIds \cup Pending \cup SentIds
      BY <3>2 DEF ToCome, Single
    <3>5. CASE /\ Relay(c.pname, [iit |-> "API_RELAY", call |-> c])
               /\ recv_acklist' = Append(recv_acklist, c)
      <4>1. c.pname \in Handles /\ recv_acklist \in Seq(CallRecord)
        BY CallParts DEF TypeOK
      <4>2. Apart(Calls(recv_acklist), {c})
        BY <3>2, <3>4 DEF Apart, Pending
      <4>3. /\ Calls(recv_acklist') = Calls(recv_acklist) \cup {c}
            /\ NoneTwice(recv_acklist')
        BY <1>0, <3>5, <4>1, <4>2, CallsAppend
      <4>4. Pending' \subseteq Pending \cup {Id(c)}
        BY <4>3 DEF Pending
      <4>5. /\ SentIds' = SentIds
            /\ \A g \in Handles : AcksOnce(toClient'[g])
        BY <1>0, <3>5, <4>1, RelayedTo, SameSent
      <4>6. QED BY <2>0, <3>1, <3>3, <3>4, <4>3, <4>4, <4>5, SingleMoves
    <3>6. ASSUME NEW r, Ack(c.ack_id, r, Id(c)) \in AckPacket,
                 Relay(c.send_pid, Ack(c.ack_id, r, Id(c))), recv_acklist' = recv_acklist
          PROVE  Single'
      <4>1. Ack(c.ack_id, r, Id(c)).ack_id = c.ack_id /\ UNCHANGED waiting
        BY <2>2, OwnAnswer DEF TakesQueued, clientVars
      <4>2. SentIds' \subseteq SentIds \cup {Id(c)}
        BY <3>6, <4>1, AnsweredOrGone
      <4>3. \A g \in Handles : AcksOnce(toClient'[g])
        BY <3>4, <3>6, <4>1, NewAnswerOnce
      <4>4. Pending' = Pending /\ NoneTwice(recv_acklist')
        BY <1>0, <3>6, SamePending
      <4>5. QED BY <2>0, <3>1, <3>3, <3>4, <4>2, <4>3, <4>4, SingleMoves
    <3>7. QED BY <2>2, <3>5, <3>6 DEF TakesQueued, Probes
  <2>3. ASSUME NEW h \in Handles, NEW c \in CallRecord, Ending(h, c) PROVE Single'
    <3>1. CalledIds' = CalledIds /\ QueuedIds' = QueuedIds /\ UNCHANGED waiting
      BY <2>3, SameCalled, SameQueued DEF Ending, clientVars
    <3>2. CASE UNCHANGED <<toClient, recv_acklist>>
      <4>1. /\ SentIds' = SentIds /\ Pending' = Pending
            /\ NoneTwice(recv_acklist') /\ \A g \in Handles : AcksOnce(toClient'[g])
        BY <1>0, <3>2, SameSent, SamePending
      <4>2. QED BY <2>0, <3>1, <4>1, SingleStays
    <3>3. ASSUME NEW d \in CallRecord,
                 Calls(recv_acklist) = Calls(recv_acklist') \cup {d},
                 NoneTwice(recv_acklist)
                    => NoneTwice(recv_acklist') /\ Apart(Calls(recv_acklist'), {d}),
                 Ack(d.ack_id, "OK", Id(d)) \in AckPacket,
                 Relay(d.send_pid, Ack(d.ack_id, "OK", Id(d)))
          PROVE  Single'
      <4>1. Id(d) \in Pending /\ Pending' \subseteq Pending \ {Id(d)} /\ NoneTwice(recv_acklist')
        BY <1>0, <3>3, CallParts DEF Pending, Apart
      <4>2. Id(d) \in ToCome /\ Id(d) \notin CalledIds \cup QueuedIds \cup SentIds
        BY <4>1 DEF ToCome, Single
      <4>3. Ack(d.ack_id, "OK", Id(d)).ack_id = d.ack_id
        BY OwnAnswer
      <4>4. SentIds' \subseteq SentIds \cup {Id(d)}
        BY <3>1, <3>3, <4>3, AnsweredOrGone
      <4>5. \A g \in Handles : AcksOnce(toClient'[g])
        BY <3>3, <4>2, <4>3, NewAnswerOnce
      <4>6. QED BY <2>0, <3>1, <4>1, <4>2, <4>4, <4>5, SingleMoves
    <3>4. QED BY <2>3, <3>2, <3>3, EndingOwn
  <2>4. CASE Listens
    <3>1. /\ CalledIds' = CalledIds /\ QueuedIds' = QueuedIds
          /\ SentIds' = SentIds /\ Pending' = Pending
      BY <2>4, SameCalled, SameQueued, SamePending, SameSent DEF Listens
    <3>2. NoneTwice(recv_acklist') /\ \A g \in Handles : AcksOnce(toClient'[g])
      BY <1>0, <2>4 DEF Listens
    <3>3. QED BY <2>0, <3>1, <3>2, SingleStays
  <2>5. CASE Expires
    <3>1. CalledIds' = CalledIds /\ QueuedIds' = QueuedIds
      BY <2>5, SameSocket, SameCalled, SameQueued DEF Expires
    <3>2. /\ recv_acklist \in Seq(CallRecord)
          /\ \A c \in Calls(recv_acklist) : c \in CallRecord /\ Id(c) \in CallIds
      BY CallsInList, CallParts DEF TypeOK
    <3>3. ASSUME NEW id \in Pending'
          PROVE  \E c \in Calls(recv_acklist) : Id(c) = id /\ ~Expired(Counted(c))
      <4>1. PICK d \in Calls(recv_acklist') : Id(d) = id
        BY DEF Pending
      <4>2. PICK c \in Calls(recv_acklist) : d = Counted(c) /\ ~Expired(Counted(c))
        BY <2>5, <4>1 DEF Expires
      <4>3. QED BY <3>2, <4>1, <4>2, CountedParts
    <3>4. ASSUME NEW id \in SentIds', id \notin SentIds
          PROVE  \E c \in Calls(recv_acklist) : Id(c) = id /\ Expired(Counted(c))
      <4>1. id \in CallIds /\ id[1] \in Handles /\ id = <<id[1], id[2]>>
        BY <3>4, IdParts DEF SentIds
      <4>2. PICK a \in AcksIn(toClient'[id[1]]) : a.ack_id = id[2]
        BY <3>4 DEF SentIds
      <4>3. a \notin AcksIn(toClient[id[1]])
        BY <3>4, <4>1, <4>2 DEF SentIds
      <4>4. PICK c \in Ended(id[1]) : a = Ack(c.ack_id, "TIMEOUT", Id(c))
        BY <2>5, <4>1, <4>2, <4>3 DEF Expires
      <4>5. c \in Calls(recv_acklist) /\ Expired(Counted(c)) /\ c.send_pid = id[1]
        BY DEF Ended
      <4>6. c.ack_id = id[2]
        BY <4>2, <4>4 DEF Ack
      <4>7. Id(c) = id
        BY <4>1, <4>5, <4>6 DEF Id
      <4>8. QED BY <4>5, <4>7
    <3>5. Pending' \subseteq Pending /\ SentIds' \subseteq SentIds \cup Pending
      BY <3>2, <3>3, <3>4 DEF Pending
    <3>6. Pending' \cap SentIds' = {}
      <4>1. ASSUME NEW id \in Pending', id \in SentIds' PROVE FALSE
        <5>1. id \notin SentIds
          BY <3>5, <4>1 DEF Single
        <5>2. PICK c \in Calls(recv_acklist) : Id(c) = id /\ ~Expired(Counted(c))
          BY <3>3, <4>1
        <5>3. PICK d \in Calls(recv_acklist) : Id(d) = id /\ Expired(Counted(d))
          BY <3>4, <4>1, <5>1
        <5>4. c = d
          BY <1>0, <3>2, <5>2, <5>3, OnceInList
        <5>5. QED BY <5>2, <5>3, <5>4
      <4>2. QED BY <4>1
    <3>7. ASSUME NEW h \in Handles PROVE AcksOnce(toClient'[h])
      <4>1. ASSUME NEW a \in AcksIn(toClient[h]), NEW c \in Ended(h), a.ack_id = c.ack_id
            PROVE  FALSE
        <5>1. c \in Calls(recv_acklist) /\ c.send_pid = h
          BY DEF Ended
        <5>2. /\ c \in CallRecord /\ Id(c) \in CallIds
              /\ Id(c)[1] = h /\ Id(c)[2] = c.ack_id
          BY <3>2, <5>1, CallParts
        <5>3. Id(c) \in Pending /\ Id(c) \in SentIds
          BY <4>1, <5>1, <5>2 DEF Pending, SentIds
        <5>4. QED BY <5>3 DEF Single
      <4>2. QED BY <1>0, <2>5, <4>1 DEF Expires
    <3>8. NoneTwice(recv_acklist')
      BY <1>0, <2>5 DEF Expires
    <3>9. (NoneTwice(recv_acklist) /\ \A h \in Handles : AcksOnce(toClient[h]))'
      BY <3>7, <3>8 DEF NoneTwice, AcksOnce
    <3>10. \A id \in ToCome' : alive'[id[1]] => id \in Open'
      <4>1. ToCome' \subseteq ToCome
        BY <3>1, <3>5 DEF ToCome
      <4>2. QED BY <2>0, <4>1 DEF Single
    <3>11. /\ (CalledIds \cap QueuedIds = {})'
           /\ (Pending \cap (CalledIds \cup QueuedIds) = {})'
           /\ (SentIds \cap (CalledIds \cup QueuedIds \cup Pending) = {})'
      BY <3>1, <3>5, <3>6 DEF Single
    <3>12. QED BY <3>9, <3>10, <3>11 DEF Single
  <2>6. QED BY <1>2, <2>1, <2>2, <2>3, <2>4, <2>5 DEF DaemonEffect
<1>3. QED BY <1>1, <1>2, Effects

LEMMA SingleInitially == ASSUME Init PROVE Single
<1>1. /\ toDaemon = <<>> /\ recv_alist = <<>> /\ recv_acklist = <<>>
      /\ \A h \in Handles : toClient[h] = <<>>
  BY DEF Init
<1>2. /\ Called = {} /\ Calls(recv_alist) = {} /\ Calls(recv_acklist) = {}
      /\ NoneTwice(recv_acklist)
      /\ \A h \in Handles : AcksIn(toClient[h]) = {} /\ AcksOnce(toClient[h])
  BY <1>1, SaidOfNone DEF Called, Calls, NoneTwice, AcksIn, AcksOnce
<1>3. CalledIds = {} /\ QueuedIds = {} /\ Pending = {} /\ SentIds = {}
  BY <1>2, IdParts DEF CalledIds, QueuedIds, Pending, SentIds
<1>4. QED BY <1>2, <1>3 DEF Single, ToCome

\* As long as packets are not too large and no program takes an api back, a call that
\* waits has one source of an answer and one that an answer ended has none, unless its
\* own handle leaves: no answer is lost and none is given twice.
THEOREM OneAnswerComes ==
    ASSUME ~MayUnregister, "large" \notin Sizes PROVE Spec => []OneAnswerToCome
<1> DEFINE Inv == Paired /\ NoneForgotten /\ Single
<1>1. Init => Paired
  BY PlacedInitially, WaitersInitially, NumbersInitially, OwnInitially DEF Paired
<1>2. Init => Inv
  BY <1>1, NoneForgottenInitially, SingleInitially
<1>3. Inv /\ [Next]_vars => Inv'
  <2> SUFFICES ASSUME Inv, [Next]_vars PROVE Inv'
    OBVIOUS
  <2>1. /\ TypeOK /\ EachOnce /\ Waiters /\ Numbers /\ Registered /\ AckAnswersOwnCall
        /\ TypeOK'
    BY StepTypes DEF Paired, Placed
  <2>2. Paired'
    BY StepTypes, PlacedStep, WaitersStep, NumbersStep, RegisteredStep, OwnAnswersStep,
       OwnResultsStep DEF Paired, Placed
  <2>3. NoneForgotten'
    BY <2>1, ForgetsNone
  <2>4. Single'
    BY <2>1, SingleStep
  <2>5. QED BY <2>2, <2>3, <2>4
<1>4. Inv => OneAnswerToCome
  <2> SUFFICES ASSUME Inv, NEW id \in CallIds, alive[id[1]], ~Exited(id[1])
               PROVE  IF Waits(id) THEN Sources(id) = 1
                                   ELSE Sources(id) <= IF Interrupted(id) THEN 1 ELSE 0
    BY DEF OneAnswerToCome
  <2>1. /\ TypeOK /\ CalledOnce /\ NoneTwice(recv_alist) /\ NoneTwice(recv_acklist)
        /\ AcksOnce(toClient[id[1]])
    BY IdParts DEF Paired, Placed, EachOnce, Single
  <2>2. ASSUME id \in ToCome PROVE Sources(id) = 1
    <3>2. 1 + 0 + 0 + 0 = 1 /\ 0 + 1 + 0 + 0 = 1 /\ 0 + 0 + 1 + 0 = 1 /\ 0 + 0 + 0 + 1 = 1
      OBVIOUS
    <3>3. CASE id \in CalledIds
      <4>1. id \notin QueuedIds /\ id \notin Pending /\ id \notin SentIds
        BY <3>3 DEF Single
      <4>2. QED BY <2>1, <2>2, <3>2, <3>3, <4>1, SourceCounts, SourcesSum, Zenon
    <3>4. CASE id \in QueuedIds
      <4>1. id \notin CalledIds /\ id \notin Pending /\ id \notin SentIds
        BY <3>4 DEF Single
      <4>2. QED BY <2>1, <2>2, <3>2, <3>4, <4>1, SourceCounts, SourcesSum, Zenon
    <3>5. CASE id \in Pending
      <4>1. id \notin CalledIds /\ id \notin QueuedIds /\ id \notin SentIds
        BY <3>5 DEF Single
      <4>2. QED BY <2>1, <2>2, <3>2, <3>5, <4>1, SourceCounts, SourcesSum, Zenon
    <3>6. CASE id \in SentIds
      <4>1. id \notin CalledIds /\ id \notin QueuedIds /\ id \notin Pending
        BY <3>6 DEF Single
      <4>2. QED BY <2>1, <2>2, <3>2, <3>6, <4>1, SourceCounts, SourcesSum, Zenon
    <3>7. QED BY <2>2, <3>3, <3>4, <3>5, <3>6 DEF ToCome
  <2>3. ASSUME id \notin ToCome PROVE Sources(id) = 0
    <3>2. id \notin CalledIds /\ id \notin QueuedIds /\ id \notin Pending /\ id \notin SentIds
      BY <2>3 DEF ToCome
    <3>3. 0 + 0 + 0 + 0 = 0
      OBVIOUS
    <3>4. QED BY <2>1, <2>3, <3>2, <3>3, SourceCounts, SourcesSum, Zenon
  <2>4. Waits(id) => id \in ToCome
    BY DEF NoneForgotten, Owed, Awaited
  <2>5. ~Waits(id) /\ ~Interrupted(id) => id \notin ToCome
    BY DEF Single, Open
  <2>6. QED BY <2>2, <2>3, <2>4, <2>5
<1> HIDE DEF Inv
<1>5. QED BY <1>2, <1>3, <1>4, PTL DEF Spec

-----------------------------------------------------------------------------
\* The promises of Rpc

\* What the caller knows of the call id, when it has made num calls and got the
\* results heard.
StatusFrom(id, num, heard) ==
    CASE id[2] >= num -> "idle"
      [] id[2] + 1 \in DOMAIN heard -> IF heard[id[2] + 1].of = id
                                         THEN heard[id[2] + 1].ack_result
                                         ELSE "foreign"
      [] OTHER -> "pending"
Status == [id \in CallIds |-> StatusOf(id)]

LEMMA StatusParts ==
    ASSUME NEW id \in CallIds, NEW num \in Nat, NEW heard \in Seq(Result), Len(heard) <= num
    PROVE  /\ id[2] >= num => StatusFrom(id, num, heard) = "idle"
           /\ id[2] < num /\ id[2] >= Len(heard) => StatusFrom(id, num, heard) = "pending"
           /\ id[2] < Len(heard) =>
                 /\ heard[id[2] + 1].of = id
                       => StatusFrom(id, num, heard) = heard[id[2] + 1].ack_result
                 /\ heard[id[2] + 1].of # id => StatusFrom(id, num, heard) = "foreign"
<1>1. id[2] \in Nat
  BY IdParts
<1>2. Len(heard) \in Nat /\ DOMAIN heard = 1..Len(heard)
  OBVIOUS
<1>3. CASE id[2] >= num
  <2>1. id[2] + 1 \notin DOMAIN heard /\ ~(id[2] < num) /\ ~(id[2] < Len(heard))
    BY <1>1, <1>2, <1>3
  <2>2. StatusFrom(id, num, heard) = "idle"
    BY <1>3, <2>1 DEF StatusFrom
  <2>3. QED BY <2>1, <2>2
<1>4. CASE id[2] < num /\ id[2] >= Len(heard)
  <2>1. id[2] + 1 \notin DOMAIN heard /\ ~(id[2] >= num) /\ ~(id[2] < Len(heard))
    BY <1>1, <1>2, <1>4
  <2>2. StatusFrom(id, num, heard) = "pending"
    BY <2>1 DEF StatusFrom
  <2>3. QED BY <2>1, <2>2
<1>5. CASE id[2] < Len(heard)
  <2>1. id[2] + 1 \in DOMAIN heard /\ ~(id[2] >= num) /\ ~(id[2] >= Len(heard))
    BY <1>1, <1>2, <1>5
  <2>2. /\ heard[id[2] + 1].of = id
              => StatusFrom(id, num, heard) = heard[id[2] + 1].ack_result
        /\ heard[id[2] + 1].of # id => StatusFrom(id, num, heard) = "foreign"
    BY <2>1 DEF StatusFrom
  <2>3. QED BY <2>1, <2>2
<1>6. QED BY <1>1, <1>2, <1>3, <1>4, <1>5

LEMMA StatusNow ==
    /\ Status = [id \in CallIds |-> StatusFrom(id, api_ack_magic_num[id[1]], results[id[1]])]
    /\ Status' = [id \in CallIds |-> StatusFrom(id, api_ack_magic_num'[id[1]], results'[id[1]])]
BY DEF Status, StatusOf, StatusFrom

LEMMA StatusChanges ==
    ASSUME NEW i, NEW x,
           \A id \in CallIds : Status'[id] = [Status EXCEPT ![i] = x][id]
    PROVE  Status' = [Status EXCEPT ![i] = x]
<1> DEFINE F == [Status EXCEPT ![i] = x]
<1>1. Status' = [id \in CallIds |-> Status'[id]]
  BY DEF Status
<1>2. DOMAIN Status = CallIds
  BY DEF Status
<1>3. F = [id \in CallIds |-> F[id]]
  BY <1>2
<1>4. QED BY <1>1, <1>3

LEMMA SameStatus ==
    ASSUME UNCHANGED <<api_ack_magic_num, results>> PROVE Status' = Status
BY StatusNow

\* What LastCall and the types say of a caller.
LEMMA CallerParts ==
    ASSUME TypeOK, Waiters, NEW h \in Handles
    PROVE  /\ api_ack_magic_num[h] \in Nat
           /\ results[h] \in Seq(Result) /\ Len(results[h]) \in Nat
           /\ Len(results[h]) <= api_ack_magic_num[h]
           /\ waiting[h] # <<>> => Len(results[h]) < api_ack_magic_num[h]
<1>1. /\ api_ack_magic_num[h] \in Nat /\ results[h] \in Seq(Result)
      /\ Len(results[h]) \in Nat /\ Len(waiting[h]) \in Nat
      /\ waiting[h] \in Seq(CallRecord) /\ Len(waiting[h]) <= 1
  <2>1. /\ api_ack_magic_num[h] \in 0..MaxCalls /\ results[h] \in Seq(Result)
        /\ waiting[h] \in Seq(CallRecord) /\ Len(waiting[h]) <= 1
    BY DEF TypeOK
  <2>2. QED BY <2>1, BoundsAssumption
<1>2. Len(results[h]) + Len(waiting[h]) <= api_ack_magic_num[h]
  BY DEF Waiters, LastCall
<1>3. waiting[h] # <<>> => Len(waiting[h]) = 1
  BY <1>1, OneWaits
<1>4. \A m, n, k \in Nat : m + n <= k => m <= k /\ (n = 1 => m < k)
  OBVIOUS
<1>5. QED BY <1>1, <1>2, <1>3, <1>4, Zenon

LEMMA IssueStep ==
    ASSUME Paired, NEW h \in Handles, NEW c \in CallRecord, NEW size, Issues(h, size, c)
    PROVE  R!Issue(Id(c))
<1>1. TypeOK /\ Waiters
  BY DEF Paired, Placed
<1>2. /\ c.send_pid = h /\ c.ack_id = api_ack_magic_num[h]
      /\ api_ack_magic_num' = [api_ack_magic_num EXCEPT ![h] = @ + 1]
      /\ results' = results /\ ran' = ran
  BY DEF Issues
<1>3. Id(c) \in CallIds /\ Id(c)[1] = h /\ Id(c)[2] = api_ack_magic_num[h]
  BY <1>2, CallParts
<1> DEFINE num == api_ack_magic_num[h]
           heard == results[h]
<1>4. /\ num \in Nat /\ heard \in Seq(Result) /\ Len(heard) \in Nat /\ Len(heard) <= num
      /\ api_ack_magic_num'[h] = num + 1 /\ results'[h] = heard
      /\ \A g \in Handles : g # h => api_ack_magic_num'[g] = api_ack_magic_num[g]
  BY <1>1, <1>2, CallerParts DEF TypeOK
<1>5. Id(c)[2] = num
  BY <1>3
<1> HIDE DEF num, heard
<1>6. /\ num >= num /\ num < num + 1 /\ num >= Len(heard) /\ num + 1 \in Nat
      /\ Len(heard) <= num + 1
  BY <1>4
<1>7. StatusFrom(Id(c), num, heard) = "idle" /\ StatusFrom(Id(c), num + 1, heard) = "pending"
  BY <1>3, <1>4, <1>5, <1>6, StatusParts
<1>8. ASSUME NEW id \in CallIds, id # Id(c)
      PROVE  StatusFrom(id, api_ack_magic_num'[id[1]], results'[id[1]])
                = StatusFrom(id, api_ack_magic_num[id[1]], results[id[1]])
  <2>1. id[1] \in Handles /\ id[2] \in Nat /\ id = <<id[1], id[2]>>
    BY IdParts
  <2>2. CASE id[1] # h
    BY <1>2, <1>4, <2>1, <2>2
  <2>3. CASE id[1] = h
    <3>1. id[2] # num
      BY <1>2, <1>8, <2>1, <2>3 DEF Id, num
    <3>2. /\ id[2] >= num <=> id[2] >= num + 1
          /\ id[2] < num <=> id[2] < num + 1
          /\ id[2] >= num \/ id[2] < num
          /\ id[2] >= Len(heard) \/ id[2] < Len(heard)
      BY <1>4, <2>1, <3>1
    <3>3. StatusFrom(id, num + 1, heard) = StatusFrom(id, num, heard)
      BY <1>4, <1>6, <3>2, StatusParts
    <3>4. QED BY <1>4, <2>3, <3>3 DEF num, heard
  <2>4. QED BY <2>2, <2>3
<1>9. Status[Id(c)] = "idle" /\ Status' = [Status EXCEPT ![Id(c)] = "pending"]
  <2>1. Status[Id(c)] = "idle"
    BY <1>3, <1>7, StatusNow DEF num, heard
  <2>2. StatusFrom(Id(c), api_ack_magic_num'[h], results'[h]) = "pending"
    BY <1>4, <1>7
  <2>3. \A id \in CallIds : Status'[id] = [Status EXCEPT ![Id(c)] = "pending"][id]
    BY <1>3, <1>8, <2>2, StatusNow
  <2>4. Status' = [Status EXCEPT ![Id(c)] = "pending"]
    BY <2>3, StatusChanges
  <2>5. QED BY <2>1, <2>4
<1>10. QED BY <1>2, <1>9 DEF R!Issue, Status

\* The call of h with this id returns, with the answer a.
ReturnsWith(h, id, a) ==
    /\ id \in CallIds /\ id[1] = h /\ id[2] = Len(results[h])
    /\ waiting[h] # <<>>
    /\ results'[h] \in Seq(Result)
    /\ Len(results'[h]) = Len(results[h]) + 1
    /\ results'[h][Len(results[h]) + 1].ack_result = a
    /\ results'[h][Len(results[h]) + 1].of = id
    /\ \A k \in 1..Len(results[h]) : results'[h][k] = results[h][k]
    /\ \A g \in Handles : g # h => results'[g] = results[g]
    /\ UNCHANGED <<api_ack_magic_num, ran>>

LEMMA ReturnedStatus ==
    ASSUME TypeOK, Waiters, NEW h \in Handles, NEW id, NEW a, ReturnsWith(h, id, a)
    PROVE  Status[id] = "pending" /\ Status' = [Status EXCEPT ![id] = a]
<1> DEFINE num == api_ack_magic_num[h]
<1>2. /\ Len(results'[h]) = Len(results[h]) + 1
      /\ results'[h][Len(results[h]) + 1].ack_result = a
      /\ results'[h][Len(results[h]) + 1].of = id
      /\ \A k \in 1..Len(results[h]) : results'[h][k] = results[h][k]
      /\ waiting[h] # <<>>
      /\ \A g \in Handles : g # h => results'[g] = results[g]
      /\ UNCHANGED <<api_ack_magic_num, ran>>
      /\ results'[h] \in Seq(Result)
  BY DEF ReturnsWith
<1>4. id \in CallIds /\ id[1] = h /\ id[2] = Len(results[h])
  BY DEF ReturnsWith
<1>6. /\ num \in Nat /\ results[h] \in Seq(Result) /\ Len(results[h]) \in Nat
      /\ Len(results[h]) < num
  BY <1>2, CallerParts
<1> HIDE DEF num
<1>7. /\ id[2] < num /\ id[2] >= Len(results[h]) /\ Len(results[h]) <= num
      /\ id[2] < Len(results'[h]) /\ Len(results'[h]) <= num
      /\ id[2] + 1 = Len(results[h]) + 1
  BY <1>2, <1>4, <1>6
<1>8. StatusFrom(id, num, results[h]) = "pending"
  BY <1>4, <1>6, <1>7, StatusParts
<1>9. StatusFrom(id, num, results'[h]) = a
  <2>1. results'[h][id[2] + 1].of = id /\ results'[h][id[2] + 1].ack_result = a
    BY <1>2, <1>7
  <2>2. StatusFrom(id, num, results'[h]) = results'[h][id[2] + 1].ack_result
    BY <1>2, <1>4, <1>6, <1>7, <2>1, StatusParts
  <2>3. QED BY <2>1, <2>2
<1>10. ASSUME NEW i \in CallIds, i # id
       PROVE  StatusFrom(i, api_ack_magic_num'[i[1]], results'[i[1]])
                 = StatusFrom(i, api_ack_magic_num[i[1]], results[i[1]])
  <2>1. i[1] \in Handles /\ i[2] \in Nat /\ i = <<i[1], i[2]>>
    BY IdParts
  <2>2. CASE i[1] # h
    BY <1>2, <2>1, <2>2
  <2>3. CASE i[1] = h
    <3>0. id = <<id[1], id[2]>>
      BY <1>4, IdParts
    <3>1. i[2] # Len(results[h])
      BY <1>4, <1>10, <2>1, <2>3, <3>0
    <3>2. CASE i[2] < Len(results[h])
      <4>1. i[2] + 1 \in 1..Len(results[h]) /\ i[2] < Len(results'[h])
        BY <1>2, <1>6, <2>1, <3>2
      <4>2. results'[h][i[2] + 1] = results[h][i[2] + 1]
        BY <1>2, <4>1
      <4>3. StatusFrom(i, num, results'[h]) = StatusFrom(i, num, results[h])
        BY <1>2, <1>6, <1>7, <3>2, <4>1, <4>2, StatusParts
      <4>4. QED BY <1>2, <2>3, <4>3 DEF num
    <3>3. CASE i[2] > Len(results[h])
      <4>1. /\ i[2] >= Len(results[h]) /\ i[2] >= Len(results'[h])
            /\ i[2] >= num \/ i[2] < num
        BY <1>2, <1>6, <2>1, <3>3
      <4>2. StatusFrom(i, num, results'[h]) = StatusFrom(i, num, results[h])
        BY <1>2, <1>6, <1>7, <4>1, StatusParts
      <4>3. QED BY <1>2, <2>3, <4>2 DEF num
    <3>4. QED BY <1>6, <2>1, <3>1, <3>2, <3>3
  <2>4. QED BY <2>2, <2>3
<1>11. Status[id] = "pending"
  BY <1>4, <1>8, StatusNow DEF num
<1>12. Status'[id] = a
  BY <1>2, <1>4, <1>9, StatusNow DEF num
<1>13. \A i \in CallIds : Status'[i] = [Status EXCEPT ![id] = a][i]
  BY <1>10, <1>12, StatusNow
<1>14. Status' = [Status EXCEPT ![id] = a]
  BY <1>13, StatusChanges
<1>15. QED BY <1>11, <1>14

LEMMA ReturnStep ==
    ASSUME Paired, NEW h \in Handles, NEW a \in AckPacket, Answers(h, a), results'[h] # results[h]
    PROVE  R!Return(<<h, a.ack_id>>)
<1> DEFINE id == <<h, a.ack_id>>
<1>1. TypeOK /\ Waiters /\ OwnAnswers /\ History
  BY DEF Paired, Placed
<1>2. /\ Len(results'[h]) = Len(results[h]) + 1
      /\ results'[h][Len(results[h]) + 1].ack_result = a.ack_result
      /\ results'[h][Len(results[h]) + 1].of = a.of
      /\ \A k \in 1..Len(results[h]) : results'[h][k] = results[h][k]
      /\ waiting[h] # <<>> /\ waiting[h][1].ack_id = a.ack_id
      /\ \A g \in Handles : g # h => results'[g] = results[g]
      /\ UNCHANGED <<api_ack_magic_num, ran>>
  BY <1>1, LastResult DEF Answers
<1>3. a \in AcksIn(toClient[h])
  BY DEF Answers
<1>4. a.of = id /\ id \in CallIds /\ a.ack_result \in AckResults
  BY <1>1, <1>3, PacketParts DEF OwnAnswers
<1>5. a.ack_id = Len(results[h]) /\ id[1] = h /\ id[2] = Len(results[h])
  BY <1>1, <1>2 DEF Waiters, LastCall
<1>6. results'[h] \in Seq(Result)
  <2>0. results[h] \in Seq(Result)
    BY <1>1 DEF TypeOK
  <2>1. [ack_result |-> a.ack_result, of |-> a.of] \in Result
    BY PacketParts DEF Result
  <2>2. Append(results[h], [ack_result |-> a.ack_result, of |-> a.of]) \in Seq(Result)
    BY <2>0, <2>1, AppendedTo
  <2>3. results' = [results EXCEPT ![h] =
                       Append(@, [ack_result |-> a.ack_result, of |-> a.of])]
    BY DEF Answers
  <2>4. QED BY <1>1, <2>2, <2>3 DEF TypeOK
<1> HIDE DEF id
<1>7. ReturnsWith(h, id, a.ack_result)
  BY <1>2, <1>4, <1>5, <1>6 DEF ReturnsWith
<1>8. Status[id] = "pending" /\ Status' = [Status EXCEPT ![id] = a.ack_result]
  BY <1>1, <1>7, ReturnedStatus
<1>12. a.ack_result = "OK" => ran[id] = 1
  <2>1. a.ack_result = "OK" => id \in ToldOk
    BY <1>3, <1>4 DEF ToldOk, Told
  <2>2. QED BY <1>1, <2>1 DEF History
<1>13. a.ack_result \in R!NotFound => ran[id] = 0
  <2>1. a.ack_result \in R!NotFound => id \in ToldNotFound
    BY <1>3, <1>4 DEF ToldNotFound, Told, R!NotFound
  <2>2. QED BY <1>1, <2>1 DEF History
<1>14. a.ack_result \in R!Answers
  BY <1>4 DEF AckResults, R!Answers, R!NotFound
<1>15. ran' = ran
  BY <1>2
<1>16. R!Return(id)
  BY <1>8, <1>12, <1>13, <1>14, <1>15 DEF R!Return, Status
<1>17. QED BY <1>16 DEF id

LEMMA InterruptStep ==
    ASSUME Paired, NEW h \in Handles, CallInterrupted(h)
    PROVE  \E id \in CallIds : R!Return(id)
<1> DEFINE id == Id(waiting[h][1])
<1>1. TypeOK /\ Waiters
  BY DEF Paired, Placed
<1>2. GivesUp(h)
  BY <1>1, GivenUp
<1>3. waiting[h][1] \in CallRecord /\ waiting[h] # <<>>
  BY <1>2 DEF GivesUp
<1>4. waiting[h][1].send_pid = h /\ waiting[h][1].ack_id = Len(results[h])
  BY <1>1, <1>3 DEF Waiters, LastCall
<1>5. id \in CallIds /\ id[1] = h /\ id[2] = Len(results[h])
  BY <1>3, <1>4, CallParts
<1>6. UNCHANGED <<api_ack_magic_num, ran>>
  BY DEF CallInterrupted
<1>7. ReturnsWith(h, id, "INTERRUPTED")
  BY <1>2, <1>5, <1>6 DEF ReturnsWith, GivesUp
<1> HIDE DEF id
<1>8. Status[id] = "pending" /\ Status' = [Status EXCEPT ![id] = "INTERRUPTED"]
  BY <1>1, <1>7, ReturnedStatus
<1>9. R!Return(id)
  BY <1>6, <1>8 DEF R!Return, R!Answers, R!NotFound, Status
<1>10. QED BY <1>5, <1>9

LEMMA RunStep ==
    ASSUME Paired, NEW h \in Handles, NEW c \in CallRecord, Begins(h, c)
    PROVE  R!Run(Id(c))
<1>1. TypeOK /\ Waiters /\ History
  BY DEF Paired, Placed
<1>2. Id(c) \in CallIds
  BY CallParts
<1>3. Id(c) \in Unstarted
  <2>1. At("arrived", h, c)
    BY DEF Begins, At
  <2>2. QED BY <1>2, <2>1 DEF Unstarted
<1>4. ran[Id(c)] = 0 /\ Id(c) \in CallsMade /\ Id(c) \notin ToldNotFound
  BY <1>1, <1>3 DEF History
<1> DEFINE id == Id(c)
           g == id[1]
           num == api_ack_magic_num[g]
           heard == results[g]
<1>5. /\ g \in Handles /\ num \in Nat /\ heard \in Seq(Result) /\ Len(heard) \in Nat
      /\ Len(heard) <= num /\ id[2] \in Nat /\ id[2] < num
  <2>1. g \in Handles /\ id[2] \in Nat
    BY <1>2, IdParts
  <2>2. id[2] < num
    BY <1>4 DEF CallsMade
  <2>3. QED BY <1>1, <2>1, <2>2, CallerParts
<1>6. id \in CallIds /\ id \notin ToldNotFound /\ Status[id] = StatusFrom(id, num, heard)
  BY <1>2, <1>4, StatusNow
<1> HIDE DEF id, num, heard
<1>7. StatusFrom(id, num, heard) \notin R!NotFound \cup {"idle"}
  <2>1. CASE id[2] >= Len(heard)
    <3>1. StatusFrom(id, num, heard) = "pending"
      BY <1>5, <1>6, <2>1, StatusParts
    <3>2. QED BY <3>1 DEF R!NotFound
  <2>2. CASE id[2] < Len(heard)
    <3>1. id[2] + 1 \in 1..Len(heard)
      BY <1>5, <2>2
    <3>2. heard[id[2] + 1].of # id =>
             StatusFrom(id, num, heard) = "foreign"
      BY <1>5, <1>6, <2>2, StatusParts
    <3>3. ASSUME heard[id[2] + 1].of = id
          PROVE  StatusFrom(id, num, heard) \notin R!NotFound \cup {"idle"}
      <4>1. StatusFrom(id, num, heard) = heard[id[2] + 1].ack_result
        BY <1>5, <1>6, <2>2, <3>3, StatusParts
      <4>2. heard[id[2] + 1] \in Result
        BY <1>5, <3>1
      <4>3. heard[id[2] + 1].ack_result \in AckResults \cup {"INTERRUPTED"}
        BY <4>2 DEF Result
      <4>4. heard[id[2] + 1].ack_result \notin {"CANTFIND_PROGRAM", "CANTFIND_API"}
        BY <1>5, <1>6, <3>1, <3>3 DEF ToldNotFound, Told, heard
      <4>5. QED BY <4>1, <4>3, <4>4 DEF AckResults, R!NotFound
    <3>4. QED BY <3>2, <3>3 DEF R!NotFound
  <2>3. QED BY <1>5, <2>1, <2>2
<1>8. Status' = Status
  BY SameStatus DEF Begins
<1>9. ran' = [ran EXCEPT ![id] = 1]
  <2>1. ran' = [ran EXCEPT ![Id(c)] = ran[Id(c)] + 1]
    BY DEF Begins
  <2>2. QED BY <1>4, <2>1 DEF id
<1>10. R!Run(id)
  BY <1>4, <1>6, <1>7, <1>8, <1>9 DEF R!Run, Status, id
<1>11. QED BY <1>10 DEF id

\* Each step of a call's path is a step of Rpc, or none.
LEMMA StepIsRpcStep ==
    ASSUME Paired, [Next]_vars
    PROVE  [R!Next]_<<Status, ran>>
<1>1. TypeOK
  BY DEF Paired, Placed
<1>2. UNCHANGED <<api_ack_magic_num, results, ran>> => UNCHANGED <<Status, ran>>
  BY SameStatus
<1>3. ASSUME NEW h \in Handles, NEW size, NEW c \in CallRecord, Asks(h, size, c)
      PROVE  R!Next
  BY <1>3, IssueStep, CallParts DEF Asks, R!Next
<1>4. ASSUME NEW h \in Handles, NEW c \in CallRecord, Begins(h, c) PROVE R!Next
  BY <1>4, RunStep, CallParts DEF R!Next
<1>5. ASSUME NEW h \in Handles, NEW a \in AckPacket, Answers(h, a)
      PROVE  R!Next \/ UNCHANGED <<Status, ran>>
  <2>1. CASE results'[h] # results[h]
    <3>1. R!Return(<<h, a.ack_id>>)
      BY <1>5, <2>1, ReturnStep
    <3>2. waiting[h] # <<>> /\ waiting[h][1].ack_id = a.ack_id
      BY <1>1, <1>5, <2>1, LastResult
    <3>3. h \in Callers
      BY <3>2 DEF Paired, Waiters, LastCall
    <3>4. <<h, a.ack_id>> \in CallIds
      BY <3>3, PacketParts DEF CallIds
    <3>5. QED BY <3>1, <3>4 DEF R!Next
  <2>2. CASE results'[h] = results[h]
    <3>1. \A g \in Handles : results'[g] = results[g]
      BY <1>1, <1>5, <2>2, LastResult
    <3>2. results' = results
      <4>1. results \in [Handles -> Seq(Result)]
        BY <1>1 DEF TypeOK
      <4>2. results' = results \/ \E x : results' = [results EXCEPT ![h] = x]
        BY <1>5 DEF Answers
      <4>3. QED BY <2>2, <4>1, <4>2
    <3>3. UNCHANGED <<api_ack_magic_num, ran>>
      BY <1>5 DEF Answers
    <3>4. QED BY <1>2, <3>2, <3>3
  <2>3. QED BY <2>1, <2>2
<1>6. ASSUME NEW h \in Handles, ClientEffect(h) PROVE R!Next \/ UNCHANGED <<Status, ran>>
  <2>1. CASE \/ \E c \in CallRecord : Arrives(h, c) \/ Finishes(h, c)
             \/ \E p \in DaemonPacket : Announces(h, p)
             \/ Dies(h)
    BY <1>2, <2>1 DEF Arrives, Finishes, Announces, Dies, clientVars
  <2>2. CASE CallInterrupted(h)
    BY <2>2, InterruptStep DEF R!Next
  <2>3. QED BY <1>3, <1>4, <1>5, <1>6, <2>1, <2>2 DEF ClientEffect
<1>7. ASSUME DaemonEffect PROVE UNCHANGED <<Status, ran>>
  BY <1>2, <1>7 DEF DaemonEffect, TakesCall, TakesQueued, Ending, Listens, Expires, clientVars
<1>8. QED BY <1>1, <1>6, <1>7, Effects

\* As long as no program takes an api back, the path of a call through both
\* clients and the daemon keeps the promises of Rpc: the handler runs at most
\* once and only for a call that was made, a call gets one answer, "OK" is what
\* its own handler returned, and after "can't find" the handler never runs.
THEOREM CallKeepsPromises == ASSUME ~MayUnregister PROVE Spec => RpcKept
<1>1. Init => Paired /\ R!Init
  <2>1. ASSUME Init PROVE R!Init
    <3>1. \A id \in CallIds : StatusOf(id) = "idle"
      <4>1. SUFFICES ASSUME NEW id \in CallIds PROVE StatusOf(id) = "idle"
        OBVIOUS
      <4>2. id[1] \in Handles /\ id[2] \in Nat
        BY IdParts
      <4>3. id[2] >= api_ack_magic_num[id[1]] /\ results[id[1]] = <<>>
        BY <2>1, <4>2 DEF Init
      <4>4. id[2] + 1 \notin DOMAIN results[id[1]]
        BY <4>3
      <4>5. QED BY <4>3, <4>4 DEF StatusOf
    <3>2. QED BY <2>1, <3>1 DEF Init, R!Init
  <2>2. QED BY <2>1, PlacedInitially, WaitersInitially, NumbersInitially, OwnInitially
        DEF Paired
<1>2. Paired /\ [Next]_vars => Paired' /\ [R!Next]_<<Status, ran>>
  BY StepIsRpcStep, StepTypes, PlacedStep, WaitersStep, NumbersStep, RegisteredStep,
     OwnAnswersStep, OwnResultsStep DEF Paired, Placed
<1>3. QED BY <1>1, <1>2, PTL DEF Spec, RpcKept, R!Spec, Status

=============================================================================
