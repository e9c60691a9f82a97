---------------------------- MODULE DaemonProofs ----------------------------
(***************************************************************************)
(* What is proved of the daemon besides its members, its calls and its     *)
(* work queues: of its mutexes, of the lists of dlist.c, of its log and    *)
(* the reader of the log, and of the tables of its plugins.                *)
(***************************************************************************)
EXTENDS DaemonLocks, DebugLog, Plugin, DataLemmas, FiniteSetTheorems

-----------------------------------------------------------------------------
(***************************************************************************)
(* Mutexes                                                                 *)
(*                                                                         *)
(* Threads whose turns are disciplined (they nest mutexes in one order,    *)
(* unlock all that they lock and touch data under its guard) never wait    *)
(* for each other in a circle and never touch data at the same time,       *)
(* however many they are and however they interleave. The invariant says   *)
(* that the mutexes a thread owns are the ones that HeldAt computes from   *)
(* its turn.                                                               *)
(*                                                                         *)
(* The turns of the daemon's threads are disciplined, so this holds for    *)
(* the daemon. Each piece of a turn is clean where the mutexes around it   *)
(* are locked.                                                             *)
(***************************************************************************)

OwnsWhatItHolds ==
    \A t \in Threads : \A m \in Mutexes :
        owner[m] = t <=> Busy(t) /\ m \in HeldAt(turn[t], at[t])

TurnsAreDisciplined == \A t \in Threads : Busy(t) => Disciplined(turn[t])

LocksInv == TypeOK /\ TurnsAreDisciplined /\ OwnsWhatItHolds

-----------------------------------------------------------------------------
\* The operations differ.
LEMMA OperationsDiffer ==
    /\ \A m, n : Lock(m) # Unlock(n) /\ Lock(m) # Touch(n) /\ Unlock(m) # Touch(n)
    /\ \A m, n : Lock(m) = Lock(n) \/ Unlock(m) = Unlock(n) \/ Touch(m) = Touch(n) => m = n
BY DEF Lock, Unlock, Touch

\* At the start of a turn nothing is locked.
LEMMA HeldAtStart == ASSUME NEW p PROVE HeldAt(p, 1) = {}
BY DEF HeldAt

\* What is locked changes with the operations that are done.
LEMMA HeldAfterLock ==
    ASSUME NEW p, NEW k \in Nat \ {0}, NEW m \in Mutexes, p[k] = Lock(m)
    PROVE  HeldAt(p, k + 1) = HeldAt(p, k) \cup {m}
<1>1. ASSUME NEW n \in Mutexes PROVE n \in HeldAt(p, k + 1) <=> n \in HeldAt(p, k) \cup {m}
  <2>1. CASE n = m
    BY <2>1 DEF HeldAt
  <2>2. CASE n # m
    BY <2>2, OperationsDiffer DEF HeldAt
  <2>3. QED BY <2>1, <2>2
<1>2. QED BY <1>1 DEF HeldAt

LEMMA HeldAfterUnlock ==
    ASSUME NEW p, NEW k \in Nat \ {0}, NEW m \in Mutexes, p[k] = Unlock(m)
    PROVE  HeldAt(p, k + 1) = HeldAt(p, k) \ {m}
<1>1. ASSUME NEW n \in Mutexes PROVE n \in HeldAt(p, k + 1) <=> n \in HeldAt(p, k) \ {m}
  <2>1. CASE n = m
    BY <2>1, OperationsDiffer DEF HeldAt
  <2>2. CASE n # m
    BY <2>2, OperationsDiffer DEF HeldAt
  <2>3. QED BY <2>1, <2>2
<1>2. QED BY <1>1 DEF HeldAt

LEMMA HeldAfterTouch ==
    ASSUME NEW p, NEW k \in Nat \ {0}, NEW d, p[k] = Touch(d)
    PROVE  HeldAt(p, k + 1) = HeldAt(p, k)
<1>1. ASSUME NEW n \in Mutexes PROVE n \in HeldAt(p, k + 1) <=> n \in HeldAt(p, k)
  BY OperationsDiffer DEF HeldAt
<1>2. QED BY <1>1 DEF HeldAt

-----------------------------------------------------------------------------
\* An operation that leaves the mutexes owned as HeldAt says keeps the invariant.
LEMMA AdvanceKeepsInv ==
    ASSUME LocksInv, NEW t \in Threads, Busy(t), Advance(t),
           owner' \in [Mutexes -> Threads \cup {NoOne}],
           \A m \in Mutexes : owner'[m] = t <=> m \in HeldAt(turn[t], at[t] + 1),
           \A u \in Threads \ {t} : \A m \in Mutexes : owner'[m] = u <=> owner[m] = u
    PROVE  LocksInv'
<1>1. /\ turn \in [Threads -> Seq(Operation)]
      /\ at \in [Threads -> Nat \ {0}]
      /\ at[t] \in 1..Len(turn[t])
      /\ Disciplined(turn[t])
  BY DEF LocksInv, TypeOK, TurnsAreDisciplined
<1>2. CASE at[t] = Len(turn[t])
  <2>1. turn' = [turn EXCEPT ![t] = Waiting] /\ at' = [at EXCEPT ![t] = 1]
    BY <1>2 DEF Advance
  <2>2. TypeOK'
    BY <1>1, <2>1 DEF LocksInv, TypeOK, Busy, Waiting
  <2>3. TurnsAreDisciplined'
    BY <1>1, <2>1 DEF LocksInv, TurnsAreDisciplined, Busy
  <2>4. HeldAt(turn[t], at[t] + 1) = {}
    BY <1>1, <1>2 DEF Disciplined
  <2>5. OwnsWhatItHolds'
    BY <1>1, <2>1, <2>4 DEF LocksInv, OwnsWhatItHolds, Busy
  <2>6. QED BY <2>2, <2>3, <2>5 DEF LocksInv
<1>3. CASE at[t] # Len(turn[t])
  <2>1. turn' = turn /\ at' = [at EXCEPT ![t] = @ + 1]
    BY <1>3 DEF Advance
  <2>2. TypeOK'
    BY <1>1, <1>3, <2>1 DEF LocksInv, TypeOK, Busy
  <2>3. TurnsAreDisciplined'
    BY <2>1 DEF LocksInv, TurnsAreDisciplined, Busy
  <2>4. OwnsWhatItHolds'
    BY <1>1, <2>1 DEF LocksInv, OwnsWhatItHolds, Busy
  <2>5. QED BY <2>2, <2>3, <2>4 DEF LocksInv
<1>4. QED BY <1>2, <1>3

LEMMA InitInv == Init => LocksInv
BY LockAssumption
   DEF Init, LocksInv, TypeOK, TurnsAreDisciplined, OwnsWhatItHolds, Busy, Waiting

LEMMA NextInv == ASSUME DisciplinedTurns, LocksInv, [Next]_vars PROVE LocksInv'
<1> USE LockAssumption
<1>1. ASSUME NEW t \in Threads, Begin(t) PROVE LocksInv'
  <2>1. PICK p \in Turns[t] : turn' = [turn EXCEPT ![t] = p]
    BY <1>1 DEF Begin
  <2>2. at' = [at EXCEPT ![t] = 1] /\ owner' = owner /\ ~Busy(t)
    BY <1>1 DEF Begin
  <2>3. Disciplined(p) /\ p \in Seq(Operation) /\ (p # Waiting => 1 \in 1..Len(p))
    BY DEF DisciplinedTurns, Disciplined, Waiting
  <2>4. TypeOK'
    BY <2>1, <2>2, <2>3 DEF LocksInv, TypeOK, Busy
  <2>5. TurnsAreDisciplined'
    BY <2>1, <2>3 DEF LocksInv, TypeOK, TurnsAreDisciplined, Busy
  <2>6. OwnsWhatItHolds'
    BY <2>1, <2>2, HeldAtStart DEF LocksInv, TypeOK, OwnsWhatItHolds, Busy
  <2>7. QED BY <2>4, <2>5, <2>6 DEF LocksInv
<1>2. ASSUME NEW t \in Threads, DoLock(t) PROVE LocksInv'
  <2>1. PICK m \in Mutexes : /\ IsNext(t, Lock(m))
                             /\ owner[m] = NoOne
                             /\ owner' = [owner EXCEPT ![m] = t]
                             /\ Advance(t)
    BY <1>2 DEF DoLock
  <2>2. Busy(t) /\ turn[t][at[t]] = Lock(m) /\ at[t] \in Nat \ {0}
    BY <2>1 DEF IsNext, NextOperation, LocksInv, TypeOK
  <2>3. HeldAt(turn[t], at[t] + 1) = HeldAt(turn[t], at[t]) \cup {m}
    BY <2>2, HeldAfterLock
  <2>4. owner \in [Mutexes -> Threads \cup {NoOne}] /\ OwnsWhatItHolds
    BY DEF LocksInv, TypeOK
  <2>5. owner' \in [Mutexes -> Threads \cup {NoOne}]
    BY <2>1, <2>4
  <2>6. \A n \in Mutexes : owner'[n] = t <=> n \in HeldAt(turn[t], at[t] + 1)
    BY <2>1, <2>2, <2>3, <2>4 DEF OwnsWhatItHolds
  <2>7. \A u \in Threads \ {t} : \A n \in Mutexes : owner'[n] = u <=> owner[n] = u
    BY <2>1, <2>4
  <2>8. QED
    BY <2>1, <2>2, <2>5, <2>6, <2>7, AdvanceKeepsInv
<1>3. ASSUME NEW t \in Threads, DoUnlock(t) PROVE LocksInv'
  <2>1. PICK m \in Mutexes : /\ IsNext(t, Unlock(m))
                             /\ owner' = [owner EXCEPT ![m] = NoOne]
                             /\ Advance(t)
    BY <1>3 DEF DoUnlock
  <2>2. Busy(t) /\ turn[t][at[t]] = Unlock(m) /\ at[t] \in Nat \ {0}
    BY <2>1 DEF IsNext, NextOperation, LocksInv, TypeOK
  <2>3. HeldAt(turn[t], at[t] + 1) = HeldAt(turn[t], at[t]) \ {m}
    BY <2>2, HeldAfterUnlock
  <2>4. owner \in [Mutexes -> Threads \cup {NoOne}] /\ OwnsWhatItHolds
    BY DEF LocksInv, TypeOK
  <2>5. owner[m] = t
    <3>1. Disciplined(turn[t]) /\ at[t] \in 1..Len(turn[t])
      BY <2>2 DEF LocksInv, TypeOK, TurnsAreDisciplined
    <3>2. m \in HeldAt(turn[t], at[t])
      BY <2>2, <3>1 DEF Disciplined
    <3>3. QED BY <2>2, <2>4, <3>2 DEF OwnsWhatItHolds
  <2>6. owner' \in [Mutexes -> Threads \cup {NoOne}]
    BY <2>1, <2>4
  <2>7. \A n \in Mutexes : owner'[n] = t <=> n \in HeldAt(turn[t], at[t] + 1)
    BY <2>1, <2>2, <2>3, <2>4 DEF OwnsWhatItHolds
  <2>8. \A u \in Threads \ {t} : \A n \in Mutexes : owner'[n] = u <=> owner[n] = u
    BY <2>1, <2>4, <2>5
  <2>9. QED
    BY <2>1, <2>2, <2>6, <2>7, <2>8, AdvanceKeepsInv
<1>4. ASSUME NEW t \in Threads, DoTouch(t) PROVE LocksInv'
  <2>1. PICK d \in Data : IsNext(t, Touch(d)) /\ owner' = owner /\ Advance(t)
    BY <1>4 DEF DoTouch
  <2>2. Busy(t) /\ turn[t][at[t]] = Touch(d) /\ at[t] \in Nat \ {0}
    BY <2>1 DEF IsNext, NextOperation, LocksInv, TypeOK
  <2>3. HeldAt(turn[t], at[t] + 1) = HeldAt(turn[t], at[t])
    BY <2>2, HeldAfterTouch
  <2>4. owner' \in [Mutexes -> Threads \cup {NoOne}]
    BY <2>1 DEF LocksInv, TypeOK
  <2>5. \A n \in Mutexes : owner'[n] = t <=> n \in HeldAt(turn[t], at[t] + 1)
    BY <2>1, <2>2, <2>3 DEF LocksInv, OwnsWhatItHolds
  <2>6. QED
    BY <2>1, <2>2, <2>4, <2>5, AdvanceKeepsInv
<1>5. CASE UNCHANGED vars
  BY <1>5 DEF vars, LocksInv, TypeOK, TurnsAreDisciplined, OwnsWhatItHolds, Busy
<1>6. QED BY <1>1, <1>2, <1>3, <1>4, <1>5 DEF Next

-----------------------------------------------------------------------------
\* The mutexes that a thread owns are what its place in its turn says.
THEOREM OwnershipIsKnown == ASSUME DisciplinedTurns PROVE Spec => []LocksInv
BY InitInv, NextInv, PTL DEF Spec

\* Who waits for an event has nothing locked.
THEOREM AllIsUnlocked == ASSUME DisciplinedTurns PROVE Spec => []NothingLeftLocked
<1>1. LocksInv => NothingLeftLocked
  BY DEF LocksInv, OwnsWhatItHolds, NothingLeftLocked
<1>2. QED BY <1>1, OwnershipIsKnown, PTL

\* Data is never touched by two threads at once: both would own its guard.
THEOREM DataIsGuarded == ASSUME DisciplinedTurns PROVE Spec => []RaceFree
<1>1. LocksInv => RaceFree
  <2> SUFFICES ASSUME LocksInv, NEW t \in Threads, NEW u \in Threads, NEW d \in Data,
                      IsNext(t, Touch(d)), IsNext(u, Touch(d))
               PROVE  t = u
    BY DEF RaceFree
  <2>1. ASSUME NEW x \in Threads, IsNext(x, Touch(d)) PROVE owner[Guard[d]] = x
    <3>1. Guard[d] \in HeldAt(turn[x], at[x])
      BY <2>1 DEF IsNext, NextOperation, LocksInv, TypeOK, TurnsAreDisciplined, Disciplined
    <3>2. QED
      BY <2>1, <3>1, LockAssumption DEF IsNext, LocksInv, OwnsWhatItHolds
  <2>2. QED BY <2>1
<1>2. QED BY <1>1, OwnershipIsKnown, PTL

\* Threads in a circle would wait for mutexes of ever higher rank.
LEMMA WaitsUpward ==
    ASSUME LocksInv, NEW t \in Threads, NEW u \in Threads,
           NEW m \in Mutexes, NEW n \in Mutexes,
           IsNext(t, Lock(m)), owner[m] = u, IsNext(u, Lock(n))
    PROVE  Rank[m] < Rank[n]
<1>1. m \in HeldAt(turn[u], at[u])
  BY DEF LocksInv, OwnsWhatItHolds
<1>2. at[u] \in 1..Len(turn[u]) /\ Disciplined(turn[u]) /\ turn[u][at[u]] = Lock(n)
  BY DEF LocksInv, TypeOK, TurnsAreDisciplined, IsNext, NextOperation
<1>3. QED BY <1>1, <1>2 DEF Disciplined

THEOREM NobodyWaitsInACircle == ASSUME DisciplinedTurns PROVE Spec => []NoWaitCycle
<1>1. LocksInv => NoWaitCycle
  <2> SUFFICES ASSUME LocksInv, NEW S \in SUBSET Blocked, S # {},
                      \A t \in S : \E u \in S : WaitsFor(t, u)
               PROVE  FALSE
    BY DEF NoWaitCycle
  <2> DEFINE Smaller == OpToRel(<, Nat)
             Left == {n \in Nat : \E t \in S : \E m \in Mutexes :
                         IsNext(t, Lock(m)) /\ n = MaxRank - Rank[m]}
  <2>1. \A t \in S : t \in Threads
    BY DEF Blocked
  <2>2. Left \subseteq Nat
    OBVIOUS
  <2>3. Left # {}
    <3>1. PICK t \in S, u \in S, m \in Mutexes : IsNext(t, Lock(m)) /\ owner[m] = u
      BY DEF WaitsFor
    <3>2. MaxRank - Rank[m] \in Nat
      BY LockAssumption
    <3>3. QED BY <3>1, <3>2
  <2>4. PICK n \in Left : \A k \in Left : <<k, n>> \notin Smaller
    <3> HIDE DEF Smaller, Left
    <3>1. IsWellFoundedOn(Smaller, Nat)
      BY NatLessThanWellFounded DEF Smaller
    <3>2. QED BY <3>1, <2>2, <2>3, WFMin
  <2>5. PICK t \in S, m \in Mutexes : IsNext(t, Lock(m)) /\ n = MaxRank - Rank[m]
    OBVIOUS
  <2>6. PICK u \in S : owner[m] = u
    <3>1. PICK u \in S, m2 \in Mutexes : IsNext(t, Lock(m2)) /\ owner[m2] = u
      BY DEF WaitsFor
    <3>2. m2 = m
      BY <2>5, <3>1, OperationsDiffer DEF IsNext
    <3>3. QED BY <3>1, <3>2
  <2>7. PICK o \in Mutexes : IsNext(u, Lock(o))
    BY DEF WaitsFor
  <2>8. Rank[m] < Rank[o]
    BY <2>1, <2>5, <2>6, <2>7, WaitsUpward
  <2>9. MaxRank - Rank[o] \in Left /\ MaxRank - Rank[o] < n
    BY <2>5, <2>7, <2>8, LockAssumption
  <2>10. QED BY <2>4, <2>9 DEF OpToRel
<1>2. QED BY <1>1, OwnershipIsKnown, PTL

-----------------------------------------------------------------------------
\* What makes a piece of a turn disciplined where the mutexes in H are locked: it
\* unlocks what it locks itself and nothing else.
CleanWith(p, H) ==
    /\ p \in Seq(Operation)
    /\ \A k \in 1..Len(p) :
          /\ \A m \in Mutexes :
                p[k] = Lock(m) => \A h \in H \cup HeldAt(p, k) : Rank[h] < Rank[m]
          /\ \A m \in Mutexes : p[k] = Unlock(m) => m \in HeldAt(p, k)
          /\ \A d \in Data : p[k] = Touch(d) => Guard[d] \in H \cup HeldAt(p, k)
    /\ HeldAt(p, Len(p) + 1) = {}

LEMMA CleanIsDisciplined ==
    ASSUME NEW p, CleanWith(p, {}) PROVE Disciplined(p)
BY DEF CleanWith, Disciplined

LEMMA NothingIsClean == ASSUME NEW H PROVE CleanWith(<<>>, H)
BY DEF CleanWith, HeldAt

LEMMA TouchIsClean ==
    ASSUME NEW d \in Data, NEW H, Guard[d] \in H PROVE CleanWith(<<Touch(d)>>, H)
<1> DEFINE p == <<Touch(d)>>
<1>1. p \in Seq(Operation) /\ Len(p) = 1 /\ p[1] = Touch(d)
  BY DEF Touch, Operation
<1>2. HeldAt(p, 2) = {}
  BY <1>1, OperationsDiffer DEF HeldAt
<1> HIDE DEF p
<1>3. CleanWith(p, H)
  BY <1>1, <1>2, OperationsDiffer DEF CleanWith
<1>4. QED BY <1>3 DEF p

\* Two pieces, one after the other.
LEMMA ConcatIsClean ==
    ASSUME NEW p, NEW q, NEW H, CleanWith(p, H), CleanWith(q, H) PROVE CleanWith(p \o q, H)
<1> DEFINE r == p \o q
<1>1. p \in Seq(Operation) /\ q \in Seq(Operation)
  BY DEF CleanWith
<1>2. /\ r \in Seq(Operation)
      /\ Len(p) \in Nat /\ Len(q) \in Nat /\ Len(r) = Len(p) + Len(q)
      /\ \A k \in 1..Len(p) : r[k] = p[k]
      /\ \A k \in 1..Len(q) : r[Len(p) + k] = q[k]
      /\ \A k \in (Len(p) + 1)..Len(r) : r[k] = q[k - Len(p)]
  BY <1>1
<1> HIDE DEF r
<1>3. ASSUME NEW k \in 1..(Len(p) + 1) PROVE HeldAt(r, k) = HeldAt(p, k)
  <2>1. \A i \in 1..(k - 1) : r[i] = p[i]
    BY <1>2
  <2>2. \A i \in 1..(k - 1) : \A j \in (i + 1)..(k - 1) : r[j] = p[j]
    BY <1>2
  <2>3. ASSUME NEW n \in Mutexes PROVE n \in HeldAt(r, k) <=> n \in HeldAt(p, k)
    BY <2>1, <2>2 DEF HeldAt
  <2>4. QED BY <2>3 DEF HeldAt
<1>4. ASSUME NEW k \in 1..(Len(q) + 1) PROVE HeldAt(r, Len(p) + k) = HeldAt(q, k)
  <2>1. ASSUME NEW n \in Mutexes, n \in HeldAt(r, Len(p) + k) PROVE n \in HeldAt(q, k)
    <3>1. PICK i \in 1..(Len(p) + k - 1) :
             r[i] = Lock(n) /\ \A j \in (i + 1)..(Len(p) + k - 1) : r[j] # Unlock(n)
      BY <2>1 DEF HeldAt
    <3>2. CASE i <= Len(p)
      <4>1. i \in 1..Len(p) /\ p[i] = Lock(n)
        BY <1>2, <3>1, <3>2
      <4>2. ASSUME NEW j \in (i + 1)..Len(p) PROVE p[j] # Unlock(n)
        <5>1. j \in 1..Len(p) /\ j \in (i + 1)..(Len(p) + k - 1)
          BY <1>2, <4>1
        <5>2. r[j] # Unlock(n) /\ r[j] = p[j]
          BY <1>2, <3>1, <5>1
        <5>3. QED BY <5>2
      <4>3. n \in HeldAt(p, Len(p) + 1)
        BY <1>2, <4>1, <4>2 DEF HeldAt
      <4>4. QED BY <4>3 DEF CleanWith
    <3>3. CASE i > Len(p)
      <4>1. i - Len(p) \in 1..(k - 1) /\ i = Len(p) + (i - Len(p))
        BY <1>2, <3>3
      <4>2. q[i - Len(p)] = Lock(n)
        BY <1>2, <3>1, <3>3
      <4>3. ASSUME NEW j \in (i - Len(p) + 1)..(k - 1) PROVE q[j] # Unlock(n)
        <5>1. j \in 1..Len(q) /\ Len(p) + j \in (i + 1)..(Len(p) + k - 1)
          BY <1>2, <3>3
        <5>2. QED BY <1>2, <3>1, <5>1
      <4>4. QED BY <2>1, <4>1, <4>2, <4>3 DEF HeldAt
    <3>4. QED BY <1>2, <3>2, <3>3
  <2>2. ASSUME NEW n \in Mutexes, n \in HeldAt(q, k) PROVE n \in HeldAt(r, Len(p) + k)
    <3>1. PICK i \in 1..(k - 1) :
             q[i] = Lock(n) /\ \A j \in (i + 1)..(k - 1) : q[j] # Unlock(n)
      BY <2>2 DEF HeldAt
    <3>2. Len(p) + i \in 1..(Len(p) + k - 1) /\ r[Len(p) + i] = Lock(n)
      BY <1>2, <3>1
    <3>3. ASSUME NEW j \in (Len(p) + i + 1)..(Len(p) + k - 1) PROVE r[j] # Unlock(n)
      <4> Len(p) \in Nat /\ k \in Int /\ i \in Int /\ j \in Int
        BY <1>2
      <4>1. j - Len(p) \in (i + 1)..(k - 1) /\ j = Len(p) + (j - Len(p))
        OBVIOUS
      <4>2. r[j] = q[j - Len(p)]
        BY <1>2, <4>1
      <4>3. QED BY <3>1, <4>1, <4>2
    <3>4. QED BY <2>2, <3>2, <3>3 DEF HeldAt
  <2>3. QED BY <2>1, <2>2 DEF HeldAt
<1>5. ASSUME NEW k \in 1..Len(r)
      PROVE  /\ \A m \in Mutexes :
                   r[k] = Lock(m) => \A h \in H \cup HeldAt(r, k) : Rank[h] < Rank[m]
             /\ \A m \in Mutexes : r[k] = Unlock(m) => m \in HeldAt(r, k)
             /\ \A d \in Data : r[k] = Touch(d) => Guard[d] \in H \cup HeldAt(r, k)
  <2>1. CASE k <= Len(p)
    BY <1>2, <1>3, <2>1 DEF CleanWith
  <2>2. CASE k > Len(p)
    <3>1. k - Len(p) \in 1..Len(q) /\ k = Len(p) + (k - Len(p))
      BY <1>2, <2>2
    <3>2. r[k] = q[k - Len(p)] /\ HeldAt(r, k) = HeldAt(q, k - Len(p))
      BY <1>2, <1>4, <3>1
    <3>3. QED BY <3>1, <3>2 DEF CleanWith
  <2>3. QED BY <1>2, <2>1, <2>2
<1>6. HeldAt(r, Len(r) + 1) = {}
  <2>1. HeldAt(r, Len(p) + (Len(q) + 1)) = HeldAt(q, Len(q) + 1)
    BY <1>2, <1>4
  <2>2. QED BY <1>2, <2>1 DEF CleanWith
<1>7. CleanWith(r, H)
  BY <1>2, <1>5, <1>6 DEF CleanWith
<1>8. QED BY <1>7 DEF r

\* A piece between the locking and the unlocking of a mutex of higher rank.
LEMMA UnderIsClean ==
    ASSUME NEW m \in Mutexes, NEW b, NEW H, CleanWith(b, H \cup {m}),
           \A h \in H : Rank[h] < Rank[m]
    PROVE  CleanWith(Under(m, b), H)
<1> DEFINE r == Under(m, b)
<1>1. b \in Seq(Operation) /\ Lock(m) \in Operation /\ Unlock(m) \in Operation
  BY DEF CleanWith, Lock, Unlock, Operation
<1>2. /\ r \in Seq(Operation)
      /\ Len(b) \in Nat /\ Len(r) = Len(b) + 2
      /\ r[1] = Lock(m)
      /\ \A k \in 1..Len(b) : r[k + 1] = b[k]
      /\ r[Len(b) + 2] = Unlock(m)
  BY <1>1 DEF Under
<1> HIDE DEF r
<1>3. \A j \in 1..Len(b) : b[j] # Unlock(m)
  <2> SUFFICES ASSUME NEW j \in 1..Len(b), b[j] = Unlock(m) PROVE FALSE
    OBVIOUS
  <2>1. PICK i \in 1..(j - 1) : b[i] = Lock(m)
    BY <1>2 DEF CleanWith, HeldAt
  <2>2. Rank[m] < Rank[m]
    BY <1>2, <2>1 DEF CleanWith
  <2>3. QED BY <2>2, LockAssumption
<1>4. ASSUME NEW k \in 1..(Len(b) + 1) PROVE HeldAt(r, k + 1) = {m} \cup HeldAt(b, k)
  <2>1. m \in HeldAt(r, k + 1)
    <3>1. ASSUME NEW j \in 2..k PROVE r[j] # Unlock(m)
      <4>1. j - 1 \in 1..Len(b) /\ j = (j - 1) + 1
        BY <1>2
      <4>2. QED BY <1>2, <1>3, <4>1
    <3>2. QED BY <1>2, <3>1 DEF HeldAt
  <2>2. ASSUME NEW n \in Mutexes, n \in HeldAt(r, k + 1), n # m PROVE n \in HeldAt(b, k)
    <3>1. PICK i \in 1..k : r[i] = Lock(n) /\ \A j \in (i + 1)..k : r[j] # Unlock(n)
      BY <1>2, <2>2 DEF HeldAt
    <3>2. i # 1
      BY <1>2, <2>2, <3>1, OperationsDiffer
    <3>3. i - 1 \in 1..(k - 1) /\ i = (i - 1) + 1 /\ i - 1 \in 1..Len(b)
      BY <1>2, <3>2
    <3>4. b[i - 1] = Lock(n)
      BY <1>2, <3>1, <3>3
    <3>5. ASSUME NEW j \in (i - 1 + 1)..(k - 1) PROVE b[j] # Unlock(n)
      BY <1>2, <3>1, <3>3
    <3>6. QED BY <2>2, <3>3, <3>4, <3>5 DEF HeldAt
  <2>3. ASSUME NEW n \in Mutexes, n \in HeldAt(b, k) PROVE n \in HeldAt(r, k + 1)
    <3>1. PICK i \in 1..(k - 1) : b[i] = Lock(n) /\ \A j \in (i + 1)..(k - 1) : b[j] # Unlock(n)
      BY <2>3 DEF HeldAt
    <3>2. i + 1 \in 1..k /\ r[i + 1] = Lock(n)
      BY <1>2, <3>1
    <3>3. ASSUME NEW j \in (i + 1 + 1)..k PROVE r[j] # Unlock(n)
      <4>1. j - 1 \in (i + 1)..(k - 1) /\ j - 1 \in 1..Len(b) /\ j = (j - 1) + 1
        BY <1>2
      <4>2. QED BY <1>2, <3>1, <4>1
    <3>4. QED BY <1>2, <2>3, <3>2, <3>3 DEF HeldAt
  <2>4. QED BY <2>1, <2>2, <2>3 DEF HeldAt
<1>5. HeldAt(b, Len(b) + 1) = {} /\ HeldAt(r, 1) = {}
  BY HeldAtStart DEF CleanWith
<1>6. HeldAt(r, Len(b) + 2) = {m}
  <2>1. HeldAt(r, (Len(b) + 1) + 1) = {m} \cup HeldAt(b, Len(b) + 1)
    BY <1>2, <1>4
  <2>2. (Len(b) + 1) + 1 = Len(b) + 2
    BY <1>2
  <2>3. QED BY <1>5, <2>1, <2>2
<1>7. HeldAt(r, Len(r) + 1) = {}
  BY <1>2, <1>6, HeldAfterUnlock
<1>8. ASSUME NEW k \in 1..Len(r)
      PROVE  /\ \A n \in Mutexes :
                   r[k] = Lock(n) => \A h \in H \cup HeldAt(r, k) : Rank[h] < Rank[n]
             /\ \A n \in Mutexes : r[k] = Unlock(n) => n \in HeldAt(r, k)
             /\ \A d \in Data : r[k] = Touch(d) => Guard[d] \in H \cup HeldAt(r, k)
  <2>1. CASE k = 1
    BY <1>2, <1>5, <2>1, OperationsDiffer
  <2>2. CASE k = Len(b) + 2
    BY <1>2, <1>6, <2>2, OperationsDiffer
  <2>3. CASE k # 1 /\ k # Len(b) + 2
    <3>1. k - 1 \in 1..Len(b) /\ k = (k - 1) + 1
      BY <1>2, <2>3
    <3>2. r[k] = b[k - 1] /\ HeldAt(r, k) = {m} \cup HeldAt(b, k - 1)
      BY <1>2, <1>4, <3>1
    <3>3. QED BY <3>1, <3>2 DEF CleanWith
  <2>4. QED BY <2>1, <2>2, <2>3
<1>9. CleanWith(r, H)
  BY <1>2, <1>7, <1>8 DEF CleanWith
<1>10. QED BY <1>9 DEF r

-----------------------------------------------------------------------------
\* The daemon

\* The constants of LockProgram are those of the daemon. Threads may be any set of
\* threads that take the daemon's turns: a work list may have several.
TakeDaemonTurns ==
    /\ Mutexes = DaemonMutexes
    /\ Data = DaemonData
    /\ Guard = DaemonGuard
    /\ Rank = DaemonRank
    /\ \A t \in Threads : \E d \in DaemonThreads : Turns[t] \subseteq DaemonTurns[d]

MutexesDiffer ==
    /\ mlist_mutex \notin {msg_list_mutex, api_list_mutex, api_ack_list_mutex,
                           debug_print_mutex, debug_save_mutex}
    /\ msg_list_mutex \notin {api_list_mutex, api_ack_list_mutex,
                              debug_print_mutex, debug_save_mutex}
    /\ api_list_mutex \notin {api_ack_list_mutex, debug_print_mutex, debug_save_mutex}
    /\ api_ack_list_mutex \notin {debug_print_mutex, debug_save_mutex}
    /\ debug_print_mutex # debug_save_mutex

TheDaemon == TakeDaemonTurns /\ MutexesDiffer

-----------------------------------------------------------------------------
LEMMA DaemonTables ==
    ASSUME TheDaemon
    PROVE  /\ Mutexes = {mlist_mutex, msg_list_mutex, api_list_mutex, api_ack_list_mutex,
                         debug_print_mutex, debug_save_mutex}
           /\ Data = {"mlist", "recv_mlist", "recv_alist", "recv_acklist", "log_list",
                      "settings"}
           /\ Rank[mlist_mutex] = 0 /\ Rank[msg_list_mutex] = 1
           /\ Rank[api_list_mutex] = 2 /\ Rank[api_ack_list_mutex] = 3
           /\ Rank[debug_print_mutex] = 4 /\ Rank[debug_save_mutex] = 5
           /\ Guard["mlist"] = mlist_mutex /\ Guard["settings"] = mlist_mutex
           /\ Guard["recv_mlist"] = msg_list_mutex /\ Guard["recv_alist"] = api_list_mutex
           /\ Guard["recv_acklist"] = api_ack_list_mutex
           /\ Guard["log_list"] = debug_save_mutex
BY DEF TheDaemon, TakeDaemonTurns, MutexesDiffer, DaemonMutexes, DaemonData, DaemonRank,
       DaemonGuard

\* Data under its own mutex.
LEMMA OwnMutexIsClean ==
    ASSUME TheDaemon, NEW d \in Data, NEW H, \A h \in H : Rank[h] < Rank[Guard[d]]
    PROVE  CleanWith(Under(Guard[d], <<Touch(d)>>), H)
<1>1. CleanWith(<<Touch(d)>>, H \cup {Guard[d]})
  BY TouchIsClean
<1>2. Guard[d] \in Mutexes
  BY LockAssumption
<1>3. QED BY <1>1, <1>2, UnderIsClean

\* The pieces that touch a list under its own mutex.
LEMMA ListPiecesAreClean ==
    ASSUME TheDaemon, NEW H, H \subseteq {mlist_mutex}
    PROVE  /\ CleanWith(ipcd_api_push, H) /\ CleanWith(ipcd_api_pull, H)
           /\ CleanWith(ipcd_msg_push, H) /\ CleanWith(ipcd_msg_pull, H)
           /\ CleanWith(ipcd_api_ack_list_push, H) /\ CleanWith(ipcd_debug_log_memory_pull, H)
<1>1. \A d \in {"recv_mlist", "recv_alist", "recv_acklist", "log_list"} :
         d \in Data /\ \A h \in H : Rank[h] < Rank[Guard[d]]
  BY DaemonTables
<1>2. \A d \in {"recv_mlist", "recv_alist", "recv_acklist", "log_list"} :
         CleanWith(Under(Guard[d], <<Touch(d)>>), H)
  BY <1>1, OwnMutexIsClean
<1>3. QED
  BY <1>2, DaemonTables DEF ipcd_api_push, ipcd_api_pull, ipcd_msg_push, ipcd_msg_pull,
                      ipcd_api_ack_list_push, ipcd_debug_log_memory_pull

\* What rests on mlist_mutex, wherever that is locked.
LEMMA MlistIsClean ==
    ASSUME TheDaemon, NEW H, mlist_mutex \in H
    PROVE  CleanWith(<<Touch("mlist")>>, H) /\ CleanWith(<<Touch("settings")>>, H)
BY DaemonTables, TouchIsClean

\* A line of the log, with mlist_mutex locked and perhaps a list mutex.
LEMMA LogIsClean ==
    ASSUME TheDaemon, NEW H, mlist_mutex \in H, H \subseteq {mlist_mutex, api_ack_list_mutex}
    PROVE  CleanWith(Log, H)
<1> DEFINE P == H \cup {debug_print_mutex}
           save == Under(debug_save_mutex, <<Touch("log_list")>>)
<1>1. \A h \in P : Rank[h] < Rank[debug_save_mutex]
  BY DaemonTables
<1>2. CleanWith(save, P)
  <2>1. "log_list" \in Data /\ Guard["log_list"] = debug_save_mutex
    BY DaemonTables
  <2>2. QED BY <1>1, <2>1, OwnMutexIsClean
<1>3. CleanWith(<<Touch("mlist")>>, P) /\ CleanWith(<<Touch("settings")>>, P)
  BY MlistIsClean
<1> HIDE DEF P, save
<1>4. CleanWith(<<Touch("mlist")>> \o <<Touch("settings")>> \o save, P)
  BY <1>2, <1>3, ConcatIsClean
<1>5. debug_print_mutex \in Mutexes /\ \A h \in H : Rank[h] < Rank[debug_print_mutex]
  BY DaemonTables
<1>6. CleanWith(Under(debug_print_mutex, <<Touch("mlist")>> \o <<Touch("settings")>> \o save), H)
  BY <1>4, <1>5, UnderIsClean DEF P
<1>7. QED BY <1>6 DEF Log, save

\* A whole turn, or the part of one, under mlist_mutex.
LEMMA UnderMlistIsClean ==
    ASSUME TheDaemon, NEW b, CleanWith(b, {mlist_mutex})
    PROVE  CleanWith(Under(mlist_mutex, b), {})
<1>1. mlist_mutex \in Mutexes /\ CleanWith(b, {} \cup {mlist_mutex})
  BY DaemonTables
<1>2. QED BY <1>1, UnderIsClean

\* The end of an api and a call that is due, with api_ack_list_mutex inside.
LEMMA AckListIsClean ==
    ASSUME TheDaemon, NEW b, CleanWith(b, {mlist_mutex, api_ack_list_mutex})
    PROVE  CleanWith(Under(api_ack_list_mutex, <<Touch("recv_acklist")>> \o b), {mlist_mutex})
<1> DEFINE H == {mlist_mutex, api_ack_list_mutex}
<1>1. CleanWith(<<Touch("recv_acklist")>>, H)
  BY DaemonTables, TouchIsClean
<1>2. CleanWith(<<Touch("recv_acklist")>> \o b, H)
  BY <1>1, ConcatIsClean
<1>3. /\ H = {mlist_mutex} \cup {api_ack_list_mutex}
      /\ api_ack_list_mutex \in Mutexes
      /\ Rank[mlist_mutex] < Rank[api_ack_list_mutex]
  BY DaemonTables
<1>4. QED BY <1>2, <1>3, UnderIsClean

-----------------------------------------------------------------------------
\* Every turn of every thread of the daemon is clean.
LEMMA DaemonTurnsAreClean ==
    ASSUME TheDaemon, NEW t \in DaemonThreads, NEW p \in DaemonTurns[t]
    PROVE  CleanWith(p, {})
<1> DEFINE M == {mlist_mutex}
           A == {mlist_mutex, api_ack_list_mutex}
<1>1. /\ CleanWith(<<Touch("mlist")>>, M) /\ CleanWith(<<Touch("settings")>>, M) /\ CleanWith(Log, M)
      /\ CleanWith(<<Touch("mlist")>>, A) /\ CleanWith(Log, A) /\ CleanWith(<<>>, A) /\ CleanWith(<<>>, M)
  BY MlistIsClean, LogIsClean, NothingIsClean
<1>2. /\ CleanWith(ipcd_api_push, M) /\ CleanWith(ipcd_msg_push, M)
      /\ CleanWith(ipcd_api_ack_list_push, M) /\ CleanWith(ipcd_debug_log_memory_pull, M)
      /\ CleanWith(ipcd_api_pull, {}) /\ CleanWith(ipcd_msg_pull, {})
  BY ListPiecesAreClean
<1>3. CASE t = "ipcd_msg_recv"
  <2>1. PICK body \in HandlePacket : p = Under(mlist_mutex, body)
    BY <1>3 DEF DaemonTurns, MsgRecvTurns
  <2>2. CleanWith(ApiEnd, M)
    <3>1. CleanWith(Under(api_ack_list_mutex, <<Touch("recv_acklist")>> \o <<Touch("mlist")>>), M)
      BY <1>1, AckListIsClean
    <3>2. QED BY <1>1, <3>1, ConcatIsClean DEF ApiEnd
  <2>3. /\ CleanWith(<<Touch("mlist")>> \o Log, M)
        /\ CleanWith(<<Touch("mlist")>> \o ipcd_api_push, M)
        /\ CleanWith(<<Touch("mlist")>> \o ipcd_msg_push, M)
    BY <1>1, <1>2, ConcatIsClean
  <2>4. CleanWith(<<Touch("mlist")>> \o ipcd_api_push \o Log, M)
    BY <1>1, <2>3, ConcatIsClean
  <2>5. CleanWith(body, M)
    BY <1>1, <2>2, <2>3, <2>4 DEF HandlePacket
  <2>6. QED BY <2>1, <2>5, UnderMlistIsClean
<1>4. CASE t = "ipcd_ctl_recv"
  <2>1. PICK body \in HandleRequest : p = Under(mlist_mutex, body)
    BY <1>4 DEF DaemonTurns, CtlTurns
  <2>2. /\ CleanWith(<<Touch("mlist")>> \o <<Touch("settings")>>, M)
        /\ CleanWith(<<Touch("settings")>> \o ipcd_debug_log_memory_pull, M)
        /\ CleanWith(<<Touch("mlist")>> \o Log, M)
    BY <1>1, <1>2, ConcatIsClean
  <2>3. /\ CleanWith(<<Touch("settings")>> \o ipcd_debug_log_memory_pull
                     \o ipcd_debug_log_memory_pull, M)
        /\ CleanWith(<<Touch("mlist")>> \o Log \o <<Touch("settings")>>, M)
    BY <1>1, <1>2, <2>2, ConcatIsClean
  <2>4. CleanWith(body, M)
    BY <1>1, <2>2, <2>3 DEF HandleRequest
  <2>5. QED BY <2>1, <2>4, UnderMlistIsClean
<1>5. CASE t = "_ipcd_api_probe"
  <2>1. /\ CleanWith(Under(mlist_mutex, <<Touch("mlist")>> \o ipcd_api_ack_list_push), {})
        /\ CleanWith(Under(mlist_mutex, <<Touch("mlist")>> \o Log), {})
    BY <1>1, <1>2, ConcatIsClean, UnderMlistIsClean
  <2>2. QED BY <1>2, <1>5, <2>1, ConcatIsClean DEF DaemonTurns, ApiProbeTurns
<1>6. CASE t = "_ipcd_msg_probe"
  <2>1. CleanWith(Under(mlist_mutex, <<Touch("mlist")>> \o Log), {})
    BY <1>1, ConcatIsClean, UnderMlistIsClean
  <2>2. QED BY <1>2, <1>6, <2>1, ConcatIsClean DEF DaemonTurns, MsgProbeTurns
<1>7. CASE t = "ipc_api_timeout_check_thread"
  <2>1. PICK due \in {<<>>, <<Touch("mlist")>> \o Log} :
           p = Under(mlist_mutex, Under(api_ack_list_mutex, <<Touch("recv_acklist")>> \o due))
    BY <1>7 DEF DaemonTurns, TimeoutTurns
  <2>2. CleanWith(due, A)
    <3>1. CleanWith(<<Touch("mlist")>> \o Log, A)
      BY <1>1, ConcatIsClean
    <3>2. QED BY <1>1, <3>1
  <2>3. QED BY <2>1, <2>2, AckListIsClean, UnderMlistIsClean
<1>8. CASE t = "ipc_live_thread"
  <2>1. PICK silent \in {<<>>, Log} : p = Under(mlist_mutex, <<Touch("mlist")>> \o silent)
    BY <1>8 DEF DaemonTurns, LiveTurns
  <2>2. CleanWith(<<Touch("mlist")>> \o silent, M)
    BY <1>1, ConcatIsClean
  <2>3. QED BY <2>1, <2>2, UnderMlistIsClean
<1>9. QED BY <1>3, <1>4, <1>5, <1>6, <1>7, <1>8 DEF DaemonThreads

LEMMA DaemonIsDisciplined == ASSUME TheDaemon PROVE DisciplinedTurns
BY DaemonTurnsAreClean, CleanIsDisciplined
   DEF TheDaemon, TakeDaemonTurns, DisciplinedTurns

\* However many threads take the daemon's turns, and however these interleave:
\* the member list, the work lists, the log and the settings are never touched
\* by two of them at once, though the log itself never locks mlist_mutex.
THEOREM DaemonIsRaceFree == ASSUME TheDaemon PROVE Spec => []RaceFree
BY DaemonIsDisciplined, DataIsGuarded

\* Under the same assumption no threads of the daemon wait for each other.
THEOREM DaemonNeverDeadlocks == ASSUME TheDaemon PROVE Spec => []NoWaitCycle
BY DaemonIsDisciplined, NobodyWaitsInACircle

\* Under the same assumption each turn ends with all mutexes unlocked, the paths
\* with an early return too.
THEOREM DaemonUnlocksAll == ASSUME TheDaemon PROVE Spec => []NothingLeftLocked
BY DaemonIsDisciplined, AllIsUnlocked

-----------------------------------------------------------------------------
(***************************************************************************)
(* Lists                                                                   *)
(*                                                                         *)
(* The list of dlist.c implements a sequence of cells: dlist_attach        *)
(* appends, dlist_delete removes an index, and who walks the list by index *)
(* sees the sequence. The sequence is unique to the list since the walk    *)
(* ends at the first node without data, which is the tail: no list has as  *)
(* many entries as nodes.                                                  *)
(***************************************************************************)
\* Node k of a list whose entries are the cells of s, the sentinels included.
At(s, k) == IF k = 0 THEN HeadNode ELSE IF k = Len(s) + 1 THEN TailNode ELSE s[k]

\* The nodes of l are the sentinels and the cells of s, linked both ways in
\* their order, and the cells have data.
Holds(l, s) ==
    /\ s \in Seq(Cells)
    /\ \A j, k \in 1..Len(s) : s[j] = s[k] => j = k
    /\ Nodes(l) = {At(s, k) : k \in 0..(Len(s) + 1)}
    /\ DOMAIN l.next = Nodes(l) /\ DOMAIN l.prev = Nodes(l)
    /\ \A k \in 0..Len(s) : /\ l.next[At(s, k)] = At(s, k + 1)
                            /\ l.prev[At(s, k + 1)] = At(s, k)
    /\ \A n \in Nodes(l) : l.data[n] = NULL <=> n \in {HeadNode, TailNode}

LEMMA SentinelsAreNoCells ==
    ASSUME NEW s \in Seq(Cells)
    PROVE  /\ \A k \in 0..(Len(s) + 1) : /\ At(s, k) = HeadNode <=> k = 0
                                         /\ At(s, k) = TailNode <=> k = Len(s) + 1
                                         /\ At(s, k) # NULL
           /\ \A k \in 1..Len(s) : At(s, k) = s[k] /\ s[k] \in Cells
<1>1. Len(s) \in Nat /\ \A k \in 1..Len(s) : s[k] \in Cells
  OBVIOUS
<1>2. ASSUME NEW k \in 1..Len(s)
      PROVE  At(s, k) = s[k] /\ s[k] \in Cells /\ s[k] \notin {HeadNode, TailNode, NULL}
  <2>1. k # 0 /\ k # Len(s) + 1
    BY <1>1
  <2>2. QED BY <1>1, <2>1, NodesAssumption DEF At
<1>3. ASSUME NEW k \in 0..(Len(s) + 1)
      PROVE  k = 0 \/ k = Len(s) + 1 \/ k \in 1..Len(s)
  BY <1>1
<1>4. /\ At(s, 0) = HeadNode /\ At(s, Len(s) + 1) = TailNode
      /\ HeadNode # TailNode /\ HeadNode # NULL /\ TailNode # NULL
      /\ 0 # Len(s) + 1 /\ 0 \notin 1..Len(s) /\ Len(s) + 1 \notin 1..Len(s)
  BY <1>1, NodesAssumption DEF At
<1> HIDE DEF At
<1>5. QED BY <1>2, <1>3, <1>4

LEMMA NodesDiffer ==
    ASSUME NEW s \in Seq(Cells), \A j, k \in 1..Len(s) : s[j] = s[k] => j = k,
           NEW i \in 0..(Len(s) + 1), NEW j \in 0..(Len(s) + 1), At(s, i) = At(s, j)
    PROVE  i = j
<1>1. Len(s) \in Nat
  OBVIOUS
<1>2. \A k \in 0..(Len(s) + 1) : k = 0 \/ k = Len(s) + 1 \/ k \in 1..Len(s)
  BY <1>1
<1> HIDE DEF At
<1>3. QED BY <1>2, SentinelsAreNoCells

\* The walk along next meets the nodes in the order of s.
LEMMA WalkMeets ==
    ASSUME NEW l, NEW s, Holds(l, s), NEW k \in 0..Len(s)
    PROVE  NodeAt(l, k) = At(s, k + 1)
<1> DEFINE F(g) == [j \in 0..k |-> IF j = 0 THEN l.next[HeadNode] ELSE l.next[g[j - 1]]]
           walk == [j \in 0..k |-> At(s, j + 1)]
           done == CHOOSE g : g = F(g)
<1>1. NodeAt(l, k) = done[k]
  BY DEF NodeAt
<1>2. Len(s) \in Nat
  BY DEF Holds
<1>3. l.next[HeadNode] = At(s, 1)
  <2>1. At(s, 0) = HeadNode /\ 0 \in 0..Len(s)
    BY <1>2 DEF At
  <2>2. QED BY <2>1 DEF Holds
<1>4. ASSUME NEW j \in 1..k PROVE l.next[At(s, j)] = At(s, j + 1)
  <2>1. j \in 0..Len(s)
    BY <1>2
  <2>2. QED BY <2>1 DEF Holds
<1>5. walk = F(walk)
  <2>1. ASSUME NEW j \in 0..k PROVE walk[j] = F(walk)[j]
    <3>1. CASE j = 0
      BY <1>3, <3>1
    <3>2. CASE j # 0
      <4>1. j \in 1..k /\ j - 1 \in 0..k /\ (j - 1) + 1 = j
        BY <3>2
      <4>2. walk[j - 1] = At(s, j)
        BY <4>1
      <4>3. F(walk)[j] = l.next[walk[j - 1]]
        BY <3>2
      <4> HIDE DEF F
      <4>4. QED BY <1>4, <4>1, <4>2, <4>3
    <3>3. QED BY <3>1, <3>2
  <2>2. QED BY <2>1
<1>6. done = F(done)
  <2> HIDE DEF F, walk
  <2>1. QED BY <1>5, Zenon
<1>7. \A j \in 0..k : done[j] \in {walk[j]}
  <2> DEFINE S == [j \in 0..k |-> {walk[j]}]
  <2>0. k \in Nat /\ 0 \in 0..k
    BY <1>2
  <2> HIDE DEF done
  <2>1. done[0] \in S[0]
    <3>1. done[0] = l.next[HeadNode]
      BY <1>6, <2>0
    <3>2. QED BY <1>3, <2>0, <3>1
  <2>2. ASSUME NEW j \in 1..k, done[j - 1] \in S[j - 1] PROVE done[j] \in S[j]
    <3>1. j \in 0..k /\ j # 0 /\ j - 1 \in 0..k /\ (j - 1) + 1 = j
      BY <2>0
    <3>2. done[j - 1] = At(s, j)
      BY <2>2, <3>1
    <3>3. done[j] = l.next[done[j - 1]]
      BY <1>6, <3>1
    <3>4. done[j] = At(s, j + 1)
      BY <1>4, <3>2, <3>3
    <3>5. QED BY <3>1, <3>4
  <2> HIDE DEF walk
  <2>3. \A j \in 0..k : done[j] \in S[j]
    <3> HIDE DEF S
    <3>1. QED BY <2>0, <2>1, <2>2, AfterEachTurn
  <2>4. QED BY <2>3
<1>8. QED
  <2>1. k \in 0..k
    BY <1>2
  <2>2. done[k] = walk[k]
    BY <1>7, <2>1
  <2>3. QED BY <1>1, <2>1, <2>2

\* The loops of dlist_len and dlist_get end.
LEMMA WalkIsShort ==
    ASSUME NEW l, NEW s, Holds(l, s)
    PROVE  /\ IsFiniteSet(Nodes(l)) /\ Cardinality(Nodes(l)) \in Nat
           /\ Len(s) \in Nat /\ Len(s) <= Cardinality(Nodes(l))
<1>1. s \in Seq(Cells) /\ Len(s) \in Nat /\ s \in [1..Len(s) -> Cells]
  BY DEF Holds
<1>2. Nodes(l) \subseteq (Cells \cup {HeadNode}) \cup {TailNode}
  <2>1. ASSUME NEW k \in 0..(Len(s) + 1) PROVE At(s, k) \in (Cells \cup {HeadNode}) \cup {TailNode}
    <3>1. k = 0 \/ k = Len(s) + 1 \/ k \in 1..Len(s)
      BY <1>1
    <3>2. QED BY <1>1, <3>1 DEF At
  <2>2. QED BY <2>1 DEF Holds
<1>3. IsFiniteSet((Cells \cup {HeadNode}) \cup {TailNode})
  BY NodesAssumption, FS_AddElement
<1>4. IsFiniteSet(Nodes(l)) /\ Cardinality(Nodes(l)) \in Nat
  BY <1>2, <1>3, FS_Subset, FS_CardinalityType
<1>5. s \in Injection(1..Len(s), Nodes(l))
  <2>1. ASSUME NEW k \in 1..Len(s) PROVE s[k] \in Nodes(l)
    <3>1. k \in 0..(Len(s) + 1) /\ At(s, k) = s[k]
      BY <1>1, SentinelsAreNoCells
    <3>2. QED BY <3>1 DEF Holds
  <2>2. s \in [1..Len(s) -> Nodes(l)]
    BY <1>1, <2>1
  <2>3. \A j, k \in 1..Len(s) : s[j] = s[k] => j = k
    BY DEF Holds
  <2>4. QED BY <1>1, <2>2, <2>3 DEF Injection, IsInjective
<1>6. Cardinality(1..Len(s)) = Len(s)
  BY <1>1, FS_Interval
<1>7. QED BY <1>1, <1>4, <1>5, <1>6, FS_Injection

\* dlist_len and dlist_get see the entries of s.
THEOREM WalkIsSequence ==
    ASSUME NEW l, NEW s, Holds(l, s)
    PROVE  /\ dlist_len(l) = Len(s)
           /\ \A i \in Nat : dlist_get(l, i) = IF i < Len(s) THEN s[i + 1] ELSE NULL
<1>1. s \in Seq(Cells) /\ Len(s) \in Nat /\ Len(s) \in 0..Cardinality(Nodes(l))
  <2>1. /\ Cardinality(Nodes(l)) \in Nat
        /\ Len(s) \in Nat /\ Len(s) <= Cardinality(Nodes(l))
    BY WalkIsShort
  <2>2. QED BY <2>1 DEF Holds
<1>2. ASSUME NEW k \in 0..Len(s)
      PROVE  /\ k < Len(s) => NodeAt(l, k) = s[k + 1] /\ l.data[NodeAt(l, k)] # NULL
             /\ k = Len(s) => l.data[NodeAt(l, k)] = NULL
  <2>1. NodeAt(l, k) = At(s, k + 1)
    BY WalkMeets
  <2>2. k + 1 \in 0..(Len(s) + 1) /\ k + 1 # 0 /\ (k < Len(s) => k + 1 \in 1..Len(s))
    BY <1>1
  <2>3. At(s, k + 1) \in Nodes(l)
    BY <2>2 DEF Holds
  <2>4. l.data[At(s, k + 1)] = NULL <=> k + 1 = Len(s) + 1
    BY <1>1, <2>2, <2>3, SentinelsAreNoCells DEF Holds
  <2>5. k < Len(s) => At(s, k + 1) = s[k + 1]
    BY <1>1, <2>2, SentinelsAreNoCells
  <2>6. (k < Len(s) => k + 1 # Len(s) + 1) /\ (k = Len(s) => k + 1 = Len(s) + 1)
    BY <1>1
  <2>7. QED BY <2>1, <2>4, <2>5, <2>6
<1> DEFINE Ends(k) == /\ l.data[NodeAt(l, k)] = NULL
                      /\ \A j \in 0..(k - 1) : l.data[NodeAt(l, j)] # NULL
<1>3. Ends(Len(s))
  <2>1. \A j \in 0..(Len(s) - 1) : j \in 0..Len(s) /\ j < Len(s)
    BY <1>1
  <2>2. Len(s) \in 0..Len(s)
    BY <1>1
  <2> HIDE DEF NodeAt
  <2>3. QED BY <1>2, <2>1, <2>2
<1>4. ASSUME NEW k \in 0..Cardinality(Nodes(l)), Ends(k) PROVE k = Len(s)
  <2>1. ~(k < Len(s))
    <3>1. k < Len(s) => k \in 0..Len(s)
      BY <1>1
    <3>2. QED BY <1>2, <1>4, <3>1
  <2>2. ~(Len(s) < k)
    <3>1. Len(s) < k => Len(s) \in 0..(k - 1)
      BY <1>1
    <3>2. Len(s) \in 0..Len(s)
      BY <1>1
    <3>3. QED BY <1>2, <1>4, <3>1, <3>2
  <2>3. k \in Nat
    OBVIOUS
  <2>4. QED BY <1>1, <2>1, <2>2, <2>3
<1>5. dlist_len(l) = CHOOSE k \in 0..Cardinality(Nodes(l)) : Ends(k)
  BY DEF dlist_len
<1> HIDE DEF Ends
<1>6. dlist_len(l) = Len(s)
  BY <1>1, <1>3, <1>4, <1>5
<1>7. ASSUME NEW i \in Nat PROVE dlist_get(l, i) = IF i < Len(s) THEN s[i + 1] ELSE NULL
  <2>1. i < Len(s) => i \in 0..Len(s)
    BY <1>1
  <2>2. QED BY <1>2, <1>6, <2>1 DEF dlist_get
<1>8. QED BY <1>6, <1>7

\* So does who reads the whole list.
LEMMA ContentsInOrder ==
    ASSUME NEW l, NEW s, Holds(l, s)
    PROVE  /\ Contents(l) = [k \in 1..Len(s) |-> l.data[s[k]]]
           /\ \A k \in 1..Len(s) : s[k] \in Nodes(l) /\ s[k] \in Cells /\ l.data[s[k]] # NULL
<1>1. dlist_len(l) = Len(s)
  BY WalkIsSequence
<1>2. s \in Seq(Cells) /\ Len(s) \in Nat
  BY DEF Holds
<1>3. ASSUME NEW k \in 1..Len(s) PROVE NodeAt(l, k - 1) = s[k]
  <2>1. k - 1 \in 0..Len(s) /\ (k - 1) + 1 = k
    BY <1>2
  <2>2. QED BY <1>2, <2>1, WalkMeets, SentinelsAreNoCells
<1>4. ASSUME NEW k \in 1..Len(s) PROVE s[k] \in Nodes(l) /\ s[k] \in Cells /\ l.data[s[k]] # NULL
  <2>1. k \in 0..(Len(s) + 1) /\ k # 0 /\ k # Len(s) + 1
    BY <1>2
  <2>2. At(s, k) \in Nodes(l) /\ At(s, k) = s[k]
    BY <1>2, <2>1, SentinelsAreNoCells DEF Holds
  <2>3. At(s, k) \notin {HeadNode, TailNode}
    BY <1>2, <2>1, SentinelsAreNoCells
  <2>4. QED BY <1>2, <2>2, <2>3, SentinelsAreNoCells DEF Holds
<1>5. QED BY <1>1, <1>3, <1>4 DEF Contents

\* next and prev are one chain.
LEMMA ChainHolds ==
    ASSUME NEW l, NEW s, Holds(l, s)
    PROVE  ChainIn(l)
<1>1. s \in Seq(Cells) /\ Len(s) \in Nat
  BY DEF Holds
<1>2. Nodes(l) = {At(s, k) : k \in 0..(Len(s) + 1)}
  BY DEF Holds
<1>3. \A k \in 0..Len(s) : l.next[At(s, k)] = At(s, k + 1) /\ l.prev[At(s, k + 1)] = At(s, k)
  BY DEF Holds
<1>4. ASSUME NEW n \in Nodes(l) \ {TailNode}
      PROVE  l.next[n] \in Nodes(l) \ {HeadNode} /\ l.prev[l.next[n]] = n
  <2>1. PICK k \in 0..(Len(s) + 1) : n = At(s, k)
    BY <1>2
  <2>2. k # Len(s) + 1
    BY <1>1, <1>4, <2>1, SentinelsAreNoCells
  <2>3. k \in 0..Len(s) /\ k + 1 \in 0..(Len(s) + 1) /\ k + 1 # 0
    BY <1>1, <2>2
  <2>4. At(s, k + 1) \in Nodes(l) /\ At(s, k + 1) # HeadNode
    BY <1>1, <1>2, <2>3, SentinelsAreNoCells
  <2>5. QED BY <1>3, <2>1, <2>3, <2>4
<1>5. ASSUME NEW n \in Nodes(l) \ {HeadNode}
      PROVE  l.prev[n] \in Nodes(l) \ {TailNode} /\ l.next[l.prev[n]] = n
  <2>1. PICK k \in 0..(Len(s) + 1) : n = At(s, k)
    BY <1>2
  <2>2. k # 0
    BY <1>1, <1>5, <2>1, SentinelsAreNoCells
  <2>3. /\ k - 1 \in 0..Len(s) /\ (k - 1) + 1 = k
        /\ k - 1 \in 0..(Len(s) + 1) /\ k - 1 # Len(s) + 1
    BY <1>1, <2>2
  <2>4. At(s, k - 1) \in Nodes(l) /\ At(s, k - 1) # TailNode
    BY <1>1, <1>2, <2>3, SentinelsAreNoCells
  <2>5. l.next[At(s, k - 1)] = At(s, (k - 1) + 1) /\ l.prev[At(s, (k - 1) + 1)] = At(s, k - 1)
    BY <1>3, <2>3
  <2>6. QED BY <2>1, <2>3, <2>4, <2>5
<1>6. /\ DOMAIN l.next = Nodes(l) /\ DOMAIN l.prev = Nodes(l)
      /\ \A n \in Nodes(l) : l.data[n] = NULL <=> n \in {HeadNode, TailNode}
  BY DEF Holds
<1>7. QED BY <1>4, <1>5, <1>6 DEF ChainIn

-----------------------------------------------------------------------------
\* A new list is empty.
LEMMA CreatedIsEmpty == Holds(dlist_create, <<>>)
<1> DEFINE l == dlist_create
           none == <<>>
<1>1. none \in Seq(Cells) /\ Len(none) = 0
  OBVIOUS
<1>2. At(none, 0) = HeadNode /\ At(none, 1) = TailNode /\ 0 + 1 = 1
  BY <1>1 DEF At
<1>3. HeadNode # TailNode
  BY NodesAssumption
<1>4. /\ DOMAIN l.next = {HeadNode, TailNode} /\ DOMAIN l.prev = {HeadNode, TailNode}
      /\ Nodes(l) = {HeadNode, TailNode}
      /\ l.next[HeadNode] = TailNode /\ l.prev[TailNode] = HeadNode
      /\ \A n \in {HeadNode, TailNode} : l.data[n] = NULL
  BY <1>3 DEF dlist_create, Nodes
<1>5. 0..(Len(none) + 1) = {0, 1} /\ 0..Len(none) = {0} /\ 1..Len(none) = {}
  BY <1>1
<1> HIDE DEF l, none
<1>6. Nodes(l) = {At(none, k) : k \in 0..(Len(none) + 1)}
  BY <1>2, <1>4, <1>5
<1>7. Holds(l, none)
  BY <1>1, <1>2, <1>4, <1>5, <1>6 DEF Holds
<1>8. QED BY <1>7 DEF l, none

\* dlist_attach is Append.
THEOREM AttachAppends ==
    ASSUME NEW l, NEW s, Holds(l, s), NEW n \in Cells \ Nodes(l), NEW data, data # NULL
    PROVE  /\ Holds(dlist_attach(l, n, data), Append(s, n))
           /\ dlist_attach(l, n, data).data[n] = data
           /\ \A m \in Nodes(l) : dlist_attach(l, n, data).data[m] = l.data[m]
<1> DEFINE t == Append(s, n)
           ll == dlist_attach(l, n, data)
           last == l.prev[TailNode]
           all == Nodes(l) \cup {n}
<1>1. s \in Seq(Cells) /\ Len(s) \in Nat
  BY DEF Holds
<1>2. /\ t \in Seq(Cells) /\ Len(t) = Len(s) + 1
      /\ t[Len(s) + 1] = n /\ \A k \in 1..Len(s) : t[k] = s[k]
  BY <1>1
<1>3. /\ Nodes(l) = {At(s, k) : k \in 0..(Len(s) + 1)}
      /\ \A k \in 0..Len(s) : l.next[At(s, k)] = At(s, k + 1) /\ l.prev[At(s, k + 1)] = At(s, k)
      /\ \A j, k \in 1..Len(s) : s[j] = s[k] => j = k
      /\ \A m \in Nodes(l) : l.data[m] = NULL <=> m \in {HeadNode, TailNode}
  BY DEF Holds
<1>4. /\ DOMAIN ll.next = all /\ DOMAIN ll.prev = all /\ Nodes(ll) = all
      /\ \A m \in all : /\ ll.next[m] = CASE m = n    -> TailNode
                                          [] m = last -> n
                                          [] OTHER    -> l.next[m]
                        /\ ll.prev[m] = CASE m = n        -> last
                                          [] m = TailNode -> n
                                          [] OTHER        -> l.prev[m]
                        /\ ll.data[m] = IF m = n THEN data ELSE l.data[m]
  BY DEF dlist_attach, Nodes
<1> HIDE DEF t, ll, all
<1>5. ASSUME NEW k \in 0..(Len(s) + 1)
      PROVE  k <= Len(s) => At(t, k) = At(s, k) /\ At(s, k) \in Nodes(l)
  <2>1. k \in 1..Len(s) => k # Len(t) + 1
    BY <1>1, <1>2
  <2>2. k <= Len(s) => k = 0 \/ (k \in 1..Len(s) /\ k # Len(s) + 1 /\ k # 0)
    BY <1>1
  <2>3. At(s, k) \in Nodes(l)
    BY <1>3
  <2>4. QED BY <1>2, <2>1, <2>2, <2>3 DEF At
<1>6. At(t, Len(s) + 1) = n /\ At(t, Len(s) + 2) = TailNode /\ At(s, Len(s) + 1) = TailNode
  <2>1. /\ Len(s) + 1 # 0 /\ Len(s) + 2 # 0 /\ Len(s) + 1 # Len(t) + 1
        /\ Len(s) + 2 = Len(t) + 1
    BY <1>1, <1>2
  <2>2. QED BY <1>2, <2>1 DEF At
<1>7. last = At(s, Len(s)) /\ n # TailNode /\ n # HeadNode
  <2>1. Len(s) \in 0..Len(s)
    BY <1>1
  <2>2. QED BY <1>3, <1>6, <2>1, NodesAssumption
<1>8. /\ TailNode \in Nodes(l) /\ HeadNode \in Nodes(l) /\ n \notin Nodes(l)
      /\ last \in Nodes(l)
  <2>1. /\ At(s, 0) = HeadNode /\ 0 \in 0..(Len(s) + 1) /\ Len(s) + 1 \in 0..(Len(s) + 1)
        /\ Len(s) \in 0..(Len(s) + 1)
    BY <1>1 DEF At
  <2>2. QED BY <1>3, <1>6, <1>7, <2>1
<1>9. /\ ll.next[n] = TailNode /\ ll.next[last] = n
      /\ ll.prev[n] = last /\ ll.prev[TailNode] = n
  <2>1. n \in all /\ last \in all /\ TailNode \in all /\ last # n
    BY <1>8 DEF all
  <2> HIDE DEF last
  <2>2. QED BY <1>4, <1>7, <2>1
<1>10. all = {At(t, k) : k \in 0..(Len(t) + 1)}
  <2>1. ASSUME NEW m \in all PROVE m \in {At(t, k) : k \in 0..(Len(t) + 1)}
    <3>1. CASE m = n
      BY <1>1, <1>2, <1>6, <3>1
    <3>2. CASE m # n
      <4>1. PICK k \in 0..(Len(s) + 1) : m = At(s, k)
        BY <1>3, <3>2 DEF all
      <4>2. CASE k = Len(s) + 1
        <5>1. Len(s) + 2 \in 0..(Len(t) + 1)
          BY <1>1, <1>2
        <5>2. QED BY <1>6, <4>1, <4>2, <5>1
      <4>3. CASE k # Len(s) + 1
        <5>1. k <= Len(s) /\ k \in 0..(Len(t) + 1)
          BY <1>1, <1>2, <4>3
        <5>2. QED BY <1>5, <4>1, <5>1
      <4>4. QED BY <4>2, <4>3
    <3>3. QED BY <3>1, <3>2
  <2>2. ASSUME NEW k \in 0..(Len(t) + 1) PROVE At(t, k) \in all
    <3>1. k = Len(s) + 2 \/ k = Len(s) + 1 \/ (k <= Len(s) /\ k \in 0..(Len(s) + 1))
      BY <1>1, <1>2
    <3>2. QED BY <1>5, <1>6, <1>8, <3>1 DEF all
  <2>3. QED BY <2>1, <2>2
<1>11. ASSUME NEW k \in 0..Len(t)
       PROVE  ll.next[At(t, k)] = At(t, k + 1) /\ ll.prev[At(t, k + 1)] = At(t, k)
  <2>1. CASE k = Len(s) + 1
    <3>1. k + 1 = Len(s) + 2
      BY <1>1, <2>1
    <3>2. QED BY <1>6, <1>9, <2>1, <3>1
  <2>2. CASE k = Len(s)
    <3>1. k \in 0..(Len(s) + 1) /\ k <= Len(s)
      BY <1>1, <2>2
    <3>2. At(t, k) = last /\ At(t, k + 1) = n
      BY <1>5, <1>6, <1>7, <2>2, <3>1
    <3>3. QED BY <1>9, <3>2
  <2>3. CASE k < Len(s)
    <3>1. /\ k \in 0..Len(s) /\ k \in 0..(Len(s) + 1) /\ k + 1 \in 0..(Len(s) + 1)
          /\ k <= Len(s) /\ k + 1 <= Len(s) /\ Len(s) \in 0..(Len(s) + 1)
          /\ k # Len(s) /\ k + 1 # Len(s) + 1
      BY <1>1, <2>3
    <3>2. /\ At(t, k) = At(s, k) /\ At(t, k + 1) = At(s, k + 1)
          /\ At(s, k) \in Nodes(l) /\ At(s, k + 1) \in Nodes(l)
      BY <1>5, <3>1
    <3>3. At(s, k) # last
      BY <1>1, <1>3, <1>7, <3>1, NodesDiffer
    <3>4. At(s, k + 1) # TailNode
      BY <1>1, <3>1, SentinelsAreNoCells
    <3>5. At(s, k) \in all /\ At(s, k + 1) \in all /\ At(s, k) # n /\ At(s, k + 1) # n
      BY <1>8, <3>2 DEF all
    <3>6. ll.next[At(s, k)] = l.next[At(s, k)] /\ ll.prev[At(s, k + 1)] = l.prev[At(s, k + 1)]
      BY <1>4, <3>3, <3>4, <3>5
    <3>7. QED BY <1>3, <3>1, <3>2, <3>6
  <2>4. QED BY <1>1, <1>2, <2>1, <2>2, <2>3
<1>12. \A j, k \in 1..Len(t) : t[j] = t[k] => j = k
  <2>1. ASSUME NEW k \in 1..Len(s) PROVE t[k] = s[k] /\ s[k] # n
    <3>1. k \in 0..(Len(s) + 1) /\ At(s, k) = s[k]
      BY <1>1, SentinelsAreNoCells
    <3>2. QED BY <1>2, <1>3, <1>8, <3>1
  <2>2. \A k \in 1..Len(t) : k = Len(s) + 1 \/ k \in 1..Len(s)
    BY <1>1, <1>2
  <2>3. QED BY <1>2, <1>3, <2>1, <2>2
<1>13. \A m \in all : ll.data[m] = NULL <=> m \in {HeadNode, TailNode}
  BY <1>3, <1>4, <1>7, <1>8 DEF all
<1>14. Holds(ll, t)
  BY <1>2, <1>4, <1>10, <1>11, <1>12, <1>13 DEF Holds
<1>15. n \in all /\ \A m \in Nodes(l) : m \in all /\ m # n
  BY <1>8 DEF all
<1>16. QED BY <1>4, <1>14, <1>15 DEF t, ll

\* dlist_delete is RemoveAt.
THEOREM DeleteRemoves ==
    ASSUME NEW l, NEW s, Holds(l, s), NEW i \in Nat, i < Len(s)
    PROVE  /\ Holds(dlist_delete(l, i), RemoveAt(s, i + 1))
           /\ \A m \in Nodes(dlist_delete(l, i)) : dlist_delete(l, i).data[m] = l.data[m]
           /\ Nodes(dlist_delete(l, i)) \subseteq Nodes(l)
<1> DEFINE t == RemoveAt(s, i + 1)
           ll == dlist_delete(l, i)
           n == dlist_get(l, i)
           rest == Nodes(l) \ {n}
<1>1. s \in Seq(Cells) /\ Len(s) \in Nat /\ i + 1 \in 1..Len(s)
  BY DEF Holds
<1>2. /\ t \in Seq(Cells) /\ Len(t) = Len(s) - 1
      /\ \A k \in 1..(Len(s) - 1) : t[k] = IF k < i + 1 THEN s[k] ELSE s[k + 1]
  BY <1>1, DeleteProperties
<1>3. /\ Nodes(l) = {At(s, k) : k \in 0..(Len(s) + 1)}
      /\ \A k \in 0..Len(s) : l.next[At(s, k)] = At(s, k + 1) /\ l.prev[At(s, k + 1)] = At(s, k)
      /\ \A j, k \in 1..Len(s) : s[j] = s[k] => j = k
      /\ \A m \in Nodes(l) : l.data[m] = NULL <=> m \in {HeadNode, TailNode}
  BY DEF Holds
<1>4. n = s[i + 1] /\ n = At(s, i + 1) /\ n # NULL /\ n \in Cells
  <2>1. n = s[i + 1]
    BY WalkIsSequence
  <2>2. i + 1 \in 0..(Len(s) + 1)
    BY <1>1
  <2> HIDE DEF n
  <2>3. QED BY <1>1, <2>1, <2>2, SentinelsAreNoCells
<1>5. /\ DOMAIN ll.next = rest /\ DOMAIN ll.prev = rest /\ Nodes(ll) = rest
      /\ \A m \in rest : /\ ll.next[m] = IF m = l.prev[n] THEN l.next[n] ELSE l.next[m]
                         /\ ll.prev[m] = IF m = l.next[n] THEN l.prev[n] ELSE l.prev[m]
                         /\ ll.data[m] = l.data[m]
  <2>1. ll = [next |-> [m \in rest |-> IF m = l.prev[n] THEN l.next[n] ELSE l.next[m]],
              prev |-> [m \in rest |-> IF m = l.next[n] THEN l.prev[n] ELSE l.prev[m]],
              data |-> [m \in rest |-> l.data[m]]]
    BY <1>4 DEF dlist_delete
  <2> HIDE DEF ll, n, rest
  <2>2. QED BY <2>1 DEF Nodes
<1> HIDE DEF t, ll, n, rest
<1>6. l.prev[n] = At(s, i) /\ l.next[n] = At(s, i + 2)
  <2>1. i \in 0..Len(s) /\ i + 1 \in 0..Len(s) /\ (i + 1) + 1 = i + 2
    BY <1>1
  <2>2. QED BY <1>3, <1>4, <2>1
<1>7. ASSUME NEW k \in 0..Len(s)
      PROVE  At(t, k) = IF k < i + 1 THEN At(s, k) ELSE At(s, k + 1)
  <2>1. CASE k = 0
    BY <2>1 DEF At
  <2>2. CASE k = Len(s)
    <3>1. k = Len(t) + 1 /\ k # 0 /\ k + 1 # 0 /\ ~(k < i + 1)
      BY <1>1, <1>2, <2>2
    <3>2. QED BY <2>2, <3>1 DEF At
  <2>3. CASE k \in 1..(Len(s) - 1)
    <3>1. /\ k # 0 /\ k # Len(t) + 1 /\ k # Len(s) + 1
          /\ k + 1 # 0 /\ k + 1 # Len(s) + 1
      BY <1>1, <1>2, <2>3
    <3>2. QED BY <1>2, <2>3, <3>1 DEF At
  <2>4. QED BY <1>1, <2>1, <2>2, <2>3
<1>8. ASSUME NEW j \in 0..(Len(s) + 1), NEW k \in 0..(Len(s) + 1), At(s, j) = At(s, k)
      PROVE  j = k
  BY <1>1, <1>3, <1>8, NodesDiffer
<1>9. ASSUME NEW k \in 0..(Len(s) + 1), k # i + 1
      PROVE  At(s, k) \in rest
  <2>1. i + 1 \in 0..(Len(s) + 1)
    BY <1>1
  <2>2. At(s, k) # n
    BY <1>4, <1>8, <1>9, <2>1
  <2>3. QED BY <1>3, <2>2 DEF rest
<1>10. rest = {At(t, k) : k \in 0..(Len(t) + 1)}
  <2>1. 0..(Len(t) + 1) = 0..Len(s)
    BY <1>1, <1>2
  <2>2. ASSUME NEW m \in rest PROVE m \in {At(t, k) : k \in 0..Len(s)}
    <3>1. PICK k \in 0..(Len(s) + 1) : m = At(s, k)
      BY <1>3 DEF rest
    <3>2. k # i + 1
      BY <1>4, <3>1 DEF rest
    <3>3. CASE k < i + 1
      <4>1. k \in 0..Len(s)
        BY <1>1, <3>3
      <4>2. QED BY <1>7, <3>1, <3>3, <4>1
    <3>4. CASE k > i + 1
      <4>1. k - 1 \in 0..Len(s) /\ ~(k - 1 < i + 1) /\ (k - 1) + 1 = k
        BY <1>1, <3>4
      <4>2. At(t, k - 1) = m
        BY <1>7, <3>1, <4>1
      <4>3. QED BY <4>1, <4>2
    <3>5. QED BY <3>2, <3>3, <3>4
  <2>3. ASSUME NEW k \in 0..Len(s) PROVE At(t, k) \in rest
    <3>1. /\ k \in 0..(Len(s) + 1) /\ k + 1 \in 0..(Len(s) + 1)
          /\ k < i + 1 => k # i + 1
          /\ ~(k < i + 1) => k + 1 # i + 1
      BY <1>1
    <3>2. QED BY <1>7, <1>9, <3>1
  <2>4. QED BY <2>1, <2>2, <2>3
<1>11. ASSUME NEW k \in 0..Len(t)
       PROVE  ll.next[At(t, k)] = At(t, k + 1) /\ ll.prev[At(t, k + 1)] = At(t, k)
  <2>1. /\ k \in 0..Len(s) /\ k + 1 \in 0..Len(s) /\ k \in 0..(Len(s) + 1)
        /\ k + 1 \in 0..(Len(s) + 1) /\ k + 2 \in 0..(Len(s) + 1)
        /\ i \in 0..(Len(s) + 1) /\ i + 2 \in 0..(Len(s) + 1)
        /\ (k + 1) + 1 = k + 2
    BY <1>1, <1>2
  <2>2. CASE k < i
    <3>1. k < i + 1 /\ k + 1 < i + 1 /\ k # i /\ k + 1 # i + 1 /\ k # i + 1 /\ k + 1 # i + 2
      BY <1>1, <2>2
    <3>2. At(t, k) = At(s, k) /\ At(t, k + 1) = At(s, k + 1)
      BY <1>7, <2>1, <3>1
    <3>3. At(s, k) \in rest /\ At(s, k + 1) \in rest
      BY <1>9, <2>1, <3>1
    <3>4. At(s, k) # At(s, i) /\ At(s, k + 1) # At(s, i + 2)
      BY <1>8, <2>1, <3>1
    <3>5. ll.next[At(s, k)] = l.next[At(s, k)] /\ ll.prev[At(s, k + 1)] = l.prev[At(s, k + 1)]
      BY <1>5, <1>6, <3>3, <3>4
    <3>6. QED BY <1>3, <2>1, <3>2, <3>5
  <2>3. CASE k = i
    <3>1. k < i + 1 /\ ~(k + 1 < i + 1) /\ i # i + 1 /\ i + 2 # i + 1 /\ (i + 1) + 1 = i + 2
      BY <1>1, <2>3
    <3>2. At(t, k) = At(s, i) /\ At(t, k + 1) = At(s, i + 2)
      BY <1>7, <2>1, <2>3, <3>1
    <3>3. At(s, i) \in rest /\ At(s, i + 2) \in rest
      BY <1>9, <2>1, <3>1
    <3>4. QED BY <1>5, <1>6, <3>2, <3>3
  <2>4. CASE k > i
    <3>1. /\ ~(k < i + 1) /\ ~(k + 1 < i + 1) /\ k + 1 # i /\ k + 2 # i + 2
          /\ k + 1 # i + 1 /\ k + 2 # i + 1
      BY <1>1, <2>4
    <3>2. At(t, k) = At(s, k + 1) /\ At(t, k + 1) = At(s, k + 2)
      BY <1>7, <2>1, <3>1
    <3>3. At(s, k + 1) \in rest /\ At(s, k + 2) \in rest
      BY <1>9, <2>1, <3>1
    <3>4. At(s, k + 1) # At(s, i) /\ At(s, k + 2) # At(s, i + 2)
      BY <1>8, <2>1, <3>1
    <3>5. /\ ll.next[At(s, k + 1)] = l.next[At(s, k + 1)]
          /\ ll.prev[At(s, k + 2)] = l.prev[At(s, k + 2)]
      BY <1>5, <1>6, <3>3, <3>4
    <3>6. l.next[At(s, k + 1)] = At(s, (k + 1) + 1) /\ l.prev[At(s, (k + 1) + 1)] = At(s, k + 1)
      BY <1>3, <2>1
    <3>7. QED BY <2>1, <3>2, <3>5, <3>6
  <2>5. QED BY <1>1, <1>2, <2>2, <2>3, <2>4
<1>12. \A j, k \in 1..Len(t) : t[j] = t[k] => j = k
  <2>1. SUFFICES ASSUME NEW j \in 1..Len(t), NEW k \in 1..Len(t), t[j] = t[k] PROVE j = k
    OBVIOUS
  <2> DEFINE jj == IF j < i + 1 THEN j ELSE j + 1
             kk == IF k < i + 1 THEN k ELSE k + 1
  <2>2. jj \in 1..Len(s) /\ kk \in 1..Len(s) /\ (jj = kk => j = k)
    BY <1>1, <1>2
  <2>3. t[j] = s[jj] /\ t[k] = s[kk]
    BY <1>1, <1>2
  <2> HIDE DEF jj, kk
  <2>4. QED BY <1>3, <2>1, <2>2, <2>3
<1>13. \A m \in rest : ll.data[m] = NULL <=> m \in {HeadNode, TailNode}
  BY <1>3, <1>5 DEF rest
<1>14. Holds(ll, t)
  BY <1>2, <1>5, <1>10, <1>11, <1>12, <1>13 DEF Holds
<1>15. rest \subseteq Nodes(l)
  BY DEF rest
<1>16. QED BY <1>5, <1>14, <1>15 DEF ll, t

-----------------------------------------------------------------------------
(***************************************************************************)
(* Log                                                                     *)
(*                                                                         *)
(* The list in memory implements the sequence of the latest records, so    *)
(* what it shows by index does not depend on how its links came about. Two *)
(* facts beyond what the properties say make them inductive: log_fp stands *)
(* at the end of the last file, so nothing is written over, and what a     *)
(* pass of the reader has got is the log up to its cursor.                 *)
(***************************************************************************)

\* How many records the list in memory keeps
Kept == IF printed < MemoryLimit THEN printed ELSE MemoryLimit

\* Its entries are the latest records, the newest is record printed.
Recorded(l, s) ==
    /\ Holds(l, s)
    /\ Len(s) = log_size
    /\ \A k \in 1..Len(s) : l.data[s[k]] = printed - log_size + k

MemoryInv ==
    /\ log_size = IF log_list = NULL THEN 0 ELSE Kept
    /\ log_list # NULL => debug_log_size > 0 /\ \E s \in Seq(Cells) : Recorded(log_list, s)
    /\ log_list = NULL /\ debug_log_size > 0 => printed = 0

\* log_fp stands at the end of the last file: nothing is written over.
AtTheEnd(o) == o.log_fp # NoFile => o.log_fp = Len(o.files[Len(o.files)])

UpTo(o, n) ==
    /\ o \in [files : Seq(Seq(Line)), log_fp : Int, path : BOOLEAN]
    /\ Len(o.files) > 0
    /\ AtTheEnd(o)
    /\ \A f \in DOMAIN o.files : /\ Increasing(o.files[f])
                                 /\ \A k \in DOMAIN o.files[f] : o.files[f][k] <= n

\* The cursor of the reader is at the start unless a pass is under way, and what
\* a pass has read is the log up to its cursor.
CursorInv ==
    /\ ~cat.reading => index = 0
    /\ debug_log_size <= 0 => index = 0
    /\ cat.reading => debug_log_size >= 0
    /\ cat.reading /\ debug_log_size > 0 =>
          /\ Len(cat.got) = index /\ index <= log_size
          /\ \A k \in 1..index : cat.got[k] = printed - log_size + k
    /\ cat.reading /\ debug_log_size = 0 =>
          /\ cat.file \in DOMAIN out.files
          /\ Len(cat.got) = cat.pos /\ cat.pos <= Len(out.files[cat.file])
          /\ \A k \in 1..cat.pos : cat.got[k] = out.files[cat.file][k]

LogInv == LogTypeOK /\ MemoryInv /\ UpTo(out, printed) /\ CursorInv

-----------------------------------------------------------------------------
\* Lists

LEMMA CreatedIsList == ASSUME NEW D PROVE IsList(dlist_create, D)
<1> DEFINE N == {HeadNode, TailNode}
<1>1. N \in SUBSET (Cells \cup {HeadNode, TailNode})
  OBVIOUS
<1>2. dlist_create \in [next : Pointers(N), prev : Pointers(N), data : [N -> D \cup {NULL}]]
  BY DEF dlist_create, Pointers
<1>3. QED BY <1>1, <1>2 DEF IsList

LEMMA ListParts ==
    ASSUME NEW D, NEW l, IsList(l, D)
    PROVE  /\ l.next \in Pointers(Nodes(l)) /\ l.prev \in Pointers(Nodes(l))
           /\ l.data \in [Nodes(l) -> D \cup {NULL}]
           /\ Nodes(l) \in SUBSET (Cells \cup {HeadNode, TailNode})
           /\ l = [next |-> l.next, prev |-> l.prev, data |-> l.data]
<1>1. PICK N \in SUBSET (Cells \cup {HeadNode, TailNode}) :
          l \in [next : Pointers(N), prev : Pointers(N), data : [N -> D \cup {NULL}]]
  BY DEF IsList
<1>2. Nodes(l) = N
  BY <1>1 DEF Nodes
<1>3. QED BY <1>1, <1>2

LEMMA AttachedIsList ==
    ASSUME NEW D, NEW l, IsList(l, D), NEW n \in Cells, NEW d \in D, TailNode \in Nodes(l)
    PROVE  IsList(dlist_attach(l, n, d), D)
<1> DEFINE all == Nodes(l) \cup {n}
           last == l.prev[TailNode]
           ll == dlist_attach(l, n, d)
           P == Cells \cup {HeadNode, TailNode, NULL}
<1>1. /\ l.next \in [Nodes(l) -> P] /\ l.prev \in [Nodes(l) -> P]
      /\ l.data \in [Nodes(l) -> D \cup {NULL}]
      /\ Nodes(l) \in SUBSET (Cells \cup {HeadNode, TailNode})
  BY ListParts DEF Pointers
<1>2. last \in P
  BY <1>1
<1> HIDE DEF last
<1>3. ASSUME NEW m \in all
      PROVE  /\ (CASE m = n -> TailNode [] m = last -> n [] OTHER -> l.next[m]) \in P
             /\ (CASE m = n -> last [] m = TailNode -> n [] OTHER -> l.prev[m]) \in P
             /\ (IF m = n THEN d ELSE l.data[m]) \in D \cup {NULL}
  <2>1. m # n => l.next[m] \in P /\ l.prev[m] \in P /\ l.data[m] \in D \cup {NULL}
    BY <1>1
  <2>2. n \in P /\ TailNode \in P
    OBVIOUS
  <2> HIDE DEF P
  <2>3. QED BY <1>2, <2>1, <2>2
<1>4. ll = [next |-> [m \in all |-> CASE m = n -> TailNode [] m = last -> n [] OTHER -> l.next[m]],
            prev |-> [m \in all |-> CASE m = n -> last [] m = TailNode -> n [] OTHER -> l.prev[m]],
            data |-> [m \in all |-> IF m = n THEN d ELSE l.data[m]]]
  BY DEF dlist_attach, last
<1>5. all \in SUBSET (Cells \cup {HeadNode, TailNode})
  BY <1>1
<1> HIDE DEF all, ll
<1>6. ll \in [next : Pointers(all), prev : Pointers(all), data : [all -> D \cup {NULL}]]
  BY <1>3, <1>4 DEF Pointers
<1>7. IsList(ll, D)
  BY <1>5, <1>6 DEF IsList
<1>8. QED BY <1>7 DEF ll

LEMMA DeletedIsList ==
    ASSUME NEW D, NEW l, IsList(l, D), NEW s, Holds(l, s), NEW i \in Nat, i < Len(s)
    PROVE  IsList(dlist_delete(l, i), D)
<1> DEFINE n == dlist_get(l, i)
           rest == Nodes(l) \ {n}
           ll == dlist_delete(l, i)
           P == Cells \cup {HeadNode, TailNode, NULL}
<1>1. /\ l.next \in [Nodes(l) -> P] /\ l.prev \in [Nodes(l) -> P]
      /\ l.data \in [Nodes(l) -> D \cup {NULL}]
      /\ Nodes(l) \in SUBSET (Cells \cup {HeadNode, TailNode})
  BY ListParts DEF Pointers
<1>2. n # NULL /\ n \in Nodes(l)
  <2>1. n = s[i + 1] /\ i + 1 \in 1..Len(s)
    <3>1. Len(s) \in Nat
      BY WalkIsShort
    <3>2. QED BY <3>1, WalkIsSequence
  <2>2. s[i + 1] \in Nodes(l) /\ s[i + 1] \in Cells
    BY <2>1, ContentsInOrder
  <2>3. QED BY <2>1, <2>2, NodesAssumption
<1>3. ll = [next |-> [m \in rest |-> IF m = l.prev[n] THEN l.next[n] ELSE l.next[m]],
            prev |-> [m \in rest |-> IF m = l.next[n] THEN l.prev[n] ELSE l.prev[m]],
            data |-> [m \in rest |-> l.data[m]]]
  BY <1>2 DEF dlist_delete
<1>4. rest \in SUBSET (Cells \cup {HeadNode, TailNode})
  BY <1>1
<1>5. \A m \in rest : /\ l.next[m] \in P /\ l.prev[m] \in P /\ l.data[m] \in D \cup {NULL}
  BY <1>1
<1>6. l.next[n] \in P /\ l.prev[n] \in P
  BY <1>1, <1>2
<1> HIDE DEF n, rest, ll
<1>7. ll \in [next : Pointers(rest), prev : Pointers(rest), data : [rest -> D \cup {NULL}]]
  BY <1>3, <1>5, <1>6 DEF Pointers
<1>8. IsList(ll, D)
  BY <1>4, <1>7 DEF IsList
<1>9. QED BY <1>8 DEF ll

-----------------------------------------------------------------------------
\* Files

LastFile(o) == o.files[Len(o.files)]

LEMMA LinesAreNumbers ==
    ASSUME NEW q \in Seq(Line)
    PROVE  \A k \in DOMAIN q : q[k] \in Int
<1>1. Line \subseteq Int
  BY DEF Line, Start
<1>2. \A k \in DOMAIN q : q[k] \in Line
  OBVIOUS
<1>3. QED BY <1>1, <1>2

LEMMA OneLine == ASSUME NEW q, q = <<>> PROVE Append(q, Start) = <<Start>>
OBVIOUS

LEMMA LineAdded ==
    ASSUME NEW o \in [files : Seq(Seq(Line)), log_fp : Int, path : BOOLEAN], NEW i, NEW x,
           NEW w, w = [o EXCEPT !.files[i] = x, !.log_fp = @ + 1]
    PROVE  /\ w.files = [o.files EXCEPT ![i] = x]
           /\ w.log_fp = o.log_fp + 1 /\ w.path = o.path
           /\ w = [files |-> w.files, log_fp |-> w.log_fp, path |-> w.path]
OBVIOUS

LEMMA OutOf ==
    ASSUME NEW files \in Seq(Seq(Line)), NEW fp \in Int, NEW path \in BOOLEAN
    PROVE  [files |-> files, log_fp |-> fp, path |-> path]
               \in [files : Seq(Seq(Line)), log_fp : Int, path : BOOLEAN]
OBVIOUS

\* A line that is greater than all in the last file is added to it.
LEMMA WriteKeepsOrder ==
    ASSUME NEW o, NEW n \in Int, UpTo(o, n), NEW line \in Line, line >= n,
           NEW ok \in BOOLEAN,
           o.log_fp # NoFile => \A k \in DOMAIN LastFile(o) : LastFile(o)[k] < line
    PROVE  UpTo(Write(o, line, ok), line)
<1> DEFINE e == Len(o.files)
           file == o.files[e]
           w == Write(o, line, ok)
<1>1. /\ o \in [files : Seq(Seq(Line)), log_fp : Int, path : BOOLEAN]
      /\ o.files \in Seq(Seq(Line)) /\ o.log_fp \in Int
      /\ e \in DOMAIN o.files /\ e \in Nat /\ file \in Seq(Line)
  BY DEF UpTo
<1>2. /\ o.log_fp # NoFile => o.log_fp = Len(file)
      /\ \A f \in DOMAIN o.files : /\ Increasing(o.files[f])
                                   /\ \A k \in DOMAIN o.files[f] : o.files[f][k] <= n
  BY DEF UpTo, AtTheEnd
<1>3. \A f \in DOMAIN o.files : \A k \in DOMAIN o.files[f] : o.files[f][k] <= line
  <2>1. \A f \in DOMAIN o.files : \A k \in DOMAIN o.files[f] : o.files[f][k] \in Int
    <3>1. \A f \in DOMAIN o.files : o.files[f] \in Seq(Line)
      BY <1>1
    <3>2. QED BY <3>1, LinesAreNumbers
  <2>2. line \in Int
    BY DEF Line, Start
  <2>3. QED BY <1>2, <2>1, <2>2
<1>4. CASE ~(ok /\ o.log_fp # NoFile)
  <2>1. w = o
    BY <1>4 DEF Write
  <2>2. UpTo(o, line)
    BY <1>3 DEF UpTo
  <2>3. QED BY <2>1, <2>2
<1>5. CASE ok /\ o.log_fp # NoFile
  <2> DEFINE longer == Append(file, line)
  <2>1. w = [o EXCEPT !.files[e] = longer, !.log_fp = @ + 1]
    <3>1. ~(o.log_fp < Len(o.files[e]))
      BY <1>1, <1>2, <1>5
    <3>2. QED BY <1>1, <1>5, <3>1 DEF Write
  <2>2. /\ longer \in Seq(Line) /\ Len(longer) = Len(file) + 1
        /\ longer[Len(file) + 1] = line
        /\ \A k \in 1..Len(file) : longer[k] = file[k]
        /\ DOMAIN longer = 1..(Len(file) + 1) /\ DOMAIN file = 1..Len(file)
        /\ Len(file) \in Nat
    BY <1>1
  <2>3. Increasing(longer) /\ \A k \in DOMAIN longer : longer[k] <= line
    <3>1. \A k \in 1..Len(file) : file[k] < line /\ file[k] <= line
      <4>1. \A k \in 1..Len(file) : file[k] < line
        BY <1>5, <2>2 DEF LastFile
      <4>2. \A k \in 1..Len(file) : file[k] \in Int
        BY <1>1, <2>2, LinesAreNumbers
      <4>3. line \in Int
        BY DEF Line, Start
      <4>4. QED BY <4>1, <4>2, <4>3
    <3>2. \A j, k \in 1..Len(file) : j < k => file[j] < file[k]
      BY <1>1, <1>2, <2>2 DEF Increasing
    <3>3. line <= line
      BY DEF Line, Start
    <3>4. \A k \in DOMAIN longer : k = Len(file) + 1 \/ k \in 1..Len(file)
      BY <2>2
    <3>5. \A j, k \in DOMAIN longer : j < k => j \in 1..Len(file)
      BY <2>2
    <3> HIDE DEF longer, file
    <3>6. Increasing(longer)
      BY <2>2, <3>1, <3>2, <3>4, <3>5 DEF Increasing
    <3>7. QED BY <2>2, <3>1, <3>3, <3>4, <3>6
  <2> HIDE DEF longer, file
  <2>4. /\ w.files = [o.files EXCEPT ![e] = longer]
        /\ w.log_fp = o.log_fp + 1 /\ w.path = o.path
        /\ w = [files |-> w.files, log_fp |-> w.log_fp, path |-> w.path]
    BY <1>1, <2>1
  <2>5. /\ w.files \in Seq(Seq(Line)) /\ Len(w.files) = e /\ DOMAIN w.files = DOMAIN o.files
        /\ w.files[e] = longer
        /\ \A f \in DOMAIN o.files : f # e => w.files[f] = o.files[f]
    BY <1>1, <2>2, <2>4
  <2>6. w.log_fp = Len(w.files[Len(w.files)])
    BY <1>2, <1>5, <2>2, <2>4, <2>5
  <2>7. w \in [files : Seq(Seq(Line)), log_fp : Int, path : BOOLEAN]
    <3>1. w.log_fp \in Int /\ w.path \in BOOLEAN
      BY <1>1, <2>4
    <3> HIDE DEF w
    <3>2. QED BY <2>4, <2>5, <3>1
  <2>8. Len(w.files) > 0
    BY <1>1, <2>5 DEF UpTo
  <2>9. \A f \in DOMAIN w.files : /\ Increasing(w.files[f])
                                  /\ \A k \in DOMAIN w.files[f] : w.files[f][k] <= line
    <3> HIDE DEF w
    <3>1. QED BY <1>2, <1>3, <2>3, <2>5
  <2> HIDE DEF w
  <2>10. UpTo(w, line)
    BY <2>6, <2>7, <2>8, <2>9 DEF UpTo, AtTheEnd
  <2>11. QED BY <2>10 DEF w
<1>6. QED BY <1>4, <1>5

\* A file that is created anew holds the line of the start at most.
LEMMA CreateKeepsOrder ==
    ASSUME NEW o, NEW n \in Nat, UpTo(o, n), NEW opens \in BOOLEAN, NEW ok \in BOOLEAN
    PROVE  LET c == CreateLogfile(o, opens, ok)
           IN  /\ UpTo(c, n)
               /\ c.log_fp # NoFile => \A k \in DOMAIN LastFile(c) : LastFile(c)[k] <= 0
<1> DEFINE c == CreateLogfile(o, opens, ok)
           fresh == [files |-> Append(o.files, <<>>), log_fp |-> 0, path |-> TRUE]
<1>1. o \in [files : Seq(Seq(Line)), log_fp : Int, path : BOOLEAN] /\ Len(o.files) > 0
  BY DEF UpTo
<1>2. CASE ~opens
  <2>1. c = [files |-> o.files, log_fp |-> NoFile, path |-> FALSE]
    BY <1>1, <1>2 DEF CreateLogfile
  <2>2. NoFile \in Int
    BY DEF NoFile
  <2>3. UpTo(c, n) /\ c.log_fp = NoFile
    BY <1>1, <2>1, <2>2 DEF UpTo, AtTheEnd
  <2>4. QED BY <2>3
<1>3. CASE opens
  <2>1. c = Write(fresh, Start, ok)
    BY <1>3 DEF CreateLogfile
  <2>2. /\ fresh.files \in Seq(Seq(Line)) /\ Len(fresh.files) = Len(o.files) + 1
        /\ fresh.files[Len(o.files) + 1] = <<>>
        /\ \A f \in DOMAIN o.files : fresh.files[f] = o.files[f]
        /\ \A f \in DOMAIN fresh.files : f = Len(o.files) + 1 \/ f \in DOMAIN o.files
    <3>1. <<>> \in Seq(Line)
      OBVIOUS
    <3>2. QED BY <1>1, <3>1
  <2> DEFINE w == Write(fresh, Start, ok)
  <2>3. LastFile(fresh) = <<>>
    BY <2>2 DEF LastFile
  <2>4. \/ w = fresh
        \/ /\ w.log_fp = 1
           /\ w.files = [fresh.files EXCEPT ![Len(fresh.files)] = <<Start>>]
           /\ w = [files |-> w.files, log_fp |-> w.log_fp, path |-> TRUE]
    <3>1. CASE ~ok
      BY <3>1 DEF Write, NoFile
    <3>2. CASE ok
      <4>1. fresh.log_fp # NoFile /\ ~(fresh.log_fp < Len(fresh.files[Len(fresh.files)]))
        BY <2>3 DEF LastFile, NoFile
      <4>2. Append(fresh.files[Len(fresh.files)], Start) = <<Start>>
        BY <2>3, OneLine DEF LastFile
      <4>3. w = [fresh EXCEPT !.files[Len(fresh.files)] = <<Start>>, !.log_fp = @ + 1]
        BY <3>2, <4>1, <4>2 DEF Write
      <4>4. fresh.log_fp = 0 /\ fresh.path = TRUE
        OBVIOUS
      <4>5. fresh \in [files : Seq(Seq(Line)), log_fp : Int, path : BOOLEAN]
        BY <2>2
      <4> HIDE DEF w, fresh
      <4>6. /\ w.files = [fresh.files EXCEPT ![Len(fresh.files)] = <<Start>>]
            /\ w.log_fp = fresh.log_fp + 1 /\ w.path = fresh.path
            /\ w = [files |-> w.files, log_fp |-> w.log_fp, path |-> w.path]
        BY <4>3, <4>5, LineAdded
      <4>7. QED BY <4>4, <4>6
    <3>3. QED BY <3>1, <3>2
  <2>5. Len(o.files) \in Nat /\ n \in Int
    BY <1>1
  <2>6. /\ UpTo(fresh, n)
    <3>1. \A f \in DOMAIN fresh.files : /\ Increasing(fresh.files[f])
                                        /\ \A k \in DOMAIN fresh.files[f] : fresh.files[f][k] <= n
      <4>1. \A f \in DOMAIN o.files : /\ Increasing(o.files[f])
                                      /\ \A k \in DOMAIN o.files[f] : o.files[f][k] <= n
        BY DEF UpTo
      <4>2. Increasing(<<>>) /\ \A k \in DOMAIN <<>> : <<>>[k] <= n
        BY DEF Increasing
      <4> HIDE DEF fresh
      <4>3. QED BY <2>2, <4>1, <4>2
    <3>2. fresh \in [files : Seq(Seq(Line)), log_fp : Int, path : BOOLEAN]
      BY <2>2
    <3>3. Len(fresh.files) > 0 /\ AtTheEnd(fresh)
      BY <2>2, <2>3, <2>5 DEF AtTheEnd, LastFile
    <3>4. QED BY <3>1, <3>2, <3>3 DEF UpTo
  <2> HIDE DEF fresh, w
  <2>7. CASE w = fresh
    BY <2>1, <2>3, <2>6, <2>7 DEF w
  <2>8. CASE w # fresh
    <3> DEFINE e == Len(fresh.files)
               one == <<Start>>
    <3>1. /\ w.log_fp = 1 /\ w.files = [fresh.files EXCEPT ![e] = one]
          /\ w = [files |-> w.files, log_fp |-> w.log_fp, path |-> TRUE]
      BY <2>4, <2>8
    <3>2. /\ one \in Seq(Line) /\ Len(one) = 1 /\ DOMAIN one = {1} /\ one[1] = 0
          /\ Increasing(one) /\ \A k \in DOMAIN one : one[k] <= 0 /\ one[k] <= n
      <4>1. 0 \in Line
        BY LogAssumption DEF Line, Start
      <4>2. QED BY <4>1 DEF Increasing, Start
    <3>3. e \in DOMAIN fresh.files /\ e \in Nat
      BY <2>2, <2>5
    <3> HIDE DEF one
    <3>4. /\ w.files \in Seq(Seq(Line)) /\ Len(w.files) = e /\ DOMAIN w.files = DOMAIN fresh.files
          /\ w.files[e] = one
          /\ \A f \in DOMAIN w.files : f # e => w.files[f] = fresh.files[f]
      BY <2>2, <3>1, <3>2, <3>3
    <3>5. \A f \in DOMAIN w.files : /\ Increasing(w.files[f])
                                    /\ \A k \in DOMAIN w.files[f] : w.files[f][k] <= n
      BY <2>6, <3>2, <3>4 DEF UpTo
    <3>6. w \in [files : Seq(Seq(Line)), log_fp : Int, path : BOOLEAN]
      <4>1. w.log_fp \in Int /\ TRUE \in BOOLEAN
        BY <3>1
      <4>2. QED BY <3>1, <3>4, <4>1, OutOf
    <3>7. Len(w.files) > 0 /\ AtTheEnd(w)
      BY <2>2, <2>5, <3>1, <3>2, <3>4 DEF AtTheEnd
    <3>8. UpTo(w, n)
      BY <3>5, <3>6, <3>7 DEF UpTo
    <3>9. \A k \in DOMAIN LastFile(w) : LastFile(w)[k] <= 0
      BY <3>2, <3>4 DEF LastFile
    <3>10. QED BY <2>1, <3>8, <3>9 DEF w
  <2>9. QED BY <2>7, <2>8
<1>4. QED BY <1>2, <1>3

-----------------------------------------------------------------------------
\* The list in memory

LEMMA LimitIsNatural ==
    ASSUME LogTypeOK
    PROVE  /\ debug_log_size \in Int /\ printed \in Nat /\ MaxPrints \in Nat
           /\ MemoryLimit \in Nat /\ Kept \in 0..MemoryLimit
           /\ debug_log_size > 0 => MemoryLimit = debug_log_size + 1
BY LogAssumption DEF LogTypeOK, MemoryLimit, Kept

\* The list that a record is added to, created if need be.
LEMMA ListBefore ==
    ASSUME LogTypeOK, MemoryInv, debug_log_size > 0,
           NEW l, l = IF log_list = NULL THEN dlist_create ELSE log_list
    PROVE  /\ IsList(l, 1..MaxPrints)
           /\ log_size = Kept
           /\ \E s : Recorded(l, s)
<1>1. CASE log_list = NULL
  <2>1. printed = 0 /\ log_size = 0 /\ Kept = 0
    BY <1>1, LimitIsNatural DEF MemoryInv, Kept
  <2>2. Holds(l, <<>>)
    BY <1>1, CreatedIsEmpty
  <2>3. Recorded(l, <<>>)
    BY <2>1, <2>2 DEF Recorded
  <2>4. IsList(l, 1..MaxPrints)
    BY <1>1, CreatedIsList
  <2>5. QED BY <2>1, <2>3, <2>4
<1>2. CASE log_list # NULL
  BY <1>2 DEF MemoryInv, LogTypeOK
<1>3. QED BY <1>1, <1>2

\* ... and what is left of it when the oldest record was pushed out.
LEMMA PushedOutKeeps ==
    ASSUME LogTypeOK, debug_log_size > 0, log_size = Kept,
           NEW l, IsList(l, 1..MaxPrints), NEW s, Recorded(l, s)
    PROVE  LET old == PushedOut(l)
               left == log_size - old.deleted
           IN  /\ IsList(old.list, 1..MaxPrints)
               /\ old.deleted \in {0, 1} /\ left \in Nat
               /\ left + 1 = IF printed + 1 < MemoryLimit THEN printed + 1 ELSE MemoryLimit
               /\ \E t : /\ Holds(old.list, t)
                         /\ Len(t) = left
                         /\ \A k \in 1..Len(t) : old.list.data[t[k]] = printed - left + k
<1> DEFINE old == PushedOut(l)
<1>1. Holds(l, s) /\ Len(s) = log_size
  BY DEF Recorded
<1>2. /\ log_size \in Nat /\ debug_log_size \in Int /\ printed \in Nat
      /\ MemoryLimit = debug_log_size + 1
      /\ log_size = IF printed < MemoryLimit THEN printed ELSE MemoryLimit
  BY LimitIsNatural DEF Kept
<1>3. CASE log_size > debug_log_size
  <2> DEFINE ll == dlist_delete(l, 0)
             t == RemoveAt(s, 1)
  <2>1. old.list = ll /\ old.deleted = 1
    BY <1>3 DEF PushedOut
  <2>2. 0 < Len(s) /\ 0 \in Nat /\ 0 + 1 = 1
    BY <1>1, <1>2, <1>3
  <2>3. /\ Holds(ll, t) /\ IsList(ll, 1..MaxPrints)
        /\ \A m \in Nodes(ll) : ll.data[m] = l.data[m]
    BY <1>1, <2>2, DeleteRemoves, DeletedIsList
  <2>4. Len(t) = log_size - 1 /\ \A k \in 1..Len(t) : t[k] = s[k + 1]
    <3>1. s \in Seq(Cells) /\ 1 \in 1..Len(s)
      BY <1>1, <2>2, WalkIsShort DEF Holds
    <3>2. /\ Len(t) = Len(s) - 1
          /\ \A k \in 1..(Len(s) - 1) : t[k] = IF k < 1 THEN s[k] ELSE s[k + 1]
      BY <3>1, DeleteProperties
    <3>3. \A k \in 1..(Len(s) - 1) : ~(k < 1)
      BY <1>1, <1>2
    <3> HIDE DEF t
    <3>4. QED BY <1>1, <3>2, <3>3
  <2> HIDE DEF ll, t
  <2>5. ASSUME NEW k \in 1..Len(t) PROVE ll.data[t[k]] = printed - (log_size - 1) + k
    <3>1. k + 1 \in 1..Len(s) /\ k \in Int
      BY <1>1, <1>2, <2>4
    <3>2. l.data[s[k + 1]] = printed - log_size + (k + 1)
      BY <3>1 DEF Recorded
    <3>3. t[k] \in Nodes(ll)
      BY <2>3, ContentsInOrder
    <3>4. ll.data[t[k]] = printed - log_size + (k + 1)
      BY <2>3, <2>4, <3>2, <3>3
    <3>5. printed - log_size + (k + 1) = printed - (log_size - 1) + k
      BY <1>2, <3>1
    <3>6. QED BY <3>4, <3>5
  <2>6. /\ log_size - 1 \in Nat
        /\ (log_size - 1) + 1 = IF printed + 1 < MemoryLimit THEN printed + 1 ELSE MemoryLimit
    BY <1>2, <1>3
  <2>7. QED BY <2>1, <2>3, <2>4, <2>5, <2>6
<1>4. CASE ~(log_size > debug_log_size)
  <2>1. old.list = l /\ old.deleted = 0 /\ log_size - 0 = log_size
    BY <1>2, <1>4 DEF PushedOut
  <2>2. log_size + 1 = IF printed + 1 < MemoryLimit THEN printed + 1 ELSE MemoryLimit
    BY <1>2, <1>4
  <2>3. \A k \in 1..Len(s) : l.data[s[k]] = printed - log_size + k
    BY DEF Recorded
  <2> HIDE DEF old
  <2>4. QED BY <1>1, <1>2, <2>1, <2>2, <2>3 DEF old
<1>5. QED BY <1>3, <1>4

LEMMA PushKeepsMemory ==
    ASSUME LogTypeOK, MemoryInv, PrintToMemory, printed' = printed + 1, printed < MaxPrints,
           UNCHANGED debug_log_size
    PROVE  /\ MemoryInv'
           /\ IsList(log_list, 1..MaxPrints)'
           /\ (log_size \in 0..MemoryLimit)'
<1> DEFINE l == IF log_list = NULL THEN dlist_create ELSE log_list
           old == PushedOut(l)
           left == log_size - old.deleted
<1>1. debug_log_size > 0
  BY DEF PrintToMemory
<1>2. PICK n \in Cells \ Nodes(old.list) : log_list' = dlist_attach(old.list, n, printed + 1)
  BY DEF PrintToMemory
<1>3. log_size' = left + 1
  BY LimitIsNatural, <1>1 DEF PrintToMemory
<1>4. /\ IsList(l, 1..MaxPrints) /\ log_size = Kept
      /\ \E s : Recorded(l, s)
  BY <1>1, ListBefore
<1> HIDE DEF l
<1>5. PICK s : Recorded(l, s)
  BY <1>4
<1>6. /\ IsList(old.list, 1..MaxPrints)
      /\ old.deleted \in {0, 1} /\ left \in Nat
      /\ left + 1 = IF printed + 1 < MemoryLimit THEN printed + 1 ELSE MemoryLimit
      /\ \E t : /\ Holds(old.list, t)
                /\ Len(t) = left
                /\ \A k \in 1..Len(t) : old.list.data[t[k]] = printed - left + k
  BY <1>1, <1>4, <1>5, PushedOutKeeps
<1> HIDE DEF old, left
<1>7. PICK t : /\ Holds(old.list, t)
               /\ Len(t) = left
               /\ \A k \in 1..Len(t) : old.list.data[t[k]] = printed - left + k
  BY <1>6
<1>8. /\ printed \in Nat /\ printed + 1 \in 1..MaxPrints /\ printed + 1 # NULL
      /\ debug_log_size \in Int /\ MemoryLimit \in Nat
  BY LimitIsNatural, LogAssumption
<1> DEFINE u == Append(t, n)
<1>9. /\ Holds(log_list', u)
      /\ log_list'.data[n] = printed + 1
      /\ \A m \in Nodes(old.list) : log_list'.data[m] = old.list.data[m]
  BY <1>2, <1>7, <1>8, AttachAppends
<1>10. IsList(log_list', 1..MaxPrints)
  <2>1. TailNode \in Nodes(old.list)
    <3>1. Len(t) \in Nat /\ At(t, Len(t) + 1) = TailNode
      BY <1>6, <1>7 DEF At
    <3>2. Len(t) + 1 \in 0..(Len(t) + 1)
      BY <3>1
    <3>3. QED BY <1>7, <3>1, <3>2 DEF Holds
  <2>2. QED BY <1>2, <1>6, <1>8, <2>1, AttachedIsList
<1>11. log_list' # NULL
  BY <1>10, LogAssumption
<1>12. /\ Len(u) = left + 1 /\ u[left + 1] = n
       /\ \A k \in 1..left : u[k] = t[k] /\ t[k] \in Nodes(old.list)
  <2>1. t \in Seq(Cells)
    BY <1>7 DEF Holds
  <2>2. \A k \in 1..left : t[k] \in Nodes(old.list)
    BY <1>7, ContentsInOrder
  <2>3. QED BY <1>7, <2>1, <2>2
<1> HIDE DEF u
<1>13. ASSUME NEW k \in 1..Len(u)
       PROVE  log_list'.data[u[k]] = printed' - log_size' + k
  <2>1. printed' - log_size' + k = printed - left + k /\ k \in Int
    BY <1>3, <1>6, <1>8
  <2>2. CASE k = left + 1
    <3>1. printed - left + k = printed + 1
      BY <1>6, <1>8, <2>2
    <3>2. QED BY <1>9, <1>12, <2>1, <2>2, <3>1
  <2>3. CASE k # left + 1
    <3>1. k \in 1..left
      BY <1>6, <1>12, <2>3
    <3>2. old.list.data[t[k]] = printed - left + k
      BY <1>7, <3>1
    <3>3. QED BY <1>9, <1>12, <2>1, <3>1, <3>2
  <2>4. QED BY <2>2, <2>3
<1>14. u \in Seq(Cells)
  BY <1>9 DEF Holds
<1>15. Recorded(log_list, u)'
  BY <1>3, <1>9, <1>12, <1>13 DEF Recorded
<1>16. MemoryLimit' = MemoryLimit
  BY DEF MemoryLimit
<1>17. log_size' = Kept' /\ log_size' \in 0..MemoryLimit'
  BY <1>3, <1>6, <1>8, <1>16 DEF Kept
<1>18. MemoryInv'
  BY <1>1, <1>11, <1>14, <1>15, <1>17 DEF MemoryInv
<1>19. QED BY <1>10, <1>17, <1>18

\* What the list holds, as the property has it.
LEMMA MemoryIsLatest ==
    ASSUME LogTypeOK, MemoryInv, log_list # NULL
    PROVE  /\ Contents(log_list) = Latest /\ ChainsAgree /\ log_size = dlist_len(log_list)
           /\ \A i \in Nat : i < log_size =>
                 /\ dlist_get(log_list, i) # NULL
                 /\ log_list.data[dlist_get(log_list, i)] = printed - log_size + (i + 1)
<1>1. PICK s \in Seq(Cells) : Recorded(log_list, s)
  BY DEF MemoryInv
<1>2. Holds(log_list, s) /\ Len(s) = log_size /\ log_size = Kept
  BY <1>1 DEF Recorded, MemoryInv
<1>3. /\ Contents(log_list) = [k \in 1..Len(s) |-> log_list.data[s[k]]]
      /\ \A k \in 1..Len(s) : s[k] \in Cells
  BY <1>2, ContentsInOrder
<1>4. \A k \in 1..Len(s) : log_list.data[s[k]] = printed - log_size + k
  BY <1>1 DEF Recorded
<1>5. Latest = [k \in 1..log_size |-> printed - log_size + k]
  BY DEF Latest
<1>6. Contents(log_list) = Latest
  BY <1>2, <1>3, <1>4, <1>5
<1>7. ChainsAgree
  BY <1>2, ChainHolds DEF ChainsAgree
<1>8. /\ dlist_len(log_list) = Len(s)
      /\ \A i \in Nat : dlist_get(log_list, i) = IF i < Len(s) THEN s[i + 1] ELSE NULL
  BY <1>2, WalkIsSequence
<1>9. ASSUME NEW i \in Nat, i < log_size
      PROVE  /\ dlist_get(log_list, i) # NULL
             /\ log_list.data[dlist_get(log_list, i)] = printed - log_size + (i + 1)
  <2>1. i + 1 \in 1..Len(s)
    BY <1>2, <1>9, LimitIsNatural
  <2>2. dlist_get(log_list, i) = s[i + 1]
    BY <1>2, <1>8, <1>9
  <2>3. s[i + 1] \in Cells
    BY <1>3, <2>1
  <2>4. QED BY <1>4, <2>1, <2>2, <2>3, NodesAssumption
<1>10. QED BY <1>2, <1>6, <1>7, <1>8, <1>9

-----------------------------------------------------------------------------
\* The invariant

LEMMA NoLineYet ==
    LET o == [files |-> <<<<>>>>, log_fp |-> NoFile, path |-> FALSE]
    IN  UpTo(o, 0)
<1> DEFINE files == <<<<>>>>
           o == [files |-> files, log_fp |-> NoFile, path |-> FALSE]
<1>1. <<>> \in Seq(Line) /\ NoFile \in Int
  BY DEF NoFile
<1>2. files \in Seq(Seq(Line)) /\ Len(files) = 1 /\ DOMAIN files = {1} /\ files[1] = <<>>
  BY <1>1
<1> HIDE DEF files
<1>3. \A f \in DOMAIN files : Increasing(files[f]) /\ \A k \in DOMAIN files[f] : files[f][k] <= 0
  BY <1>2 DEF Increasing
<1>4. o.files = files /\ o.log_fp = NoFile
  OBVIOUS
<1>5. o \in [files : Seq(Seq(Line)), log_fp : Int, path : BOOLEAN]
  BY <1>1, <1>2
<1> HIDE DEF o
<1>6. UpTo(o, 0)
  BY <1>2, <1>3, <1>4, <1>5 DEF UpTo, AtTheEnd
<1>7. QED BY <1>6 DEF o, files

LEMMA LogInitially == LogInit => LogInv
<1> SUFFICES ASSUME LogInit PROVE LogInv
  OBVIOUS
<1>1. /\ debug_log_size \in LogSizes /\ log_list = NULL /\ log_size = 0 /\ index = 0
      /\ cat = NotReading /\ printed = 0 /\ passes = 0
      /\ MaxPrints \in Nat /\ MaxPasses \in Nat /\ debug_log_size \in Int
  BY LogAssumption DEF LogInit
<1>2. UpTo(out, printed)
  <2> DEFINE o == [files |-> <<<<>>>>, log_fp |-> NoFile, path |-> FALSE]
  <2>1. PICK opens \in BOOLEAN, ok \in BOOLEAN : out = CreateLogfile(o, opens, ok)
    BY DEF LogInit
  <2>2. UpTo(o, 0)
    BY NoLineYet
  <2> HIDE DEF o
  <2>3. UpTo(out, 0)
    BY <2>1, <2>2, CreateKeepsOrder
  <2>4. QED BY <1>1, <2>3
<1>3. MemoryLimit \in Nat
  BY <1>1 DEF MemoryLimit
<1>4. cat \in [reading : BOOLEAN, file : Nat, pos : Nat, got : Seq(Line)] /\ ~cat.reading
  <2>1. <<>> \in Seq(Line)
    OBVIOUS
  <2>2. QED BY <1>1, <2>1 DEF NotReading
<1>5. LogTypeOK
  BY <1>1, <1>2, <1>3, <1>4 DEF LogTypeOK, UpTo
<1>6. MemoryInv
  BY <1>1 DEF MemoryInv
<1>7. CursorInv
  BY <1>1, <1>4 DEF CursorInv
<1>8. QED BY <1>2, <1>5, <1>6, <1>7 DEF LogInv

\* A record in the file: what fails is written to a new one.
LEMMA PrintKeepsOrder ==
    ASSUME LogTypeOK, UpTo(out, printed), PrintToFile, printed' = printed + 1,
           printed < MaxPrints
    PROVE  UpTo(out', printed')
<1> DEFINE line == printed + 1
<1>1. PICK record_ok, end_ok, opens, start_ok, retry_ok \in BOOLEAN :
          LET first == Write(out, line, record_ok)
          IN  out' = IF end_ok /\ out.log_fp # NoFile THEN first
                     ELSE Write(CreateLogfile(first, opens, start_ok), line, retry_ok)
  BY DEF PrintToFile
<1> DEFINE first == Write(out, line, record_ok)
           anew == CreateLogfile(first, opens, start_ok)
<1>2. /\ printed \in Nat /\ line \in Line /\ line >= printed /\ line \in Nat
      /\ line \in Int /\ line >= line /\ printed \in Int
  BY LimitIsNatural DEF Line, Start
<1>3. \A k \in DOMAIN LastFile(out) : LastFile(out)[k] < line
  <2>1. Len(out.files) \in DOMAIN out.files /\ LastFile(out) \in Seq(Line)
    BY DEF UpTo, LastFile
  <2>2. \A k \in DOMAIN LastFile(out) : LastFile(out)[k] <= printed
    BY <2>1 DEF UpTo, LastFile
  <2>3. \A k \in DOMAIN LastFile(out) : LastFile(out)[k] \in Int
    BY <2>1, LinesAreNumbers
  <2>4. QED BY <1>2, <2>2, <2>3
<1>4. UpTo(first, line)
  BY <1>2, <1>3, WriteKeepsOrder
<1> HIDE DEF first
<1>5. /\ UpTo(anew, line)
      /\ anew.log_fp # NoFile => \A k \in DOMAIN LastFile(anew) : LastFile(anew)[k] <= 0
  BY <1>2, <1>4, CreateKeepsOrder
<1> HIDE DEF anew
<1>6. anew.log_fp # NoFile => \A k \in DOMAIN LastFile(anew) : LastFile(anew)[k] < line
  <2>1. LastFile(anew) \in Seq(Line)
    BY <1>5 DEF UpTo, LastFile
  <2>2. \A k \in DOMAIN LastFile(anew) : LastFile(anew)[k] \in Int
    BY <2>1, LinesAreNumbers
  <2>3. QED BY <1>2, <1>5, <2>2
<1>7. UpTo(Write(anew, line, retry_ok), line)
  BY <1>2, <1>5, <1>6, WriteKeepsOrder
<1>8. out' = first \/ out' = Write(anew, line, retry_ok)
  BY <1>1 DEF first, anew
<1>9. QED BY <1>4, <1>7, <1>8

LEMMA PrintKeepsInv == LogInv /\ SaveAndPrint => LogInv'
<1> SUFFICES ASSUME LogInv, SaveAndPrint PROVE LogInv'
  OBVIOUS
<1>1. /\ ~cat.reading /\ printed < MaxPrints /\ printed' = printed + 1
      /\ UNCHANGED <<debug_log_size, passes>> /\ index = 0
      /\ LogTypeOK /\ MemoryInv /\ UpTo(out, printed)
  BY DEF LogInv, SaveAndPrint, MayLog, CursorInv
<1>2. MemoryLimit' = MemoryLimit /\ MemoryLimit \in Nat /\ printed \in Nat /\ printed' \in 0..MaxPrints
  BY <1>1, LimitIsNatural DEF MemoryLimit
<1>3. UNCHANGED <<index, cat>>
  BY DEF SaveAndPrint, PrintToMemory, PrintToFile, PrintNowhere
<1>4. UpTo(out, printed')
  <2>1. \A f \in DOMAIN out.files : \A k \in DOMAIN out.files[f] : out.files[f][k] <= printed'
    <3>1. ASSUME NEW f \in DOMAIN out.files, NEW k \in DOMAIN out.files[f]
          PROVE  out.files[f][k] <= printed'
      <4>1. out.files[f] \in Seq(Line) /\ out.files[f][k] <= printed
        BY <1>1 DEF UpTo
      <4>2. out.files[f][k] \in Int
        BY <4>1, LinesAreNumbers
      <4>3. QED BY <1>1, <1>2, <4>1, <4>2
    <3>2. QED BY <3>1
  <2>2. QED BY <1>1, <2>1 DEF UpTo
<1>5. CursorInv'
  BY <1>1, <1>3 DEF CursorInv
<1>6. CASE PrintToMemory
  <2>1. UNCHANGED out
    BY <1>6 DEF PrintToMemory
  <2>2. MemoryInv' /\ IsList(log_list, 1..MaxPrints)' /\ (log_size \in 0..MemoryLimit)'
    BY <1>1, <1>6, PushKeepsMemory
  <2>3. UpTo(out, printed)'
    BY <1>4, <2>1
  <2>4. LogTypeOK'
    BY <1>1, <1>2, <1>3, <2>1, <2>2 DEF LogTypeOK
  <2>5. QED BY <1>5, <2>2, <2>3, <2>4 DEF LogInv
<1>7. CASE PrintToFile
  <2>1. UNCHANGED <<log_list, log_size>> /\ debug_log_size = 0
    BY <1>7 DEF PrintToFile
  <2>2. UpTo(out, printed)'
    BY <1>1, <1>7, PrintKeepsOrder
  <2>3. MemoryInv'
    <3>1. log_list = NULL /\ log_size = 0
      BY <1>1, <2>1 DEF MemoryInv
    <3>2. QED BY <1>1, <2>1, <3>1 DEF MemoryInv
  <2>4. LogTypeOK'
    BY <1>1, <1>2, <1>3, <2>1, <2>2 DEF LogTypeOK, UpTo
  <2>5. QED BY <1>5, <2>2, <2>3, <2>4 DEF LogInv
<1>8. CASE PrintNowhere
  <2>1. UNCHANGED <<log_list, log_size, out>> /\ debug_log_size < 0
    BY <1>8 DEF PrintNowhere
  <2>2. UpTo(out, printed)'
    BY <1>4, <2>1
  <2>3. MemoryInv'
    <3>1. log_list = NULL /\ log_size = 0 /\ ~(debug_log_size > 0)
      BY <1>1, <2>1, LimitIsNatural DEF MemoryInv
    <3>2. QED BY <1>1, <2>1, <3>1 DEF MemoryInv
  <2>4. LogTypeOK'
    BY <1>1, <1>2, <1>3, <2>1 DEF LogTypeOK
  <2>5. QED BY <1>5, <2>2, <2>3, <2>4 DEF LogInv
<1>9. QED BY <1>6, <1>7, <1>8 DEF SaveAndPrint

\* A step of the reader leaves the log alone.
LEMMA ReadingLeavesLog ==
    ASSUME LogInv, UNCHANGED <<debug_log_size, log_list, log_size, out, printed>>,
           index' \in 0..MemoryLimit, passes' \in 0..MaxPasses,
           cat' \in [reading : BOOLEAN, file : Nat, pos : Nat, got : Seq(Line)]
    PROVE  LogTypeOK' /\ MemoryInv' /\ UpTo(out, printed)'
<1>1. MemoryLimit' = MemoryLimit
  BY DEF MemoryLimit
<1>2. LogTypeOK'
  BY <1>1 DEF LogInv, LogTypeOK
<1>3. Kept' = Kept
  BY <1>1 DEF Kept
<1>4. \A s : Recorded(log_list, s)' <=> Recorded(log_list, s)
  BY DEF Recorded
<1>5. MemoryInv'
  BY <1>3, <1>4 DEF LogInv, MemoryInv
<1>6. UpTo(out, printed)'
  BY DEF LogInv
<1>7. QED BY <1>2, <1>5, <1>6

LEMMA NotReadingTypes ==
    /\ NotReading \in [reading : BOOLEAN, file : Nat, pos : Nat, got : Seq(Line)]
    /\ ~NotReading.reading
<1>1. <<>> \in Seq(Line)
  OBVIOUS
<1>2. QED BY <1>1 DEF NotReading

LEMMA BeginKeepsInv == LogInv /\ CatBegin => LogInv'
<1> SUFFICES ASSUME LogInv, CatBegin PROVE LogInv'
  OBVIOUS
<1>1. /\ UNCHANGED <<debug_log_size, log_list, log_size, index, out, printed>>
      /\ ~cat.reading /\ index = 0 /\ passes' = passes + 1 /\ passes < MaxPasses
      /\ LogTypeOK /\ UpTo(out, printed)
  BY DEF LogInv, CatBegin, CursorInv
<1>2. /\ debug_log_size \in Int /\ MemoryLimit \in Nat /\ passes' \in 0..MaxPasses
      /\ index' \in 0..MemoryLimit /\ log_size \in Nat
  BY <1>1, LimitIsNatural, LogAssumption DEF LogTypeOK
<1>3. CASE cat' = NotReading
  <2>1. LogTypeOK' /\ MemoryInv' /\ UpTo(out, printed)'
    BY <1>1, <1>2, <1>3, NotReadingTypes, ReadingLeavesLog
  <2>2. CursorInv'
    BY <1>1, <1>3, NotReadingTypes DEF CursorInv
  <2>3. QED BY <2>1, <2>2 DEF LogInv
<1>4. CASE cat' # NotReading
  <2>1. /\ debug_log_size >= 0
        /\ cat' = [NotReading EXCEPT !.reading = TRUE, !.file = Len(out.files)]
    BY <1>2, <1>4 DEF CatBegin
  <2>2. cat' = [reading |-> TRUE, file |-> Len(out.files), pos |-> 0, got |-> <<>>]
    BY <2>1 DEF NotReading
  <2>3. /\ cat'.reading /\ cat'.file = Len(out.files) /\ cat'.pos = 0 /\ cat'.got = <<>>
        /\ Len(cat'.got) = 0
    BY <2>2
  <2>4. /\ Len(out.files) \in Nat /\ Len(out.files) \in DOMAIN out.files
        /\ Len(out.files[Len(out.files)]) \in Nat
    BY <1>1 DEF UpTo
  <2>5. cat' \in [reading : BOOLEAN, file : Nat, pos : Nat, got : Seq(Line)]
    <3>1. <<>> \in Seq(Line)
      OBVIOUS
    <3>2. QED BY <2>2, <2>4, <3>1
  <2>6. LogTypeOK' /\ MemoryInv' /\ UpTo(out, printed)'
    BY <1>1, <1>2, <2>5, ReadingLeavesLog
  <2>7. CursorInv'
    BY <1>1, <1>2, <2>1, <2>3, <2>4 DEF CursorInv
  <2>8. QED BY <2>6, <2>7 DEF LogInv
<1>5. QED BY <1>3, <1>4

\* A line more is read: the state of the reader after it.
LEMMA OneMoreGot ==
    ASSUME NEW c \in [reading : BOOLEAN, file : Nat, pos : Nat, got : Seq(Line)],
           NEW line \in Line
    PROVE  LET got == Append(c.got, line)
           IN  /\ got \in Seq(Line) /\ Len(got) = Len(c.got) + 1
               /\ got[Len(c.got) + 1] = line
               /\ \A k \in 1..Len(c.got) : got[k] = c.got[k]
               /\ Len(c.got) \in Nat
OBVIOUS

LEMMA LineKeepsInv == LogInv /\ CatLine => LogInv'
<1> SUFFICES ASSUME LogInv, CatLine PROVE LogInv'
  OBVIOUS
<1> DEFINE lines == out.files[cat.file]
<1>1. /\ UNCHANGED <<debug_log_size, log_list, log_size, index, out, printed, passes>>
      /\ cat.reading /\ debug_log_size = 0 /\ index = 0
      /\ LogTypeOK /\ UpTo(out, printed)
      /\ cat' = IF cat.pos < Len(lines)
                THEN [cat EXCEPT !.pos = @ + 1, !.got = Append(@, lines[cat.pos + 1])]
                ELSE NotReading
  BY DEF LogInv, CatLine, CursorInv
<1>2. /\ cat \in [reading : BOOLEAN, file : Nat, pos : Nat, got : Seq(Line)]
      /\ index' \in 0..MemoryLimit /\ passes' \in 0..MaxPasses
  BY <1>1 DEF LogTypeOK
<1>3. /\ cat.file \in DOMAIN out.files
      /\ Len(cat.got) = cat.pos /\ cat.pos <= Len(lines)
      /\ \A k \in 1..cat.pos : cat.got[k] = lines[k]
  BY <1>1 DEF LogInv, CursorInv
<1>4. lines \in Seq(Line) /\ Len(lines) \in Nat /\ cat.pos \in Nat
  BY <1>1, <1>2, <1>3 DEF UpTo
<1>5. CASE ~(cat.pos < Len(lines))
  <2>1. cat' = NotReading
    BY <1>1, <1>5
  <2>2. LogTypeOK' /\ MemoryInv' /\ UpTo(out, printed)'
    BY <1>1, <1>2, <2>1, NotReadingTypes, ReadingLeavesLog
  <2>3. CursorInv'
    BY <1>1, <2>1, NotReadingTypes DEF CursorInv
  <2>4. QED BY <2>2, <2>3 DEF LogInv
<1>6. CASE cat.pos < Len(lines)
  <2> DEFINE got == Append(cat.got, lines[cat.pos + 1])
  <2>1. cat.pos + 1 \in 1..Len(lines)
    BY <1>4, <1>6
  <2>2. lines[cat.pos + 1] \in Line
    BY <1>4, <2>1
  <2>3. /\ got \in Seq(Line) /\ Len(got) = cat.pos + 1
        /\ got[cat.pos + 1] = lines[cat.pos + 1]
        /\ \A k \in 1..cat.pos : got[k] = cat.got[k]
    BY <1>2, <1>3, <2>2, OneMoreGot
  <2>4. cat' = [cat EXCEPT !.pos = @ + 1, !.got = got]
    BY <1>1, <1>6
  <2> HIDE DEF got, lines
  <2>5. /\ cat'.reading /\ cat'.file = cat.file /\ cat'.pos = cat.pos + 1 /\ cat'.got = got
        /\ cat' \in [reading : BOOLEAN, file : Nat, pos : Nat, got : Seq(Line)]
    <3>1. cat' = [reading |-> cat.reading, file |-> cat.file, pos |-> cat.pos + 1, got |-> got]
      BY <1>2, <2>4
    <3>2. cat.reading \in BOOLEAN /\ cat.file \in Nat /\ cat.pos + 1 \in Nat
      BY <1>2, <1>4
    <3>3. got \in Seq(Line)
      BY <2>3
    <3>4. /\ cat'.reading = cat.reading /\ cat'.file = cat.file
          /\ cat'.pos = cat.pos + 1 /\ cat'.got = got
      BY <3>1
    <3>5. cat' \in [reading : BOOLEAN, file : Nat, pos : Nat, got : Seq(Line)]
      BY <3>1, <3>2, <3>3
    <3>6. QED BY <1>1, <3>4, <3>5
  <2>6. LogTypeOK' /\ MemoryInv' /\ UpTo(out, printed)'
    BY <1>1, <1>2, <2>5, ReadingLeavesLog
  <2>7. \A k \in 1..(cat.pos + 1) : got[k] = lines[k]
    <3>1. \A k \in 1..(cat.pos + 1) : k = cat.pos + 1 \/ k \in 1..cat.pos
      BY <1>4
    <3>2. QED BY <1>3, <2>3, <3>1
  <2>8. cat.pos + 1 <= Len(lines)
    BY <2>1, <1>4
  <2>9. CursorInv'
    BY <1>1, <1>3, <2>3, <2>5, <2>7, <2>8 DEF CursorInv, lines
  <2>10. QED BY <2>6, <2>9 DEF LogInv
<1>7. QED BY <1>5, <1>6

\* Where the pull finds a record, it is the next one; where it finds none, all
\* have been read.
LEMMA PulledIsNext ==
    ASSUME LogInv, cat.reading, debug_log_size > 0
    PROVE  /\ index \in Nat /\ log_size \in Nat /\ printed \in Nat
           /\ Pulled # NULL <=> index < log_size
           /\ Pulled # NULL => /\ log_list # NULL
                               /\ log_list.data[Pulled] = printed - log_size + (index + 1)
                               /\ log_size <= printed
<1>1. index \in Nat /\ log_size \in Nat /\ printed \in Nat /\ MemoryLimit \in Nat
  BY LimitIsNatural DEF LogInv, LogTypeOK
<1>2. CASE ~(index < log_size)
  BY <1>1, <1>2 DEF Pulled
<1>3. CASE index < log_size
  <2>1. Pulled = dlist_get(log_list, index)
    BY <1>3 DEF Pulled
  <2>2. log_list # NULL
    BY <1>1, <1>3 DEF LogInv, MemoryInv
  <2>3. /\ dlist_get(log_list, index) # NULL
        /\ log_list.data[dlist_get(log_list, index)] = printed - log_size + (index + 1)
    BY <1>1, <1>3, <2>2, MemoryIsLatest DEF LogInv
  <2>4. log_size <= printed
    BY <1>1, <2>2 DEF LogInv, MemoryInv, Kept
  <2>5. QED BY <1>1, <1>3, <2>1, <2>2, <2>3, <2>4
<1>4. QED BY <1>2, <1>3

LEMMA PullKeepsInv == LogInv /\ CatPull => LogInv'
<1> SUFFICES ASSUME LogInv, CatPull PROVE LogInv'
  OBVIOUS
<1>1. /\ UNCHANGED <<debug_log_size, log_list, log_size, out, printed, passes>>
      /\ cat.reading /\ debug_log_size > 0 /\ debug_log_size \in Int
      /\ LogTypeOK
  BY LimitIsNatural DEF LogInv, CatPull
<1>2. /\ cat \in [reading : BOOLEAN, file : Nat, pos : Nat, got : Seq(Line)]
      /\ passes' \in 0..MaxPasses /\ MemoryLimit \in Nat /\ log_size \in 0..MemoryLimit
      /\ printed \in 0..MaxPrints /\ MaxPrints \in Nat
  BY <1>1, LimitIsNatural DEF LogTypeOK
<1>3. /\ Len(cat.got) = index /\ index <= log_size
      /\ \A k \in 1..index : cat.got[k] = printed - log_size + k
  BY <1>1 DEF LogInv, CursorInv
<1>4. /\ index \in Nat /\ log_size \in Nat /\ printed \in Nat
      /\ Pulled # NULL <=> index < log_size
      /\ Pulled # NULL => /\ log_list # NULL
                          /\ log_list.data[Pulled] = printed - log_size + (index + 1)
                          /\ log_size <= printed
  BY <1>1, PulledIsNext
<1>5. CASE Pulled = NULL
  <2>1. cat' = NotReading /\ index' = 0 /\ index' \in 0..MemoryLimit
    BY <1>2, <1>5 DEF CatPull
  <2>2. LogTypeOK' /\ MemoryInv' /\ UpTo(out, printed)'
    BY <1>1, <1>2, <2>1, NotReadingTypes, ReadingLeavesLog
  <2>3. CursorInv'
    BY <2>1, NotReadingTypes DEF CursorInv
  <2>4. QED BY <2>2, <2>3 DEF LogInv
<1>6. CASE Pulled # NULL
  <2> DEFINE line == printed - log_size + (index + 1)
             got == Append(cat.got, line)
  <2>1. /\ cat' = [cat EXCEPT !.got = got] /\ index' = index + 1
        /\ index + 1 <= log_size /\ index' \in 0..MemoryLimit
    BY <1>2, <1>4, <1>6 DEF CatPull
  <2>2. line \in Line
    <3>1. index < log_size /\ log_size <= printed
      BY <1>4, <1>6
    <3>2. QED BY <1>2, <1>4, <3>1 DEF Line, Start
  <2> HIDE DEF line
  <2>3. /\ got \in Seq(Line) /\ Len(got) = index + 1 /\ got[index + 1] = line
        /\ \A k \in 1..index : got[k] = cat.got[k]
    BY <1>2, <1>3, <2>2, OneMoreGot
  <2> HIDE DEF got
  <2>4. /\ cat'.reading /\ cat'.got = got
        /\ cat' \in [reading : BOOLEAN, file : Nat, pos : Nat, got : Seq(Line)]
    BY <1>1, <1>2, <2>1, <2>3
  <2>5. LogTypeOK' /\ MemoryInv' /\ UpTo(out, printed)'
    BY <1>1, <1>2, <2>1, <2>4, ReadingLeavesLog
  <2>6. ASSUME NEW k \in 1..(index + 1) PROVE got[k] = printed - log_size + k
    <3>1. CASE k = index + 1
      BY <2>3, <3>1 DEF line
    <3>2. CASE k # index + 1
      <4>1. k \in 1..index
        BY <1>4, <3>2
      <4>2. QED BY <1>3, <2>3, <4>1
    <3>3. QED BY <3>1, <3>2
  <2>7. CursorInv'
    BY <1>1, <2>1, <2>3, <2>4, <2>6 DEF CursorInv
  <2>8. QED BY <2>5, <2>7 DEF LogInv
<1>7. QED BY <1>5, <1>6

LEMMA LogStutters == LogInv /\ UNCHANGED logVars => LogInv'
<1> SUFFICES ASSUME LogInv, UNCHANGED logVars PROVE LogInv'
  OBVIOUS
<1>1. UNCHANGED <<debug_log_size, log_list, log_size, index, out, cat, printed, passes>>
  BY DEF logVars
<1>2. LogTypeOK' /\ MemoryInv' /\ UpTo(out, printed)'
  BY <1>1, ReadingLeavesLog DEF LogInv, LogTypeOK
<1>3. CursorInv'
  BY <1>1 DEF LogInv, CursorInv
<1>4. QED BY <1>2, <1>3 DEF LogInv

LEMMA LogKeepsInv == LogInv /\ [LogNext]_logVars => LogInv'
BY PrintKeepsInv, BeginKeepsInv, LineKeepsInv, PullKeepsInv, LogStutters DEF LogNext

LEMMA LogInvAlways == LogSpec => []LogInv
<1>1. QED BY LogInitially, LogKeepsInv, PTL DEF LogSpec

-----------------------------------------------------------------------------
\* The log, its list and its reader keep their types for any number of records
\* and requests, and the list in memory its limit.
THEOREM LogTypeCorrect == LogSpec => []LogTypeOK
<1>1. LogInv => LogTypeOK
  BY DEF LogInv
<1>2. QED BY <1>1, LogInvAlways, PTL

\* However many records have come and gone, the list in memory holds the latest
\* ones, as many as the option asks for or one more, in their order, on both
\* chains.
THEOREM LatestAlwaysKept == LogSpec => []MemoryHoldsLatest
<1>1. ASSUME LogInv, debug_log_size > 0, log_list # NULL
      PROVE  log_size >= IF printed < debug_log_size THEN printed ELSE debug_log_size
  <2>1. LogTypeOK /\ log_size = Kept
    BY <1>1 DEF LogInv, MemoryInv
  <2>2. printed \in Nat /\ debug_log_size \in Int /\ MemoryLimit = debug_log_size + 1
    BY <1>1, <2>1, LimitIsNatural
  <2>3. QED BY <2>1, <2>2 DEF Kept
<1>2. LogInv => MemoryHoldsLatest
  BY <1>1, MemoryIsLatest DEF LogInv, MemoryHoldsLatest
<1>3. QED BY <1>2, LogInvAlways, PTL

\* Whichever writes and opens fail, no file has a record twice or out of order.
THEOREM FilesAlwaysInOrder == LogSpec => []FilesInOrder
<1>1. LogInv => FilesInOrder
  BY DEF LogInv, UpTo, FilesInOrder
<1>2. QED BY <1>1, LogInvAlways, PTL

\* A pass of the reader that ends has read the whole log as it stands.
LEMMA PassReadsAll ==
    ASSUME LogInv, LogNext, cat.reading, ~cat'.reading
    PROVE  cat.got = WholeLog
<1>1. cat \in [reading : BOOLEAN, file : Nat, pos : Nat, got : Seq(Line)]
  BY DEF LogInv, LogTypeOK
<1>2. CASE SaveAndPrint
  BY <1>2 DEF SaveAndPrint, MayLog
<1>3. CASE CatBegin
  BY <1>3 DEF CatBegin
<1>4. CASE CatLine
  <2> DEFINE lines == out.files[cat.file]
  <2>1. /\ debug_log_size = 0
        /\ cat.file \in DOMAIN out.files
        /\ Len(cat.got) = cat.pos /\ cat.pos <= Len(lines)
        /\ \A k \in 1..cat.pos : cat.got[k] = lines[k]
    BY <1>4 DEF CatLine, LogInv, CursorInv
  <2>2. lines \in Seq(Line) /\ Len(lines) \in Nat
    BY <2>1 DEF LogInv, UpTo
  <2>3. ~(cat.pos < Len(lines))
    <3>1. cat.pos < Len(lines) => cat'.reading
      BY <1>1, <1>4 DEF CatLine
    <3>2. QED BY <3>1
  <2>4. Len(cat.got) = Len(lines) /\ \A k \in 1..Len(lines) : cat.got[k] = lines[k]
    BY <1>1, <2>1, <2>2, <2>3
  <2> HIDE DEF lines
  <2>5. cat.got = lines
    BY <1>1, <2>2, <2>4
  <2>6. WholeLog = lines
    BY <2>1 DEF WholeLog, lines
  <2>7. QED BY <2>5, <2>6
<1>5. CASE CatPull
  <2>1. debug_log_size > 0
    BY <1>5 DEF CatPull
  <2>2. Pulled = NULL
    <3>1. Pulled # NULL => cat'.reading
      BY <1>1, <1>5 DEF CatPull
    <3>2. QED BY <3>1
  <2>3. /\ Len(cat.got) = index /\ index <= log_size
        /\ \A k \in 1..index : cat.got[k] = printed - log_size + k
    BY <2>1 DEF LogInv, CursorInv
  <2>4. index \in Nat /\ log_size \in Nat /\ ~(index < log_size)
    BY <2>1, <2>2, PulledIsNext
  <2>5. index = log_size
    BY <2>3, <2>4
  <2>6. CASE log_list = NULL
    <3>1. Len(cat.got) = 0
      BY <2>3, <2>5, <2>6 DEF LogInv, MemoryInv
    <3>2. cat.got = <<>>
      BY <1>1, <3>1
    <3>3. QED BY <2>1, <2>6, <3>2 DEF WholeLog
  <2>7. CASE log_list # NULL
    <3>1. Contents(log_list) = Latest /\ log_size = Kept
      BY <2>7, MemoryIsLatest DEF LogInv, MemoryInv
    <3>2. Latest = [k \in 1..log_size |-> printed - log_size + k]
      BY DEF Latest
    <3>3. cat.got = [k \in 1..log_size |-> cat.got[k]]
      BY <1>1, <2>3, <2>5
    <3>4. cat.got = Latest
      BY <2>3, <2>5, <3>2, <3>3
    <3>5. WholeLog = Contents(log_list)
      BY <2>1, <2>7 DEF WholeLog
    <3>6. QED BY <3>1, <3>4, <3>5
  <2>8. QED BY <2>6, <2>7
<1>6. QED BY <1>2, <1>3, <1>4, <1>5 DEF LogNext

\* No record is deleted and no file replaced under the cursor of eipccat, and
\* no pass begins where the one before stopped.
THEOREM PassIsAlwaysSnapshot == LogSpec => PassIsSnapshot
<1>1. LogInv /\ [LogNext]_logVars => [cat.reading /\ ~cat'.reading => cat.got = WholeLog]_logVars
  BY PassReadsAll DEF logVars
<1>2. QED BY <1>1, LogInvAlways, PTL DEF LogSpec, PassIsSnapshot

-----------------------------------------------------------------------------
(***************************************************************************)
(* Plugins                                                                 *)
(*                                                                         *)
(* The tables that a request leaves are good: the rules of all loaded      *)
(* files are in force, no message and no file is listed twice, and without *)
(* a file there is nothing. The loops are functions of their turns. A turn *)
(* adds to the rules and takes none away (Grows), so what was in force     *)
(* remains so while the others are parsed; while a file is parsed for the  *)
(* second time only its own rules may be missing. The refresh goes by the  *)
(* list of before, and no turn of it adds, removes or renames a file.      *)
(***************************************************************************)

\* What the documents are made of, and the tables that they make
Items == UNION {Range(d) : d \in Documents}
Rules == {item \in Items : item.type = "m2m"}
Masks == {item \in Items : item.type = "mask_msg"}

MonitorNames == UNION {Range(item.monitor) : item \in Rules}
Units == UNION {Range(item.broadcast) : item \in Rules}
MaskEntries == UNION {Range(item.send) \cup Range(item.recv) : item \in Masks}

\* As they are stored
StoredNames == {Stored(CutNames, name) : name \in MonitorNames}
StoredUnits == {Stored(CutUnits, u) : u \in Units}

Monitor == [monitor_msg_name : StoredNames, broadcast_msglist : Seq(StoredUnits)]
PluginMember == [pname : Names, mask_sender : Seq(MaskEntries), mask_receiver : Seq(MaskEntries)]

\* No unit is there twice, but for those that were cut.
UnitsDiffer(units) ==
    \A i, j \in DOMAIN units : units[i] = units[j] => i = j \/ units[i] \in Range(CutUnits)

\* Lists of rules in which a message is listed once and sets nothing off twice.
RuleLists ==
    {ms \in Seq(Monitor) :
        /\ \A j, k \in 1..Len(ms) :
              ms[j].monitor_msg_name = ms[k].monitor_msg_name
                 => j = k \/ ms[j].monitor_msg_name \in Range(CutNames)
        /\ \A k \in 1..Len(ms) : UnitsDiffer(ms[k].broadcast_msglist)}

\* In the list of rules ms, message name sets off u, both as they are stored.
SetsOff(ms, name, u) ==
    \E k \in 1..Len(ms) : /\ ms[k].monitor_msg_name = Stored(CutNames, name)
                          /\ Stored(CutUnits, u) \in Range(ms[k].broadcast_msglist)

Grows(ms, mms) == \A name, u : SetsOff(ms, name, u) => SetsOff(mms, name, u)

\* What fits is stored as it is, and what is stored fits.
LEMMA StoredOnce ==
    ASSUME NEW cut, CutOnce(cut)
    PROVE  /\ \A x : x \notin DOMAIN cut => Stored(cut, x) = x
           /\ \A x : x \in DOMAIN cut => Stored(cut, x) \in Range(cut)
           /\ \A x : Stored(cut, x) \notin DOMAIN cut
           /\ \A x : Stored(cut, Stored(cut, x)) = Stored(cut, x)
BY DEF CutOnce, Stored, Range

\* A non-empty set of places in a list has a last one.
LEMMA LastPlace ==
    ASSUME NEW n \in Nat, NEW S \in SUBSET (1..n), S # {}
    PROVE  Max(S) \in S
<1> DEFINE T == {n - k : k \in S}
<1>1. PICK k \in S : TRUE
  OBVIOUS
<1>2. T \in SUBSET Nat /\ T # {}
  BY <1>1
<1> HIDE DEF T
<1>3. Min(T) \in T /\ \A y \in T : Min(T) <= y
  BY <1>2, MinProperties
<1> DEFINE m == Min(T)
<1> HIDE DEF m
<1>4. m \in T /\ \A y \in T : m <= y
  BY <1>3 DEF m
<1>5. PICK l \in S : m = n - l
  BY <1>4 DEF T
<1>6. \A y \in S : l >= y
  <2>1. TAKE y \in S
  <2>2. n - l <= n - y
    BY <1>4, <1>5 DEF T
  <2>3. QED BY <2>2
<1>7. QED BY <1>6 DEF Max

\* One unit more for the entry at k
UnitAppended(ms, k, u) ==
    [ms EXCEPT ![k].broadcast_msglist = Append(@, Stored(CutUnits, u))]

\* mms has the entries of ms, each with its units, and that of k has u too.
HasMore(ms, mms, k, u) ==
    /\ mms \in RuleLists /\ Len(mms) = Len(ms)
    /\ \A j \in 1..Len(ms) :
          /\ mms[j].monitor_msg_name = ms[j].monitor_msg_name
          /\ Range(ms[j].broadcast_msglist) \subseteq Range(mms[j].broadcast_msglist)
    /\ Stored(CutUnits, u) \in Range(mms[k].broadcast_msglist)

LEMMA UnitAdded ==
    ASSUME NEW ms \in RuleLists, NEW k \in 1..Len(ms), NEW u \in Units,
           u \notin Range(ms[k].broadcast_msglist)
    PROVE  HasMore(ms, UnitAppended(ms, k, u), k, u)
<1> DEFINE v == Stored(CutUnits, u)
           units == ms[k].broadcast_msglist
           more == Append(units, v)
           new == [ms[k] EXCEPT !.broadcast_msglist = more]
           mms == [ms EXCEPT ![k] = new]
<1>1. /\ ms \in Seq(Monitor) /\ Len(ms) \in Nat
      /\ ms[k] \in Monitor /\ units \in Seq(StoredUnits) /\ Len(units) \in Nat
      /\ UnitsDiffer(units)
  <2>1. ms \in Seq(Monitor)
    BY DEF RuleLists
  <2>2. ms[k] \in Monitor
    BY <2>1
  <2>3. units \in Seq(StoredUnits)
    BY <2>2 DEF Monitor
  <2>4. QED BY <2>1, <2>2, <2>3 DEF RuleLists
<1>2. /\ v \in StoredUnits
      /\ u \in DOMAIN CutUnits => v \in Range(CutUnits)
      /\ u \notin DOMAIN CutUnits => v = u
  BY CutAssumption, StoredOnce DEF StoredUnits
<1>3. u \notin Range(units)
  OBVIOUS
<1> HIDE DEF v, units
<1>4. /\ more \in Seq(StoredUnits) /\ DOMAIN more = 1..(Len(units) + 1)
      /\ more[Len(units) + 1] = v /\ DOMAIN units = 1..Len(units)
      /\ \A i \in 1..Len(units) : more[i] = units[i]
  BY <1>1, <1>2
<1>5. /\ \A i \in DOMAIN more : i = Len(units) + 1 \/ i \in DOMAIN units
      /\ \A i \in DOMAIN units : i \in DOMAIN more /\ more[i] = units[i] /\ units[i] # u
      /\ Len(units) + 1 \in DOMAIN more
  <2>1. \A i \in DOMAIN units : units[i] # u
    BY <1>3 DEF Range
  <2>2. QED BY <1>1, <1>4, <2>1
<1> HIDE DEF more
<1>6. UnitsDiffer(more)
  <2>1. SUFFICES ASSUME NEW i \in DOMAIN more, NEW j \in DOMAIN more,
                        more[i] = more[j], more[i] \notin Range(CutUnits)
                 PROVE  i = j
    BY DEF UnitsDiffer
  <2>2. CASE i \in DOMAIN units /\ j \in DOMAIN units
    BY <1>1, <1>5, <2>1, <2>2 DEF UnitsDiffer
  <2>3. CASE i = Len(units) + 1 \/ j = Len(units) + 1
    <3>1. more[i] = v
      BY <1>4, <2>1, <2>3
    <3>2. v = u
      BY <1>2, <2>1, <3>1
    <3>3. QED BY <1>4, <1>5, <2>1, <3>1, <3>2
  <2>4. QED BY <1>5, <2>2, <2>3
<1>7. Range(units) \subseteq Range(more) /\ v \in Range(more)
  BY <1>4, <1>5 DEF Range
<1>8. /\ new \in Monitor /\ new.monitor_msg_name = ms[k].monitor_msg_name
      /\ new.broadcast_msglist = more
  BY <1>1, <1>4 DEF Monitor
<1> HIDE DEF new
<1>9. /\ mms \in Seq(Monitor) /\ Len(mms) = Len(ms) /\ mms[k] = new
      /\ \A j \in 1..Len(ms) : j # k => mms[j] = ms[j]
  BY <1>1, <1>8
<1> HIDE DEF mms
<1>10. \A j \in 1..Len(ms) :
          /\ mms[j].monitor_msg_name = ms[j].monitor_msg_name
          /\ Range(ms[j].broadcast_msglist) \subseteq Range(mms[j].broadcast_msglist)
          /\ UnitsDiffer(mms[j].broadcast_msglist)
  <2>1. \A j \in 1..Len(ms) : UnitsDiffer(ms[j].broadcast_msglist)
    BY DEF RuleLists
  <2>2. QED BY <1>6, <1>7, <1>8, <1>9, <2>1 DEF units
<1>11. mms \in RuleLists
  <2>1. \A j, i \in 1..Len(ms) :
            ms[j].monitor_msg_name = ms[i].monitor_msg_name
               => j = i \/ ms[j].monitor_msg_name \in Range(CutNames)
    BY DEF RuleLists
  <2>2. QED BY <1>9, <1>10, <2>1 DEF RuleLists
<1>12. v \in Range(mms[k].broadcast_msglist)
  BY <1>7, <1>8, <1>9
<1>13. mms = UnitAppended(ms, k, u)
  BY DEF mms, new, more, units, v, UnitAppended
<1>14. QED BY <1>9, <1>10, <1>11, <1>12, <1>13 DEF v, HasMore

\* A unit more for a message
LEMMA InsertedSetsOff ==
    ASSUME NEW ms \in RuleLists, NEW name \in MonitorNames, NEW u \in Units
    PROVE  /\ Inserted(ms, name, u) \in RuleLists
           /\ Grows(ms, Inserted(ms, name, u))
           /\ SetsOff(Inserted(ms, name, u), name, u)
<1> DEFINE mms == Inserted(ms, name, u)
<1>1. /\ ms \in Seq(Monitor) /\ Len(ms) \in Nat /\ DOMAIN ms = 1..Len(ms)
      /\ \A k \in 1..Len(ms) : /\ ms[k] \in Monitor
                               /\ ms[k].monitor_msg_name \in StoredNames
                               /\ ms[k].broadcast_msglist \in Seq(StoredUnits)
                               /\ UnitsDiffer(ms[k].broadcast_msglist)
      /\ \A j, k \in 1..Len(ms) :
            ms[j].monitor_msg_name = ms[k].monitor_msg_name
               => j = k \/ ms[j].monitor_msg_name \in Range(CutNames)
  <2>1. ms \in Seq(Monitor)
    BY DEF RuleLists
  <2>2. \A k \in 1..Len(ms) : ms[k] \in Monitor
    BY <2>1
  <2>3. \A k \in 1..Len(ms) : /\ ms[k].monitor_msg_name \in StoredNames
                              /\ ms[k].broadcast_msglist \in Seq(StoredUnits)
    BY <2>2 DEF Monitor
  <2>4. QED BY <2>1, <2>2, <2>3 DEF RuleLists
<1>2. CASE Places(ms, name) = {}
  <2> DEFINE c == Stored(CutNames, name)
             v == Stored(CutUnits, u)
             one == <<v>>
             new == [monitor_msg_name |-> c, broadcast_msglist |-> one]
  <2>1. mms = Append(ms, new)
    BY <1>2 DEF Inserted
  <2>a. /\ c \in StoredNames
        /\ name \in DOMAIN CutNames => c \in Range(CutNames)
        /\ name \notin DOMAIN CutNames => c = name
    BY CutAssumption, StoredOnce DEF StoredNames
  <2>b. v \in StoredUnits
    BY DEF StoredUnits
  <2> HIDE DEF c, v
  <2>2. one \in Seq(StoredUnits) /\ UnitsDiffer(one) /\ v \in Range(one)
    BY <2>b DEF UnitsDiffer, Range
  <2> HIDE DEF one
  <2>3. new \in Monitor /\ new.monitor_msg_name = c /\ new.broadcast_msglist = one
    BY <2>2, <2>a DEF Monitor
  <2>4. \A k \in 1..Len(ms) : ms[k].monitor_msg_name # name
    BY <1>1, <1>2 DEF Places
  <2> HIDE DEF new, mms
  <2>5. /\ mms \in Seq(Monitor) /\ Len(mms) = Len(ms) + 1 /\ mms[Len(ms) + 1] = new
        /\ \A k \in 1..Len(ms) : mms[k] = ms[k] /\ k \in 1..Len(mms)
        /\ \A k \in 1..Len(mms) : k = Len(ms) + 1 \/ k \in 1..Len(ms)
        /\ Len(ms) + 1 \in 1..Len(mms)
    BY <1>1, <2>1, <2>3
  <2>6. mms \in RuleLists
    <3>1. ASSUME NEW j \in 1..Len(mms), NEW k \in 1..Len(mms),
                 mms[j].monitor_msg_name = mms[k].monitor_msg_name,
                 mms[j].monitor_msg_name \notin Range(CutNames)
          PROVE  j = k
      BY <1>1, <2>a, <2>3, <2>4, <2>5, <3>1
    <3>2. \A k \in 1..Len(mms) : UnitsDiffer(mms[k].broadcast_msglist)
      BY <1>1, <2>2, <2>3, <2>5
    <3>3. QED BY <2>5, <3>1, <3>2 DEF RuleLists
  <2>7. Grows(ms, mms)
    BY <2>5 DEF Grows, SetsOff
  <2>8. SetsOff(mms, name, u)
    BY <2>2, <2>3, <2>5 DEF SetsOff, c, v
  <2>9. QED BY <2>6, <2>7, <2>8 DEF mms
<1>3. CASE Places(ms, name) # {}
  <2> DEFINE k == Max(Places(ms, name))
  <2>1. k \in 1..Len(ms) /\ ms[k].monitor_msg_name = name
    <3>1. Places(ms, name) \in SUBSET (1..Len(ms))
      BY <1>1 DEF Places
    <3>2. k \in Places(ms, name)
      BY <1>1, <1>3, <3>1, LastPlace
    <3> HIDE DEF k
    <3>3. QED BY <1>1, <3>2 DEF Places
  <2> HIDE DEF k
  <2>2. Stored(CutNames, name) = name
    <3>1. PICK x \in MonitorNames : name = Stored(CutNames, x)
      BY <1>1, <2>1 DEF StoredNames
    <3>2. QED BY <3>1, CutAssumption, StoredOnce
  <2>3. CASE Known(ms[k].broadcast_msglist, u)
    <3>1. mms = ms
      BY <1>3, <2>3 DEF Inserted, k
    <3>2. Stored(CutUnits, u) = u
      <4>1. PICK i \in DOMAIN ms[k].broadcast_msglist : u = ms[k].broadcast_msglist[i]
        BY <2>3 DEF Known, Range
      <4>2. ms[k].broadcast_msglist \in Seq(StoredUnits)
        BY <1>1, <2>1
      <4>3. u \in StoredUnits
        BY <4>1, <4>2
      <4>4. PICK x \in Units : u = Stored(CutUnits, x)
        BY <4>3 DEF StoredUnits
      <4>5. QED BY <4>4, CutAssumption, StoredOnce
    <3>3. SetsOff(ms, name, u)
      BY <2>1, <2>2, <2>3, <3>2 DEF SetsOff, Known
    <3>4. QED BY <3>1, <3>3 DEF Grows
  <2>4. CASE ~Known(ms[k].broadcast_msglist, u)
    <3>1. mms = UnitAppended(ms, k, u)
      BY <1>3, <2>4 DEF Inserted, k, UnitAppended
    <3>2. HasMore(ms, mms, k, u)
      <4>1. u \notin Range(ms[k].broadcast_msglist)
        BY <2>4 DEF Known
      <4>2. HasMore(ms, UnitAppended(ms, k, u), k, u)
        BY <2>1, <4>1, UnitAdded
      <4>3. QED BY <3>1, <4>2
    <3> HIDE DEF mms
    <3>3. Grows(ms, mms)
      BY <3>2 DEF Grows, SetsOff, HasMore
    <3>4. SetsOff(mms, name, u)
      BY <2>1, <2>2, <3>2 DEF SetsOff, HasMore
    <3>5. QED BY <3>2, <3>3, <3>4 DEF mms, HasMore
  <2>5. QED BY <2>3, <2>4
<1>4. QED BY <1>2, <1>3

\* Each loop: its turns have a function, so the one of the definition is one.
LEMMA WithUnitsSetsOff ==
    ASSUME NEW ms \in RuleLists, NEW name \in MonitorNames, NEW broadcast \in Seq(Units)
    PROVE  /\ WithUnits(ms, name, broadcast) \in RuleLists
           /\ Grows(ms, WithUnits(ms, name, broadcast))
           /\ \A u \in Range(broadcast) : SetsOff(WithUnits(ms, name, broadcast), name, u)
<1> DEFINE n == Len(broadcast)
           F(g) == [i \in 0..n |-> IF i = 0 THEN ms ELSE Inserted(g[i - 1], name, broadcast[i])]
           done == CHOOSE g : g = F(g)
           step == [i \in 1..n |-> [m \in RuleLists |-> Inserted(m, name, broadcast[i])]]
           S == [i \in 0..n |->
                    {m \in RuleLists : /\ Grows(ms, m)
                                       /\ \A j \in 1..i : SetsOff(m, name, broadcast[j])}]
<1>0. WithUnits(ms, name, broadcast) = done[n]
  BY DEF WithUnits
<1>1. n \in Nat /\ \A i \in 1..n : broadcast[i] \in Units
  OBVIOUS
<1> HIDE DEF n
<1>2. step \in [1..n -> [RuleLists -> RuleLists]]
  BY <1>1, InsertedSetsOff
<1>3. PICK g \in [0..n -> RuleLists] : g[0] = ms /\ \A i \in 1..n : g[i] = step[i][g[i - 1]]
  <2>1. n \in Nat
    BY <1>1
  <2> HIDE DEF step, F, done, S
  <2>2. HasTurns(n, RuleLists, ms, step)
    BY <1>2, <2>1, LoopHasTurns
  <2>3. QED BY <2>2 DEF HasTurns
<1>4. g = F(g)
  <2>1. ASSUME NEW i \in 0..n PROVE g[i] = F(g)[i]
    <3>1. CASE i = 0
      BY <1>3, <3>1
    <3>2. CASE i # 0
      <4>1. i \in 1..n /\ i - 1 \in 0..n
        BY <3>2, <1>1
      <4>2. g[i - 1] \in RuleLists
        BY <1>3, <4>1
      <4>3. g[i] = Inserted(g[i - 1], name, broadcast[i])
        BY <1>3, <4>1, <4>2
      <4>4. QED BY <3>2, <4>3
    <3>3. QED BY <3>1, <3>2
  <2>2. QED BY <1>3, <2>1
<1>5. done = F(done)
  <2> HIDE DEF F
  <2>1. QED BY <1>4, Zenon
<1> HIDE DEF done
<1>6. done[0] = ms /\ \A i \in 1..n : done[i] = Inserted(done[i - 1], name, broadcast[i])
  <2>1. 0 \in 0..n /\ \A i \in 1..n : i \in 0..n /\ i # 0
    BY <1>1
  <2>2. QED BY <1>5, <2>1
<1>7. done[0] \in S[0]
  BY <1>1, <1>6 DEF Grows
<1>8. ASSUME NEW i \in 1..n, done[i - 1] \in S[i - 1] PROVE done[i] \in S[i]
  <2>1. i - 1 \in 0..n /\ i \in 0..n /\ \A j \in 1..i : j = i \/ j \in 1..(i - 1)
    BY <1>1
  <2>2. /\ done[i - 1] \in RuleLists /\ Grows(ms, done[i - 1])
        /\ \A j \in 1..(i - 1) : SetsOff(done[i - 1], name, broadcast[j])
    BY <1>8, <2>1
  <2>3. /\ done[i] \in RuleLists /\ Grows(done[i - 1], done[i])
        /\ SetsOff(done[i], name, broadcast[i])
    BY <1>1, <1>6, <2>2, InsertedSetsOff
  <2>4. Grows(ms, done[i]) /\ \A j \in 1..i : SetsOff(done[i], name, broadcast[j])
    BY <2>1, <2>2, <2>3 DEF Grows
  <2>5. QED BY <2>1, <2>3, <2>4
<1>9. \A i \in 0..n : done[i] \in S[i]
  <2> HIDE DEF S
  <2>1. QED BY <1>1, <1>7, <1>8, AfterEachTurn
<1>10. done[n] \in S[n] /\ n \in 0..n
  BY <1>1, <1>9
<1>11. \A u \in Range(broadcast) : \E j \in 1..n : u = broadcast[j]
  BY DEF n, Range
<1>12. /\ done[n] \in RuleLists /\ Grows(ms, done[n])
       /\ \A j \in 1..n : SetsOff(done[n], name, broadcast[j])
  BY <1>10
<1>13. QED BY <1>0, <1>11, <1>12

\* What a rule says is in force once it is parsed, and nothing is lost.
LEMMA WithM2mSetsOff ==
    ASSUME NEW ms \in RuleLists, NEW item,
           item.monitor \in Seq(MonitorNames), item.broadcast \in Seq(Units)
    PROVE  /\ WithM2m(ms, item) \in RuleLists
           /\ Grows(ms, WithM2m(ms, item))
           /\ \A name \in Range(item.monitor), u \in Range(item.broadcast) :
                 SetsOff(WithM2m(ms, item), name, u)
<1> DEFINE names == item.monitor
           units == item.broadcast
           n == Len(names)
           F(g) == [i \in 0..n |-> IF i = 0 THEN ms ELSE WithUnits(g[i - 1], names[i], units)]
           done == CHOOSE g : g = F(g)
           step == [i \in 1..n |-> [m \in RuleLists |-> WithUnits(m, names[i], units)]]
           S == [i \in 0..n |->
                    {m \in RuleLists : /\ Grows(ms, m)
                                       /\ \A j \in 1..i, u \in Range(units) :
                                             SetsOff(m, names[j], u)}]
<1>0. WithM2m(ms, item) = done[n]
  BY DEF WithM2m
<1>1. n \in Nat /\ \A i \in 1..n : names[i] \in MonitorNames
  OBVIOUS
<1>a. \A name \in Range(names) : \E j \in 1..n : name = names[j]
  BY DEF Range
<1>b. units \in Seq(Units)
  OBVIOUS
<1> HIDE DEF n, names, units
<1>2. step \in [1..n -> [RuleLists -> RuleLists]]
  BY <1>1, <1>b, WithUnitsSetsOff
<1>3. PICK g \in [0..n -> RuleLists] : g[0] = ms /\ \A i \in 1..n : g[i] = step[i][g[i - 1]]
  <2>1. n \in Nat
    BY <1>1
  <2> HIDE DEF step, F, done, S
  <2>2. HasTurns(n, RuleLists, ms, step)
    BY <1>2, <2>1, LoopHasTurns
  <2>3. QED BY <2>2 DEF HasTurns
<1>4. g = F(g)
  <2>1. ASSUME NEW i \in 0..n PROVE g[i] = F(g)[i]
    <3>1. CASE i = 0
      BY <1>3, <3>1
    <3>2. CASE i # 0
      <4>1. i \in 1..n /\ i - 1 \in 0..n
        BY <3>2, <1>1
      <4>2. g[i - 1] \in RuleLists
        BY <1>3, <4>1
      <4>3. g[i] = WithUnits(g[i - 1], names[i], units)
        BY <1>3, <4>1, <4>2
      <4>4. QED BY <3>2, <4>3
    <3>3. QED BY <3>1, <3>2
  <2>2. QED BY <1>3, <2>1
<1>5. done = F(done)
  <2> HIDE DEF F
  <2>1. QED BY <1>4, Zenon
<1> HIDE DEF done
<1>6. done[0] = ms /\ \A i \in 1..n : done[i] = WithUnits(done[i - 1], names[i], units)
  <2>1. 0 \in 0..n /\ \A i \in 1..n : i \in 0..n /\ i # 0
    BY <1>1
  <2>2. QED BY <1>5, <2>1
<1>7. done[0] \in S[0]
  BY <1>1, <1>6 DEF Grows
<1>8. ASSUME NEW i \in 1..n, done[i - 1] \in S[i - 1] PROVE done[i] \in S[i]
  <2>1. i - 1 \in 0..n /\ i \in 0..n /\ \A j \in 1..i : j = i \/ j \in 1..(i - 1)
    BY <1>1
  <2>2. /\ done[i - 1] \in RuleLists /\ Grows(ms, done[i - 1])
        /\ \A j \in 1..(i - 1), u \in Range(units) : SetsOff(done[i - 1], names[j], u)
    BY <1>8, <2>1
  <2>3. /\ done[i] \in RuleLists /\ Grows(done[i - 1], done[i])
        /\ \A u \in Range(units) : SetsOff(done[i], names[i], u)
    BY <1>1, <1>b, <1>6, <2>2, WithUnitsSetsOff
  <2>4. Grows(ms, done[i]) /\ \A j \in 1..i, u \in Range(units) : SetsOff(done[i], names[j], u)
    BY <2>1, <2>2, <2>3 DEF Grows
  <2>5. QED BY <2>1, <2>3, <2>4
<1>9. \A i \in 0..n : done[i] \in S[i]
  <2> HIDE DEF S
  <2>1. QED BY <1>1, <1>7, <1>8, AfterEachTurn
<1>10. done[n] \in S[n] /\ n \in 0..n
  BY <1>1, <1>9
<1>12. /\ done[n] \in RuleLists /\ Grows(ms, done[n])
       /\ \A j \in 1..n, u \in Range(units) : SetsOff(done[n], names[j], u)
  BY <1>10
<1>13. \A name \in Range(names), u \in Range(units) : SetsOff(done[n], name, u)
  BY <1>a, <1>12
<1>14. QED BY <1>0, <1>12, <1>13 DEF names, units

\* The masks for a member
LEMMA MasksForAreMasks ==
    ASSUME NEW pname, NEW s \in Seq(MaskEntries)
    PROVE  MasksFor(pname, s) \in Seq(MaskEntries)
<1> DEFINE n == Len(s)
           taken(i, m) == IF s[i].pname \in {pname, Star} THEN Append(m, s[i]) ELSE m
           F(g) == [i \in 0..n |-> IF i = 0 THEN <<>>
                                   ELSE IF s[i].pname \in {pname, Star} THEN Append(g[i - 1], s[i])
                                   ELSE g[i - 1]]
           done == CHOOSE g : g = F(g)
           All == Seq(MaskEntries)
           step == [i \in 1..n |-> [m \in All |-> taken(i, m)]]
           S == [i \in 0..n |-> All]
<1>0. MasksFor(pname, s) = done[n]
  BY DEF MasksFor
<1>1. n \in Nat /\ <<>> \in All /\ \A i \in 1..n, m \in All : taken(i, m) \in All
  OBVIOUS
<1>2. step \in [1..n -> [All -> All]]
  <2> HIDE DEF taken, All, n
  <2>1. QED BY <1>1
<1> HIDE DEF All, n
<1>3. PICK g \in [0..n -> All] : g[0] = <<>> /\ \A i \in 1..n : g[i] = step[i][g[i - 1]]
  <2>1. n \in Nat
    BY <1>1
  <2> HIDE DEF step, F, done, S
  <2>2. <<>> \in All
    BY <1>1
  <2>3. HasTurns(n, All, <<>>, step)
    BY <1>2, <2>1, <2>2, LoopHasTurns
  <2>4. QED BY <2>3 DEF HasTurns
<1>4. g = F(g)
  <2>1. ASSUME NEW i \in 0..n PROVE g[i] = F(g)[i]
    <3>1. CASE i = 0
      BY <1>3, <3>1
    <3>2. CASE i # 0
      <4>1. i \in 1..n /\ i - 1 \in 0..n
        BY <3>2, <1>1
      <4>2. g[i - 1] \in All
        BY <1>3, <4>1
      <4>3. g[i] = taken(i, g[i - 1])
        <5> HIDE DEF taken
        <5>1. QED BY <1>3, <4>1, <4>2
      <4>4. QED BY <3>2, <4>3
    <3>3. QED BY <3>1, <3>2
  <2>2. QED BY <1>3, <2>1
<1>5. done = F(done)
  <2> HIDE DEF F
  <2>1. QED BY <1>4, Zenon
<1> HIDE DEF done
<1>6. done[0] = <<>> /\ \A i \in 1..n : done[i] = taken(i, done[i - 1])
  <2>1. 0 \in 0..n /\ \A i \in 1..n : i \in 0..n /\ i # 0
    BY <1>1
  <2>2. QED BY <1>5, <2>1
<1> HIDE DEF taken
<1>7. done[0] \in S[0]
  BY <1>1, <1>6
<1>8. ASSUME NEW i \in 1..n, done[i - 1] \in S[i - 1] PROVE done[i] \in S[i]
  <2>1. i - 1 \in 0..n /\ i \in 0..n
    BY <1>1
  <2>2. QED BY <1>1, <1>6, <1>8, <2>1
<1>9. \A i \in 0..n : done[i] \in S[i]
  <2> HIDE DEF S
  <2>1. QED BY <1>1, <1>7, <1>8, AfterEachTurn
<1>10. QED BY <1>0, <1>1, <1>9 DEF All

LEMMA WithMasksKeepsMembers ==
    ASSUME NEW ml \in Seq(PluginMember), NEW item,
           item.send \in Seq(MaskEntries), item.recv \in Seq(MaskEntries)
    PROVE  WithMasks(ml, item) \in Seq(PluginMember)
<1>1. ml \in [1..Len(ml) -> PluginMember] /\ Len(ml) \in Nat /\ DOMAIN ml = 1..Len(ml)
  OBVIOUS
<1>2. ASSUME NEW k \in 1..Len(ml)
      PROVE  WithMasks(ml, item)[k] \in PluginMember
  <2> DEFINE sent == ml[k].mask_sender \o MasksFor(ml[k].pname, item.send)
             received == ml[k].mask_receiver \o MasksFor(ml[k].pname, item.recv)
  <2>1. ml[k] \in PluginMember
    BY <1>1
  <2>2. sent \in Seq(MaskEntries) /\ received \in Seq(MaskEntries)
    <3>1. ml[k].mask_sender \in Seq(MaskEntries) /\ ml[k].mask_receiver \in Seq(MaskEntries)
      BY <2>1 DEF PluginMember
    <3>2. /\ MasksFor(ml[k].pname, item.send) \in Seq(MaskEntries)
          /\ MasksFor(ml[k].pname, item.recv) \in Seq(MaskEntries)
      BY MasksForAreMasks
    <3>3. QED BY <3>1, <3>2
  <2>3. WithMasks(ml, item)[k] = [ml[k] EXCEPT !.mask_sender = sent, !.mask_receiver = received]
    BY <1>1 DEF WithMasks
  <2> HIDE DEF sent, received
  <2>4. QED BY <2>1, <2>2, <2>3 DEF PluginMember
<1>3. WithMasks(ml, item) \in [1..Len(ml) -> PluginMember]
  <2>1. WithMasks(ml, item) = [k \in 1..Len(ml) |-> WithMasks(ml, item)[k]]
    BY <1>1 DEF WithMasks
  <2>2. QED BY <1>2, <2>1
<1>4. QED BY <1>1, <1>3

-----------------------------------------------------------------------------
\* plugin_units
PluginFiles == [filename : Files, root : Documents]
AllTables == [config : Seq(PluginFiles) \cup {NoConfig},
              monitors : RuleLists,
              mlist : Seq(PluginMember)]

\* All that a document says of messages that set off others is in force.
RootInForce(ms, root) ==
    \A item \in Range(root) :
        item.type = "m2m" =>
            \A name \in Range(item.monitor), u \in Range(item.broadcast) : SetsOff(ms, name, u)

\* No file is there twice, but for paths that were cut.
NamesDiffer(units) ==
    \A j, k \in 1..Len(units) :
        units[j].filename = units[k].filename => j = k \/ units[j].filename \in Range(CutPaths)

\* Tables as the requests leave them
GoodTables ==
    {t \in AllTables :
        /\ t.config = NoConfig =>
              /\ t.monitors = <<>>
              /\ \A k \in 1..Len(t.mlist) : t.mlist[k] = NewMember(t.mlist[k].pname)
        /\ t.config # NoConfig =>
              /\ NamesDiffer(t.config)
              /\ \A k \in 1..Len(t.config) : RootInForce(t.monitors, t.config[k].root)}

LEMMA ItemsAreTyped ==
    ASSUME NEW root \in Documents, NEW item \in Range(root)
    PROVE  /\ item.type = "m2m" => item.monitor \in Seq(MonitorNames) /\ item.broadcast \in Seq(Units)
           /\ item.type = "mask_msg" => item.send \in Seq(MaskEntries) /\ item.recv \in Seq(MaskEntries)
<1>1. item \in Items
  BY DEF Items
<1>2. ASSUME NEW A, NEW B, A \subseteq B PROVE Seq(A) \subseteq Seq(B)
  BY <1>2
<1>3. ASSUME item.type = "m2m"
      PROVE  item.monitor \in Seq(MonitorNames) /\ item.broadcast \in Seq(Units)
  <2>1. item \in Rules
    BY <1>1, <1>3 DEF Rules
  <2>2. Range(item.monitor) \subseteq MonitorNames /\ Range(item.broadcast) \subseteq Units
    BY <2>1 DEF MonitorNames, Units
  <2>3. item.monitor \in Seq(Range(item.monitor)) /\ item.broadcast \in Seq(Range(item.broadcast))
    BY <1>3, FilesAssumption DEF ASequence
  <2>4. QED BY <1>2, <2>2, <2>3
<1>4. ASSUME item.type = "mask_msg"
      PROVE  item.send \in Seq(MaskEntries) /\ item.recv \in Seq(MaskEntries)
  <2>1. item \in Masks
    BY <1>1, <1>4 DEF Masks
  <2>2. Range(item.send) \subseteq MaskEntries /\ Range(item.recv) \subseteq MaskEntries
    BY <2>1 DEF MaskEntries
  <2>3. item.send \in Seq(Range(item.send)) /\ item.recv \in Seq(Range(item.recv))
    BY <1>4, FilesAssumption DEF ASequence
  <2>4. QED BY <1>2, <2>2, <2>3
<1>5. QED BY <1>3, <1>4

\* One entry of a document
LEMMA WithItemInForce ==
    ASSUME NEW t \in AllTables, NEW root \in Documents, NEW item \in Range(root)
    PROVE  /\ WithItem(t, item) \in AllTables
           /\ WithItem(t, item).config = t.config
           /\ Grows(t.monitors, WithItem(t, item).monitors)
           /\ item.type = "m2m" =>
                 \A name \in Range(item.monitor), u \in Range(item.broadcast) :
                     SetsOff(WithItem(t, item).monitors, name, u)
<1>1. CASE item.type = "m2m"
  <2> DEFINE ms == WithM2m(t.monitors, item)
  <2>1. t.monitors \in RuleLists
    BY DEF AllTables
  <2>2. item.monitor \in Seq(MonitorNames) /\ item.broadcast \in Seq(Units)
    BY <1>1, ItemsAreTyped
  <2>3. /\ ms \in RuleLists /\ Grows(t.monitors, ms)
        /\ \A name \in Range(item.monitor), u \in Range(item.broadcast) : SetsOff(ms, name, u)
    BY <2>1, <2>2, WithM2mSetsOff
  <2>4. WithItem(t, item) = [t EXCEPT !.monitors = ms]
    BY <1>1 DEF WithItem
  <2> HIDE DEF ms
  <2>5. /\ WithItem(t, item) \in AllTables
        /\ WithItem(t, item).config = t.config
        /\ WithItem(t, item).monitors = ms
    BY <2>3, <2>4 DEF AllTables
  <2>6. QED BY <2>3, <2>5
<1>2. CASE item.type = "mask_msg"
  <2> DEFINE ml == WithMasks(t.mlist, item)
  <2>1. t.mlist \in Seq(PluginMember)
    BY DEF AllTables
  <2>2. item.send \in Seq(MaskEntries) /\ item.recv \in Seq(MaskEntries)
    BY <1>2, ItemsAreTyped
  <2>3. ml \in Seq(PluginMember)
    BY <2>1, <2>2, WithMasksKeepsMembers
  <2>4. WithItem(t, item) = [t EXCEPT !.mlist = ml]
    BY <1>2 DEF WithItem
  <2> HIDE DEF ml
  <2>5. /\ WithItem(t, item) \in AllTables
        /\ WithItem(t, item).config = t.config
        /\ WithItem(t, item).monitors = t.monitors
    BY <2>3, <2>4 DEF AllTables
  <2>6. QED BY <1>2, <2>5 DEF Grows
<1>3. CASE item.type # "m2m" /\ item.type # "mask_msg"
  <2>1. WithItem(t, item) = t
    BY <1>3 DEF WithItem
  <2>2. QED BY <1>3, <2>1 DEF Grows
<1>4. QED BY <1>1, <1>2, <1>3

\* What a document says is in force once it is parsed.
LEMMA WithRootInForce ==
    ASSUME NEW t \in AllTables, NEW root \in Documents
    PROVE  /\ WithRoot(t, root) \in AllTables
           /\ WithRoot(t, root).config = t.config
           /\ Grows(t.monitors, WithRoot(t, root).monitors)
           /\ RootInForce(WithRoot(t, root).monitors, root)
<1> DEFINE n == Len(root)
           F(g) == [i \in 0..n |-> IF i = 0 THEN t ELSE WithItem(g[i - 1], root[i])]
           done == CHOOSE g : g = F(g)
           step == [i \in 1..n |-> [m \in AllTables |-> WithItem(m, root[i])]]
           Obeyed(m, item) == item.type = "m2m" =>
                                \A name \in Range(item.monitor), u \in Range(item.broadcast) :
                                    SetsOff(m.monitors, name, u)
           S == [i \in 0..n |->
                    {m \in AllTables : /\ m.config = t.config
                                       /\ Grows(t.monitors, m.monitors)
                                       /\ \A j \in 1..i : Obeyed(m, root[j])}]
<1>0. WithRoot(t, root) = done[n]
  BY DEF WithRoot
<1>1. n \in Nat /\ DOMAIN root = 1..n
  <2>1. root \in Seq(Range(root))
    BY FilesAssumption DEF ASequence
  <2>2. QED BY <2>1
<1> HIDE DEF n
<1>a. /\ \A i \in 1..n : root[i] \in Range(root)
      /\ \A item \in Range(root) : \E j \in 1..n : item = root[j]
  BY <1>1 DEF Range
<1>2. step \in [1..n -> [AllTables -> AllTables]]
  <2>1. \A i \in 1..n, m \in AllTables : WithItem(m, root[i]) \in AllTables
    BY <1>a, WithItemInForce
  <2> HIDE DEF AllTables
  <2>2. QED BY <2>1
<1>3. PICK g \in [0..n -> AllTables] : g[0] = t /\ \A i \in 1..n : g[i] = step[i][g[i - 1]]
  <2>1. n \in Nat
    BY <1>1
  <2> HIDE DEF step, F, done, S
  <2>2. HasTurns(n, AllTables, t, step)
    BY <1>2, <2>1, LoopHasTurns
  <2>3. QED BY <2>2 DEF HasTurns
<1>4. g = F(g)
  <2>1. ASSUME NEW i \in 0..n PROVE g[i] = F(g)[i]
    <3>1. CASE i = 0
      BY <1>3, <3>1
    <3>2. CASE i # 0
      <4>1. i \in 1..n /\ i - 1 \in 0..n
        BY <3>2, <1>1
      <4>2. g[i - 1] \in AllTables
        BY <1>3, <4>1
      <4>3. g[i] = WithItem(g[i - 1], root[i])
        BY <1>3, <4>1, <4>2
      <4>4. QED BY <3>2, <4>3
    <3>3. QED BY <3>1, <3>2
  <2>2. QED BY <1>3, <2>1
<1>5. done = F(done)
  <2> HIDE DEF F
  <2>1. QED BY <1>4, Zenon
<1> HIDE DEF done
<1>6. done[0] = t /\ \A i \in 1..n : done[i] = WithItem(done[i - 1], root[i])
  <2>1. 0 \in 0..n /\ \A i \in 1..n : i \in 0..n /\ i # 0
    BY <1>1
  <2>2. QED BY <1>5, <2>1
<1>7. done[0] \in S[0]
  BY <1>1, <1>6 DEF Grows
<1>8. ASSUME NEW i \in 1..n, done[i - 1] \in S[i - 1] PROVE done[i] \in S[i]
  <2>1. i - 1 \in 0..n /\ i \in 0..n /\ \A j \in 1..i : j = i \/ j \in 1..(i - 1)
    BY <1>1
  <2>2. /\ done[i - 1] \in AllTables /\ done[i - 1].config = t.config
        /\ Grows(t.monitors, done[i - 1].monitors)
        /\ \A j \in 1..(i - 1) : Obeyed(done[i - 1], root[j])
    BY <1>8, <2>1
  <2>3. /\ done[i] \in AllTables /\ done[i].config = done[i - 1].config
        /\ Grows(done[i - 1].monitors, done[i].monitors)
        /\ Obeyed(done[i], root[i])
    <3> DEFINE before == done[i - 1]
               item == root[i]
    <3>1. done[i] = WithItem(before, item) /\ item \in Range(root) /\ before \in AllTables
      BY <1>a, <1>6, <2>2
    <3> HIDE DEF before, item, S
    <3>2. /\ WithItem(before, item) \in AllTables /\ WithItem(before, item).config = before.config
          /\ Grows(before.monitors, WithItem(before, item).monitors)
          /\ Obeyed(WithItem(before, item), item)
      BY <3>1, WithItemInForce
    <3> HIDE DEF Obeyed
    <3>3. QED BY <3>1, <3>2 DEF before, item
  <2>4. Grows(t.monitors, done[i].monitors)
    BY <2>2, <2>3 DEF Grows
  <2>5. \A j \in 1..(i - 1) : Obeyed(done[i], root[j])
    BY <2>2, <2>3 DEF Grows
  <2> HIDE DEF Obeyed
  <2>6. \A j \in 1..i : Obeyed(done[i], root[j])
    BY <2>1, <2>3, <2>5
  <2>7. QED BY <2>1, <2>2, <2>3, <2>4, <2>6
<1>9. \A i \in 0..n : done[i] \in S[i]
  <2> HIDE DEF S
  <2>1. QED BY <1>1, <1>7, <1>8, AfterEachTurn
<1>10. done[n] \in S[n] /\ n \in 0..n
  <2> HIDE DEF S
  <2>1. n \in 0..n
    BY <1>1
  <2>2. QED BY <1>9, <2>1
<1>11. /\ done[n] \in AllTables /\ done[n].config = t.config
       /\ Grows(t.monitors, done[n].monitors)
       /\ \A j \in 1..n : Obeyed(done[n], root[j])
  <2> HIDE DEF Obeyed
  <2>1. QED BY <1>10
<1>12. RootInForce(done[n].monitors, root)
  <2>1. \A item \in Range(root) : Obeyed(done[n], item)
    <3> HIDE DEF Obeyed
    <3>1. QED BY <1>a, <1>11
  <2>2. QED BY <2>1 DEF RootInForce
<1>13. QED BY <1>0, <1>11, <1>12

\* A list of files all of which are in force but the one that is parsed now
LEMMA ParsedIsGood ==
    ASSUME NEW t \in AllTables, t.config # NoConfig, NamesDiffer(t.config),
           NEW i \in 1..Len(t.config),
           \A k \in 1..Len(t.config) : k # i => RootInForce(t.monitors, t.config[k].root)
    PROVE  /\ WithRoot(t, t.config[i].root) \in GoodTables
           /\ WithRoot(t, t.config[i].root).config = t.config
<1> DEFINE root == t.config[i].root
           tt == WithRoot(t, root)
<1>1. t.config \in Seq(PluginFiles)
  BY DEF AllTables
<1>2. root \in Documents
  <2>1. t.config[i] \in PluginFiles
    BY <1>1
  <2>2. QED BY <2>1 DEF PluginFiles
<1> HIDE DEF root
<1>3. /\ tt \in AllTables /\ tt.config = t.config /\ Grows(t.monitors, tt.monitors)
      /\ RootInForce(tt.monitors, root)
  BY <1>2, WithRootInForce
<1> HIDE DEF tt
<1>4. ASSUME NEW k \in 1..Len(t.config) PROVE RootInForce(tt.monitors, t.config[k].root)
  <2>1. CASE k = i
    BY <1>3, <2>1 DEF root
  <2>2. CASE k # i
    BY <1>3, <2>2 DEF RootInForce, Grows
  <2>3. QED BY <2>1, <2>2
<1>5. tt \in GoodTables
  BY <1>3, <1>4 DEF GoodTables
<1>6. QED BY <1>3, <1>5 DEF root, tt

\* A file more: its entry is the last, and its name is new.
LEMMA WithFileIsGood ==
    ASSUME NEW t \in GoodTables, NEW f \in Files,
           disk \in [Files -> Documents \cup {NoList, Unusable}]
    PROVE  WithFile(t, f) \in GoodTables
<1>1. /\ t \in AllTables
      /\ t.config # NoConfig =>
            /\ t.config \in Seq(PluginFiles) /\ NamesDiffer(t.config)
            /\ \A k \in 1..Len(t.config) : RootInForce(t.monitors, t.config[k].root)
  BY DEF GoodTables, AllTables
<1>2. CASE Listed(t, f) \/ disk[f] = Unusable
  BY <1>2 DEF WithFile
<1>3. CASE ~(Listed(t, f) \/ disk[f] = Unusable)
  <2> DEFINE old == IF t.config = NoConfig THEN <<>> ELSE t.config
             created == [t EXCEPT !.config = old]
             path == Stored(CutPaths, f)
             new == [filename |-> path, root |-> disk[f]]
             more == Append(old, new)
             added == [created EXCEPT !.config = more]
  <2>1. WithFile(t, f) = IF disk[f] = NoList THEN created ELSE WithRoot(added, disk[f])
    BY <1>1, <1>3 DEF WithFile, AllTables
  <2>2. /\ old \in Seq(PluginFiles) /\ old # NoConfig /\ NamesDiffer(old)
        /\ \A k \in 1..Len(old) : RootInForce(t.monitors, old[k].root)
    <3>1. CASE t.config = NoConfig
      <4>1. old = <<>> /\ 1..Len(old) = {}
        BY <3>1
      <4>2. <<>> \in Seq(PluginFiles)
        OBVIOUS
      <4>3. <<>> # NoConfig
        BY <4>2, FilesAssumption DEF PluginFiles
      <4> HIDE DEF old
      <4>4. QED BY <4>1, <4>2, <4>3 DEF NamesDiffer
    <3>2. CASE t.config # NoConfig
      BY <1>1, <3>2
    <3>3. QED BY <3>1, <3>2
  <2>3. \A k \in 1..Len(old) : old[k].filename # f
    BY <1>1, <1>3 DEF Listed
  <2>a. /\ path \in Files
        /\ f \in DOMAIN CutPaths => path \in Range(CutPaths)
        /\ f \notin DOMAIN CutPaths => path = f
    <3>1. /\ f \in DOMAIN CutPaths => path \in Range(CutPaths)
          /\ f \notin DOMAIN CutPaths => path = f
      BY CutAssumption, StoredOnce
    <3>2. QED BY <3>1, CutAssumption
  <2> HIDE DEF old, path
  <2>4. created \in AllTables /\ created.config = old /\ created.monitors = t.monitors
    BY <1>1, <2>2 DEF AllTables
  <2>5. CASE disk[f] = NoList
    <3>1. created \in GoodTables
      BY <2>2, <2>4 DEF GoodTables
    <3>2. QED BY <2>1, <2>5, <3>1
  <2>6. CASE disk[f] # NoList
    <3>1. disk[f] \in Documents
      BY <1>3, <2>6
    <3>2. new \in PluginFiles /\ new.root = disk[f] /\ new.filename = path
      BY <2>a, <3>1 DEF PluginFiles
    <3> HIDE DEF new
    <3>3. /\ more \in Seq(PluginFiles) /\ Len(more) = Len(old) + 1 /\ more[Len(old) + 1] = new
          /\ \A k \in 1..Len(old) : more[k] = old[k] /\ k \in 1..Len(more)
          /\ \A k \in 1..Len(more) : k = Len(old) + 1 \/ k \in 1..Len(old)
          /\ Len(old) + 1 \in 1..Len(more)
      BY <2>2, <3>2
    <3>4. more # NoConfig
      BY <3>3, FilesAssumption DEF PluginFiles
    <3> HIDE DEF more, created
    <3>5. added \in AllTables /\ added.config = more /\ added.monitors = t.monitors
      BY <2>4, <3>3 DEF AllTables
    <3>6. NamesDiffer(more)
      BY <2>2, <2>3, <2>a, <3>2, <3>3 DEF NamesDiffer
    <3>7. \A k \in 1..Len(more) : k # Len(old) + 1 => RootInForce(t.monitors, more[k].root)
      BY <2>2, <3>3
    <3> HIDE DEF added
    <3>8. WithRoot(added, added.config[Len(old) + 1].root) \in GoodTables
      <4> DEFINE last == Len(old) + 1
      <4>1. /\ added.config # NoConfig /\ NamesDiffer(added.config) /\ last \in 1..Len(added.config)
            /\ \A k \in 1..Len(added.config) :
                  k # last => RootInForce(added.monitors, added.config[k].root)
        BY <3>3, <3>4, <3>5, <3>6, <3>7
      <4> HIDE DEF last
      <4>2. WithRoot(added, added.config[last].root) \in GoodTables
        BY <3>5, <4>1, ParsedIsGood
      <4>3. QED BY <4>2 DEF last
    <3>9. QED BY <2>1, <2>6, <3>2, <3>3, <3>5, <3>8
  <2>7. QED BY <2>5, <2>6
<1>4. QED BY <1>2, <1>3

\* A directory is a sequence of files.
LEMMA WithDirIsGood ==
    ASSUME NEW t \in GoodTables, NEW listing \in Listings,
           disk \in [Files -> Documents \cup {NoList, Unusable}]
    PROVE  WithDir(t, listing) \in GoodTables
<1> DEFINE n == Len(listing)
           F(g) == [i \in 0..n |-> IF i = 0 THEN t ELSE WithFile(g[i - 1], listing[i])]
           done == CHOOSE g : g = F(g)
           step == [i \in 1..n |-> [m \in GoodTables |-> WithFile(m, listing[i])]]
<1>0. WithDir(t, listing) = done[n]
  BY DEF WithDir
<1>1. n \in Nat /\ \A i \in 1..n : listing[i] \in Files
  <2>1. listing \in Seq(Files)
    BY FilesAssumption
  <2>2. QED BY <2>1
<1> HIDE DEF n
<1>2. step \in [1..n -> [GoodTables -> GoodTables]]
  BY <1>1, WithFileIsGood
<1>3. PICK g \in [0..n -> GoodTables] : g[0] = t /\ \A i \in 1..n : g[i] = step[i][g[i - 1]]
  <2>1. n \in Nat
    BY <1>1
  <2> HIDE DEF step, F, done
  <2>2. HasTurns(n, GoodTables, t, step)
    BY <1>2, <2>1, LoopHasTurns
  <2>3. QED BY <2>2 DEF HasTurns
<1>4. g = F(g)
  <2>1. ASSUME NEW i \in 0..n PROVE g[i] = F(g)[i]
    <3>1. CASE i = 0
      BY <1>3, <3>1
    <3>2. CASE i # 0
      <4>1. i \in 1..n /\ i - 1 \in 0..n
        BY <3>2, <1>1
      <4>2. g[i - 1] \in GoodTables
        BY <1>3, <4>1
      <4>3. g[i] = WithFile(g[i - 1], listing[i])
        BY <1>3, <4>1, <4>2
      <4>4. QED BY <3>2, <4>3
    <3>3. QED BY <3>1, <3>2
  <2>2. QED BY <1>3, <2>1
<1>5. done = F(done)
  <2> HIDE DEF F
  <2>1. QED BY <1>4, Zenon
<1> HIDE DEF done
<1>6. done[0] = t /\ \A i \in 1..n : done[i] = WithFile(done[i - 1], listing[i])
  <2>1. 0 \in 0..n /\ \A i \in 1..n : i \in 0..n /\ i # 0
    BY <1>1
  <2>2. QED BY <1>5, <2>1
<1> DEFINE S == [i \in 0..n |-> GoodTables]
<1>7. done[0] \in S[0]
  BY <1>1, <1>6
<1>8. ASSUME NEW i \in 1..n, done[i - 1] \in S[i - 1] PROVE done[i] \in S[i]
  <2>1. i - 1 \in 0..n /\ i \in 0..n
    BY <1>1
  <2>2. QED BY <1>1, <1>6, <1>8, <2>1, WithFileIsGood
<1>9. \A i \in 0..n : done[i] \in S[i]
  <2> HIDE DEF S
  <2>1. QED BY <1>1, <1>7, <1>8, AfterEachTurn
<1>10. QED BY <1>0, <1>1, <1>9

\* A turn of the refresh: the document is another one, and in force.
LEMMA WithUnitRefreshedIsGood ==
    ASSUME NEW t \in GoodTables, t.config # NoConfig, NEW i \in 1..Len(t.config),
           disk \in [Files -> Documents \cup {NoList, Unusable}],
           disk[t.config[i].filename] # Unusable
    PROVE  /\ WithUnitRefreshed(t, i) \in GoodTables
           /\ WithUnitRefreshed(t, i).config # NoConfig
           /\ Len(WithUnitRefreshed(t, i).config) = Len(t.config)
           /\ \A k \in 1..Len(t.config) :
                 WithUnitRefreshed(t, i).config[k].filename = t.config[k].filename
<1> DEFINE root == disk[t.config[i].filename]
           units == t.config
           new == [units[i] EXCEPT !.root = root]
           more == [units EXCEPT ![i] = new]
           read == [t EXCEPT !.config = more]
<1>1. /\ t \in AllTables
      /\ units \in Seq(PluginFiles) /\ NamesDiffer(units)
      /\ \A k \in 1..Len(units) : RootInForce(t.monitors, units[k].root)
  BY DEF GoodTables, AllTables
<1>2. WithUnitRefreshed(t, i) = IF root = NoList THEN t ELSE WithRoot(read, root)
  BY DEF WithUnitRefreshed
<1>3. CASE root = NoList
  BY <1>2, <1>3
<1>4. CASE root # NoList
  <2>1. units[i] \in PluginFiles
    BY <1>1
  <2>2. root \in Documents
    <3>1. units[i].filename \in Files
      BY <2>1 DEF PluginFiles
    <3>2. QED BY <1>4, <3>1
  <2> HIDE DEF root, units
  <2>3. new \in PluginFiles /\ new.root = root /\ new.filename = units[i].filename
    BY <2>1, <2>2 DEF PluginFiles
  <2>4. i \in 1..Len(units)
    BY DEF units
  <2> HIDE DEF new
  <2>5. /\ more \in Seq(PluginFiles) /\ Len(more) = Len(units) /\ more[i] = new
        /\ \A k \in 1..Len(units) : k # i => more[k] = units[k]
    BY <1>1, <2>3, <2>4
  <2>6. more # NoConfig
    BY <2>5, FilesAssumption DEF PluginFiles
  <2> HIDE DEF more
  <2>7. \A k \in 1..Len(units) : more[k].filename = units[k].filename
    BY <2>3, <2>5
  <2>8. NamesDiffer(more)
    BY <1>1, <2>5, <2>7 DEF NamesDiffer
  <2>9. read \in AllTables /\ read.config = more /\ read.monitors = t.monitors
    BY <1>1, <2>5 DEF AllTables
  <2>10. \A k \in 1..Len(more) : k # i => RootInForce(t.monitors, more[k].root)
    BY <1>1, <2>5
  <2> HIDE DEF read
  <2>11. /\ read.config # NoConfig /\ NamesDiffer(read.config) /\ i \in 1..Len(read.config)
         /\ \A k \in 1..Len(read.config) :
               k # i => RootInForce(read.monitors, read.config[k].root)
    BY <2>4, <2>5, <2>6, <2>8, <2>9, <2>10
  <2>12. /\ WithRoot(read, read.config[i].root) \in GoodTables
         /\ WithRoot(read, read.config[i].root).config = read.config
    BY <2>9, <2>11, ParsedIsGood
  <2>13. WithUnitRefreshed(t, i) = WithRoot(read, read.config[i].root)
    BY <1>2, <1>4, <2>3, <2>5, <2>9
  <2>14. QED BY <2>5, <2>6, <2>7, <2>9, <2>12, <2>13 DEF units
<1>5. QED BY <1>3, <1>4

\* The refresh goes over the files of before: no turn adds or renames one.
LEMMA AllRefreshedIsGood ==
    ASSUME NEW t \in GoodTables, disk \in [Files -> Documents \cup {NoList, Unusable}]
    PROVE  AllRefreshed(t) \in GoodTables
<1>1. CASE t.config = NoConfig
  BY <1>1 DEF AllRefreshed
<1>2. CASE t.config # NoConfig
  <2> DEFINE units == t.config
             n == Len(units)
             taken(i, m) == IF i \in Refreshed(units) THEN WithUnitRefreshed(m, i) ELSE m
             F(g) == [k \in 0..n |->
                         IF k = 0 THEN t
                         ELSE IF k \in Refreshed(units) THEN WithUnitRefreshed(g[k - 1], k)
                         ELSE g[k - 1]]
             done == CHOOSE g : g = F(g)
             Same == {m \in GoodTables : /\ m.config # NoConfig /\ Len(m.config) = n
                                         /\ \A k \in 1..n : m.config[k].filename = units[k].filename}
             step == [i \in 1..n |-> [m \in Same |-> taken(i, m)]]
  <2>0. AllRefreshed(t) = done[n]
    BY <1>2 DEF AllRefreshed
  <2>1. n \in Nat
    BY <1>2 DEF GoodTables, AllTables
  <2>2. t \in Same
    BY <1>2
  <2>3. ASSUME NEW i \in 1..n, NEW m \in Same PROVE taken(i, m) \in Same
    <3>1. CASE i \in Refreshed(units)
      <4>1. disk[units[i].filename] # Unusable
        BY <2>1, <3>1 DEF Refreshed
      <4>2. /\ m \in GoodTables /\ m.config # NoConfig /\ i \in 1..Len(m.config)
            /\ disk[m.config[i].filename] # Unusable
        BY <4>1
      <4>3. /\ WithUnitRefreshed(m, i) \in GoodTables
            /\ WithUnitRefreshed(m, i).config # NoConfig
            /\ Len(WithUnitRefreshed(m, i).config) = Len(m.config)
            /\ \A k \in 1..Len(m.config) :
                  WithUnitRefreshed(m, i).config[k].filename = m.config[k].filename
        BY <4>2, WithUnitRefreshedIsGood
      <4>4. QED BY <3>1, <4>3
    <3>2. CASE i \notin Refreshed(units)
      BY <3>2
    <3>3. QED BY <3>1, <3>2
  <2> HIDE DEF units, n, Same
  <2>4. step \in [1..n -> [Same -> Same]]
    <3> HIDE DEF taken
    <3>1. QED BY <2>3
  <2>5. PICK g \in [0..n -> Same] : g[0] = t /\ \A i \in 1..n : g[i] = step[i][g[i - 1]]
    <3> HIDE DEF step, F, done
    <3>1. HasTurns(n, Same, t, step)
      BY <2>1, <2>2, <2>4, LoopHasTurns
    <3>2. QED BY <3>1 DEF HasTurns
  <2>6. g = F(g)
    <3>1. ASSUME NEW i \in 0..n PROVE g[i] = F(g)[i]
      <4>1. CASE i = 0
        BY <2>5, <4>1
      <4>2. CASE i # 0
        <5>1. i \in 1..n /\ i - 1 \in 0..n
          BY <4>2, <2>1
        <5>2. g[i - 1] \in Same
          BY <2>5, <5>1
        <5>3. g[i] = taken(i, g[i - 1])
          <6> HIDE DEF taken
          <6>1. QED BY <2>5, <5>1, <5>2
        <5>4. QED BY <4>2, <5>3
      <4>3. QED BY <4>1, <4>2
    <3>2. QED BY <2>5, <3>1
  <2>7. done = F(done)
    <3> HIDE DEF F
    <3>1. QED BY <2>6, Zenon
  <2> HIDE DEF done
  <2>8. done[0] = t /\ \A i \in 1..n : done[i] = taken(i, done[i - 1])
    <3>1. 0 \in 0..n /\ \A i \in 1..n : i \in 0..n /\ i # 0
      BY <2>1
    <3>2. QED BY <2>7, <3>1
  <2> HIDE DEF taken
  <2> DEFINE S == [i \in 0..n |-> Same]
  <2>9. done[0] \in S[0]
    BY <2>1, <2>2, <2>8
  <2>10. ASSUME NEW i \in 1..n, done[i - 1] \in S[i - 1] PROVE done[i] \in S[i]
    <3>1. i - 1 \in 0..n /\ i \in 0..n
      BY <2>1
    <3>2. QED BY <2>3, <2>8, <2>10, <3>1
  <2>11. \A i \in 0..n : done[i] \in S[i]
    <3> HIDE DEF S
    <3>1. QED BY <2>1, <2>9, <2>10, AfterEachTurn
  <2>12. done[n] \in Same
    BY <2>1, <2>11
  <2>13. QED BY <2>0, <2>12 DEF Same
<1>3. QED BY <1>1, <1>2

LEMMA NewMemberIsTyped ==
    ASSUME NEW n \in Names
    PROVE  NewMember(n) \in PluginMember /\ NewMember(n).pname = n
<1>1. <<>> \in Seq(MaskEntries)
  OBVIOUS
<1>2. QED BY <1>1 DEF NewMember, PluginMember

\* Nothing is left when all is cleaned: without a file there was no mask.
LEMMA CleanedIsGood ==
    ASSUME NEW t \in GoodTables
    PROVE  Cleaned(t) \in GoodTables
<1>1. t \in AllTables /\ t.mlist \in Seq(PluginMember)
  BY DEF GoodTables, AllTables
<1>2. <<>> \in RuleLists
  <2>1. <<>> \in Seq(Monitor) /\ Len(<<>>) = 0 /\ 1..0 = {}
    OBVIOUS
  <2>2. QED BY <2>1 DEF RuleLists
<1>3. CASE t.config = NoConfig
  <2>1. Cleaned(t) = [t EXCEPT !.monitors = <<>>]
    BY <1>3 DEF Cleaned
  <2>2. /\ Cleaned(t) \in AllTables /\ Cleaned(t).config = NoConfig
        /\ Cleaned(t).monitors = <<>> /\ Cleaned(t).mlist = t.mlist
    BY <1>1, <1>2, <1>3, <2>1 DEF AllTables
  <2>3. QED BY <1>3, <2>2 DEF GoodTables
<1>4. CASE t.config # NoConfig
  <2> DEFINE ml == [k \in DOMAIN t.mlist |-> NewMember(t.mlist[k].pname)]
  <2>1. Cleaned(t) = [config |-> NoConfig, monitors |-> <<>>, mlist |-> ml]
    BY <1>4 DEF Cleaned
  <2>2. DOMAIN t.mlist = 1..Len(t.mlist) /\ Len(t.mlist) \in Nat
    BY <1>1
  <2>3. ASSUME NEW k \in 1..Len(t.mlist)
        PROVE  ml[k] \in PluginMember /\ ml[k] = NewMember(ml[k].pname)
    <3>1. t.mlist[k] \in PluginMember
      BY <1>1
    <3>2. t.mlist[k].pname \in Names
      BY <3>1 DEF PluginMember
    <3>3. ml[k] = NewMember(t.mlist[k].pname)
      BY <2>2
    <3>4. QED BY <3>2, <3>3, NewMemberIsTyped
  <2>4. ml \in Seq(PluginMember) /\ Len(ml) = Len(t.mlist)
    <3>1. ml \in [1..Len(t.mlist) -> PluginMember]
      BY <2>2, <2>3
    <3>2. QED BY <2>2, <3>1
  <2> HIDE DEF ml
  <2>5. /\ Cleaned(t) \in AllTables /\ Cleaned(t).config = NoConfig
        /\ Cleaned(t).monitors = <<>> /\ Cleaned(t).mlist = ml
    BY <1>2, <2>1, <2>4 DEF AllTables
  <2>6. QED BY <2>3, <2>4, <2>5 DEF GoodTables
<1>5. QED BY <1>3, <1>4

-----------------------------------------------------------------------------
PluginInv == /\ disk \in [Files -> Documents \cup {NoList, Unusable}]
             /\ Tables \in GoodTables

LEMMA PluginInitInv == PluginInit => PluginInv
<1> SUFFICES ASSUME PluginInit PROVE PluginInv
  OBVIOUS
<1>1. <<>> \in Seq(Monitor) /\ <<>> \in Seq(PluginMember) /\ Len(<<>>) = 0 /\ 1..0 = {}
  OBVIOUS
<1>2. <<>> \in RuleLists
  BY <1>1 DEF RuleLists
<1>3. Tables = [config |-> NoConfig, monitors |-> <<>>, mlist |-> <<>>]
  BY DEF PluginInit, Tables
<1>4. /\ Tables \in AllTables /\ Tables.config = NoConfig
      /\ Tables.monitors = <<>> /\ Tables.mlist = <<>>
  BY <1>1, <1>2, <1>3 DEF AllTables
<1>5. Tables \in GoodTables
  BY <1>1, <1>4 DEF GoodTables
<1>6. QED BY <1>5 DEF PluginInv, PluginInit

\* A request leaves good tables.
LEMMA RequestKeepsInv ==
    ASSUME PluginInv, NEW t \in GoodTables, Request(t)
    PROVE  PluginInv'
<1>1. t \in AllTables
  BY DEF GoodTables
<1>2. t = [config |-> t.config, monitors |-> t.monitors, mlist |-> t.mlist]
  BY <1>1 DEF AllTables
<1>3. Tables' = t
  BY <1>2 DEF Request, Tables
<1>4. QED BY <1>3 DEF PluginInv, Request

\* The members come and go without the files.
LEMMA MembersKeepInv ==
    ASSUME PluginInv, NEW ml \in Seq(PluginMember),
           mlist' = ml, UNCHANGED <<disk, config, monitors>>,
           \A k \in 1..Len(ml) : \/ ml[k] = NewMember(ml[k].pname)
                                 \/ \E j \in 1..Len(mlist) : ml[k] = mlist[j]
    PROVE  PluginInv'
<1>1. Tables' = [config |-> config, monitors |-> monitors, mlist |-> ml]
  BY DEF Tables
<1>2. /\ Tables \in GoodTables /\ Tables \in AllTables
      /\ Tables.config = config /\ Tables.monitors = monitors /\ Tables.mlist = mlist
  BY DEF PluginInv, GoodTables, Tables
<1>3. /\ Tables' \in AllTables
      /\ (Tables').config = config /\ (Tables').monitors = monitors /\ (Tables').mlist = ml
  BY <1>1, <1>2 DEF AllTables
<1>4. ASSUME config = NoConfig
      PROVE  monitors = <<>> /\ \A k \in 1..Len(ml) : ml[k] = NewMember(ml[k].pname)
  BY <1>2, <1>4 DEF GoodTables
<1>5. config # NoConfig => /\ NamesDiffer(config)
                           /\ \A k \in 1..Len(config) : RootInForce(monitors, config[k].root)
  BY <1>2 DEF GoodTables
<1>6. Tables' \in GoodTables
  BY <1>3, <1>4, <1>5 DEF GoodTables
<1>7. QED BY <1>6 DEF PluginInv

LEMMA PluginNextInv == PluginInv /\ [PluginNext]_pluginVars => PluginInv'
<1> SUFFICES ASSUME PluginInv, [PluginNext]_pluginVars PROVE PluginInv'
  OBVIOUS
<1>1. Tables \in GoodTables /\ disk \in [Files -> Documents \cup {NoList, Unusable}]
  BY DEF PluginInv
<1>2. mlist \in Seq(PluginMember) /\ Len(mlist) \in Nat /\ DOMAIN mlist = 1..Len(mlist)
  BY <1>1 DEF GoodTables, AllTables, Tables
<1>3. ASSUME NEW f \in Files, AddFile(f) PROVE PluginInv'
  <2>1. WithFile(Tables, f) \in GoodTables
    BY <1>1, WithFileIsGood
  <2>2. QED BY <1>3, <2>1, RequestKeepsInv DEF AddFile
<1>4. ASSUME NEW f \in Files, Edit(f) PROVE PluginInv'
  <2>1. disk' \in [Files -> Documents \cup {NoList, Unusable}]
    BY <1>1, <1>4 DEF Edit
  <2>2. Tables' = Tables
    BY <1>4 DEF Edit, Tables
  <2>3. QED BY <1>1, <2>1, <2>2 DEF PluginInv
<1>5. ASSUME NEW listing \in Listings, AddDir(listing) PROVE PluginInv'
  <2>1. WithDir(Tables, listing) \in GoodTables
    BY <1>1, WithDirIsGood
  <2>2. QED BY <1>5, <2>1, RequestKeepsInv DEF AddDir
<1>6. CASE Refresh
  <2>1. AllRefreshed(Tables) \in GoodTables
    BY <1>1, AllRefreshedIsGood
  <2>2. QED BY <1>6, <2>1, RequestKeepsInv DEF Refresh
<1>7. CASE Clean
  <2>1. Cleaned(Tables) \in GoodTables
    BY <1>1, CleanedIsGood
  <2>2. QED BY <1>7, <2>1, RequestKeepsInv DEF Clean
<1>8. ASSUME NEW n \in Names, Join(n) PROVE PluginInv'
  <2> DEFINE new == NewMember(n)
             ml == Append(mlist, new)
  <2>1. new \in PluginMember /\ new = NewMember(new.pname)
    BY NewMemberIsTyped
  <2> HIDE DEF new
  <2>2. /\ ml \in Seq(PluginMember)
        /\ \A k \in 1..Len(ml) : \/ ml[k] = new
                                 \/ k \in 1..Len(mlist) /\ ml[k] = mlist[k]
    BY <1>2, <2>1
  <2>3. mlist' = ml /\ UNCHANGED <<disk, config, monitors>>
    BY <1>8 DEF Join, new
  <2> HIDE DEF ml
  <2>4. \A k \in 1..Len(ml) : \/ ml[k] = NewMember(ml[k].pname)
                              \/ \E j \in 1..Len(mlist) : ml[k] = mlist[j]
    BY <2>1, <2>2
  <2>5. QED BY <2>2, <2>3, <2>4, MembersKeepInv
<1>9. CASE Exit
  <2>1. PICK k \in 1..Len(mlist) : mlist' = RemoveAt(mlist, k)
    BY <1>2, <1>9 DEF Exit
  <2> DEFINE ml == RemoveAt(mlist, k)
  <2>2. /\ ml \in Seq(PluginMember)
        /\ \A i \in 1..Len(ml) : \E j \in 1..Len(mlist) : ml[i] = mlist[j]
    <3>1. /\ ml \in Seq(PluginMember) /\ Len(ml) = Len(mlist) - 1
          /\ \A i \in 1..Len(ml) : ml[i] = IF i < k THEN mlist[i] ELSE mlist[i + 1]
      BY <1>2, DeleteProperties
    <3> HIDE DEF ml
    <3>2. \A i \in 1..Len(ml) : i \in 1..Len(mlist) /\ i + 1 \in 1..Len(mlist)
      BY <1>2, <3>1
    <3>3. QED BY <3>1, <3>2
  <2> HIDE DEF ml
  <2>3. mlist' = ml /\ UNCHANGED <<disk, config, monitors>>
    BY <1>9, <2>1 DEF Exit, ml
  <2>4. QED BY <2>2, <2>3, MembersKeepInv
<1>10. CASE UNCHANGED pluginVars
  <2>1. Tables' = Tables /\ disk' = disk
    BY <1>10 DEF pluginVars, Tables
  <2>2. QED BY <1>1, <2>1 DEF PluginInv
<1>11. QED BY <1>3, <1>4, <1>5, <1>6, <1>7, <1>8, <1>9, <1>10 DEF PluginNext

LEMMA PluginAlwaysInv == PluginSpec => []PluginInv
<1>1. QED BY PluginInitInv, PluginNextInv, PTL DEF PluginSpec

\* Whatever was loaded, edited, broken, refreshed half way and cleaned: what the
\* daemon shows as the rules of a loaded file (ipcd_plugin_view) is in its tables,
\* as far as it fits there.
THEOREM ShownIsAlwaysInForce == PluginSpec => []ShownIsInForce
<1>1. PluginInv => ShownIsInForce
  <2> SUFFICES ASSUME PluginInv, config # NoConfig,
                      NEW k \in DOMAIN config, NEW item \in Range(config[k].root),
                      item.type = "m2m",
                      NEW name \in Range(item.monitor), NEW u \in Range(item.broadcast)
               PROVE  InForce(name, u)
    BY DEF ShownIsInForce
  <2>1. /\ config \in Seq(PluginFiles) /\ monitors \in Seq(Monitor)
        /\ \A j \in 1..Len(config) : RootInForce(monitors, config[j].root)
    BY DEF PluginInv, GoodTables, AllTables, Tables, RuleLists
  <2>2. k \in 1..Len(config)
    BY <2>1
  <2>3. SetsOff(monitors, name, u)
    BY <2>1, <2>2 DEF RootInForce
  <2>4. QED BY <2>1, <2>3 DEF SetsOff, InForce
<1>2. QED BY <1>1, PluginAlwaysInv, PTL

\* A message is listed once and sets nothing off twice, and no file is loaded
\* twice, but for what is left of names, units and paths that were cut.
THEOREM NeverTwice == PluginSpec => []NothingTwice
<1>1. PluginInv => NothingTwice
  <2> SUFFICES ASSUME PluginInv PROVE NothingTwice
    OBVIOUS
  <2>1. /\ monitors \in RuleLists /\ monitors \in Seq(Monitor)
        /\ config # NoConfig => config \in Seq(PluginFiles) /\ NamesDiffer(config)
    BY DEF PluginInv, GoodTables, AllTables, Tables, RuleLists
  <2>2. DOMAIN monitors = 1..Len(monitors)
    BY <2>1
  <2>3. config # NoConfig => DOMAIN config = 1..Len(config)
    BY <2>1
  <2>4. /\ \A j, k \in DOMAIN monitors :
              monitors[j].monitor_msg_name = monitors[k].monitor_msg_name
                 => j = k \/ monitors[j].monitor_msg_name \in Range(CutNames)
        /\ \A k \in DOMAIN monitors : UnitsDiffer(monitors[k].broadcast_msglist)
    BY <2>1, <2>2 DEF RuleLists
  <2>5. config # NoConfig =>
           \A j, k \in DOMAIN config :
              config[j].filename = config[k].filename
                 => j = k \/ config[j].filename \in Range(CutPaths)
    BY <2>1, <2>3 DEF NamesDiffer
  <2>6. QED BY <2>4, <2>5 DEF NothingTwice, UnitsDiffer
<1>2. QED BY <1>1, PluginAlwaysInv, PTL

\* Without a loaded file there is no rule and no mask, of the members that
\* joined before, between and after the files either.
THEOREM NoFileNeverATrace == PluginSpec => []NoFileNoTrace
<1>1. PluginInv => NoFileNoTrace
  <2> SUFFICES ASSUME PluginInv, config = NoConfig
               PROVE  monitors = <<>> /\ \A k \in DOMAIN mlist : mlist[k] = NewMember(mlist[k].pname)
    BY DEF NoFileNoTrace
  <2>1. mlist \in Seq(PluginMember)
    BY DEF PluginInv, GoodTables, AllTables, Tables
  <2>2. DOMAIN mlist = 1..Len(mlist)
    BY <2>1
  <2>3. QED BY <2>2 DEF PluginInv, GoodTables, Tables
<1>2. QED BY <1>1, PluginAlwaysInv, PTL

=============================================================================
