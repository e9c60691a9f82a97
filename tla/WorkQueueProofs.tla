-------------------------- MODULE WorkQueueProofs --------------------------
(***************************************************************************)
(* What is proved of WorkQueue for any number of producers and pushes: the *)
(* semaphore and the list always agree, up to the threads that are between *)
(* the one and the other. No entry is ever stranded, lost or overtaken;    *)
(* and where no signal handler interrupts sem_wait, no pull ever finds its *)
(* list empty.                                                             *)
(***************************************************************************)
EXTENDS WorkQueue, FiniteSetTheorems, SequenceTheorems, TLAPS

-----------------------------------------------------------------------------
(* Types *)

\* A producer that has begun a push is below its bound.
AttachInBounds == \A p \in Producers : pc[p] = "attach" => pushed[p] < MaxItems

TypeInv == TypeOK /\ AttachInBounds

LEMMA TypeInit == Init => TypeInv
BY MaxItemsAssumption, EmptySeq DEF Init, TypeInv, TypeOK, AttachInBounds

LEMMA TypeNext == TypeInv /\ [Next]_vars => TypeInv'
<1>. SUFFICES ASSUME TypeInv, [Next]_vars
              PROVE  TypeInv'
  OBVIOUS
<1>. USE MaxItemsAssumption DEF TypeInv, TypeOK, AttachInBounds
<1>1. ASSUME NEW p \in Producers, Lock(p)
      PROVE  TypeInv'
  BY <1>1 DEF Lock
<1>2. ASSUME NEW p \in Producers, Attach(p)
      PROVE  TypeInv'
  <2>1. pushed[p] + 1 \in 1..MaxItems
    BY <1>2 DEF Attach
  <2>2. <<p, pushed[p] + 1>> \in Item
    BY <2>1 DEF Item
  <2>3. list' \in Seq(Item)
    BY <1>2, <2>2, AppendProperties DEF Attach, Attached
  <2>4. /\ pushed' \in [Producers -> 0..MaxItems]
        /\ \A q \in Producers \ {p} : pushed'[q] = pushed[q]
    BY <1>2, <2>1 DEF Attach
  <2>5. /\ pc' \in [Producers -> {"lock", "attach", "unlock", "post"}]
        /\ \A q \in Producers : pc'[q] = IF q = p THEN "unlock" ELSE pc[q]
    BY <1>2 DEF Attach
  <2>6. AttachInBounds'
    BY <2>4, <2>5
  <2>. QED  BY <1>2, <2>3, <2>4, <2>5, <2>6 DEF Attach
<1>3. ASSUME NEW p \in Producers, Unlock(p)
      PROVE  TypeInv'
  BY <1>3 DEF Unlock
<1>4. ASSUME NEW p \in Producers, Post(p)
      PROVE  TypeInv'
  BY <1>4 DEF Post
<1>5. CASE SemWait
  BY <1>5 DEF SemWait
<1>6. CASE SemInterrupted
  BY <1>6 DEF SemInterrupted
<1>7. CASE ConsumerLock
  BY <1>7 DEF ConsumerLock
<1>8. CASE Take
  <2>1. Head(list) \in Item /\ Tail(list) \in Seq(Item)
    BY <1>8, HeadTailProperties DEF Take
  <2>2. taken' \in Seq(Item)
    BY <1>8, <2>1, AppendProperties DEF Take
  <2>. QED  BY <1>8, <2>1, <2>2 DEF Take
<1>9. CASE TakeNothing
  BY <1>9 DEF TakeNothing, Queues
<1>10. CASE ConsumerUnlock
  BY <1>10 DEF ConsumerUnlock
<1>11. CASE UNCHANGED vars
  BY <1>11 DEF vars
<1>. QED  BY <1>1, <1>2, <1>3, <1>4, <1>5, <1>6, <1>7, <1>8, <1>9, <1>10, <1>11
          DEF Next, Push, Pull

\* Every variable keeps its type.
THEOREM TypeCorrect == Spec => []TypeOK
<1>1. TypeInv => TypeOK
  BY DEF TypeInv
<1>. QED  BY TypeInit, TypeNext, <1>1, PTL DEF Spec

-----------------------------------------------------------------------------
(* How each step moves the threads between list and semaphore *)

LEMMA PostingIsFinite == IsFiniteSet(Posting) /\ Cardinality(Posting) \in Nat
<1>1. Posting \in SUBSET Producers
  BY DEF Posting
<1>. QED  BY <1>1, ThreadsAssumption, FS_Subset, FS_CardinalityType

\* Posting' and its size, for the steps of producer p.
LEMMA PostingOfProducer ==
    ASSUME TypeOK, NEW p \in Producers
    PROVE  /\ Lock(p) \/ Unlock(p) => Posting' = Posting
           /\ Attach(p) => Cardinality(Posting') = Cardinality(Posting) + 1
           /\ Post(p) => Cardinality(Posting') = Cardinality(Posting) - 1
<1>. USE DEF TypeOK
<1>1. ASSUME Lock(p) \/ Unlock(p)
      PROVE  Posting' = Posting
  BY <1>1 DEF Lock, Unlock, Posting
<1>2. ASSUME Attach(p)
      PROVE  Cardinality(Posting') = Cardinality(Posting) + 1
  <2>1. p \notin Posting /\ Posting' = Posting \cup {p}
    BY <1>2 DEF Attach, Posting
  <2>. QED  BY <2>1, PostingIsFinite, FS_AddElement
<1>3. ASSUME Post(p)
      PROVE  Cardinality(Posting') = Cardinality(Posting) - 1
  <2>1. p \in Posting /\ Posting' = Posting \ {p}
    BY <1>3 DEF Post, Posting
  <2>. QED  BY <2>1, PostingIsFinite, FS_RemoveElement
<1>. QED  BY <1>1, <1>2, <1>3

\* The consumer leaves the producers alone.
LEMMA PostingOfOthers ==
    ASSUME UNCHANGED pc
    PROVE  Posting' = Posting
BY DEF Posting

-----------------------------------------------------------------------------
(* No entry is stranded *)

LEMMA StrandedNext ==
    TypeOK /\ NoEntryStranded /\ [Next]_vars => NoEntryStranded'
<1>. SUFFICES ASSUME TypeOK, NoEntryStranded, [Next]_vars
              PROVE  NoEntryStranded'
  OBVIOUS
<1>0. /\ list \in Seq(Item) /\ Len(list) \in Nat /\ sem \in Nat
      /\ Cardinality(Posting) \in Nat
      /\ Len(list) <= sem + Cardinality(Posting) + Pulling
  BY PostingIsFinite, LenProperties DEF TypeOK, NoEntryStranded
<1>1. ASSUME NEW p \in Producers, Lock(p) \/ Unlock(p)
      PROVE  NoEntryStranded'
  BY <1>0, <1>1, PostingOfProducer DEF Lock, Unlock, NoEntryStranded, Pulling
<1>2. ASSUME NEW p \in Producers, Attach(p)
      PROVE  NoEntryStranded'
  <2>1. Len(list') = Len(list) + 1
    BY <1>0, <1>2 DEF Attach, Attached
  <2>2. Cardinality(Posting') = Cardinality(Posting) + 1
    BY <1>0, <1>2, PostingOfProducer
  <2>. QED  BY <1>0, <1>2, <2>1, <2>2 DEF Attach, NoEntryStranded, Pulling
<1>3. ASSUME NEW p \in Producers, Post(p)
      PROVE  NoEntryStranded'
  <2>1. Cardinality(Posting') = Cardinality(Posting) - 1
    BY <1>0, <1>3, PostingOfProducer
  <2>. QED  BY <1>0, <1>3, <2>1 DEF Post, NoEntryStranded, Pulling
<1>4. CASE SemWait
  BY <1>0, <1>4, PostingOfOthers DEF SemWait, NoEntryStranded, Pulling
<1>5. CASE SemInterrupted
  BY <1>0, <1>5, PostingOfOthers DEF SemInterrupted, NoEntryStranded, Pulling
<1>6. CASE ConsumerLock
  BY <1>0, <1>6, PostingOfOthers DEF ConsumerLock, NoEntryStranded, Pulling
<1>7. CASE Take
  <2>1. Len(list') = Len(list) - 1
    BY <1>0, <1>7, HeadTailProperties DEF Take
  <2>. QED  BY <1>0, <1>7, <2>1, PostingOfOthers DEF Take, NoEntryStranded, Pulling
<1>8. CASE TakeNothing
  BY <1>0, <1>8, PostingOfOthers DEF TakeNothing, NoEntryStranded, Pulling
<1>9. CASE ConsumerUnlock
  BY <1>0, <1>9, PostingOfOthers DEF ConsumerUnlock, NoEntryStranded, Pulling
<1>10. CASE UNCHANGED vars
  BY <1>0, <1>10, PostingOfOthers DEF vars, NoEntryStranded, Pulling
<1>. QED  BY <1>1, <1>2, <1>3, <1>4, <1>5, <1>6, <1>7, <1>8, <1>9, <1>10
          DEF Next, Push, Pull

\* With or without signals, whatever a pull does on an empty list: an entry in
\* the list always has a wake-up that is due, posted or under way.
THEOREM NothingIsStranded == Spec => []NoEntryStranded
<1>1. Init => NoEntryStranded
  <2>. SUFFICES ASSUME Init
                PROVE  NoEntryStranded
    OBVIOUS
  <2>1. Len(list) = 0 /\ sem = 0 /\ Pulling = 0
    BY DEF Init, Pulling
  <2>. QED  BY <2>1, PostingIsFinite DEF NoEntryStranded
<1>. QED  BY <1>1, TypeCorrect, StrandedNext, PTL DEF Spec

-----------------------------------------------------------------------------
(* No pull finds its list empty *)

PromiseInv == SemAtMostEntries /\ NeverBroken

\* A queue stays what it is.
LEMMA QueueIsFixed == [Next]_vars => UNCHANGED queue
BY DEF Next, Push, Pull, Lock, Attach, Unlock, Post, SemWait, SemInterrupted,
       ConsumerLock, Take, TakeNothing, ConsumerUnlock, vars

LEMMA PromiseNext == TypeOK /\ PromiseInv /\ [Next]_vars => PromiseInv'
<1>. SUFFICES ASSUME TypeOK, PromiseInv, [Next]_vars, ~queue.interruptible
              PROVE  PromiseInv'
  BY QueueIsFixed DEF PromiseInv, SemAtMostEntries, NeverBroken
<1>0. /\ list \in Seq(Item) /\ Len(list) \in Nat /\ sem \in Nat
      /\ Cardinality(Posting) \in Nat
      /\ sem + Cardinality(Posting) + Pulling <= Len(list)
      /\ cpc # "broken"
  BY PostingIsFinite, LenProperties
     DEF TypeOK, PromiseInv, SemAtMostEntries, NeverBroken
<1>. USE DEF PromiseInv, SemAtMostEntries, NeverBroken
<1>1. ASSUME NEW p \in Producers, Lock(p) \/ Unlock(p)
      PROVE  PromiseInv'
  BY <1>0, <1>1, PostingOfProducer DEF Lock, Unlock, Pulling
<1>2. ASSUME NEW p \in Producers, Attach(p)
      PROVE  PromiseInv'
  <2>1. Len(list') = Len(list) + 1
    BY <1>0, <1>2 DEF Attach, Attached
  <2>2. Cardinality(Posting') = Cardinality(Posting) + 1
    BY <1>0, <1>2, PostingOfProducer
  <2>. QED  BY <1>0, <1>2, <2>1, <2>2 DEF Attach, Pulling
<1>3. ASSUME NEW p \in Producers, Post(p)
      PROVE  PromiseInv'
  <2>1. Cardinality(Posting') = Cardinality(Posting) - 1
    BY <1>0, <1>3, PostingOfProducer
  <2>. QED  BY <1>0, <1>3, <2>1 DEF Post, Pulling
<1>4. CASE SemWait
  BY <1>0, <1>4, PostingOfOthers DEF SemWait, Pulling
<1>5. CASE SemInterrupted
  BY <1>5 DEF SemInterrupted
<1>6. CASE ConsumerLock
  BY <1>0, <1>6, PostingOfOthers DEF ConsumerLock, Pulling
<1>7. CASE Take
  <2>1. Len(list') = Len(list) - 1
    BY <1>0, <1>7, HeadTailProperties DEF Take
  <2>. QED  BY <1>0, <1>7, <2>1, PostingOfOthers DEF Take, Pulling
<1>8. CASE TakeNothing
  <2>1. Pulling = 1 /\ Len(list) = 0
    BY <1>8 DEF TakeNothing, Pulling
  <2>. QED  BY <1>0, <2>1
<1>9. CASE ConsumerUnlock
  BY <1>0, <1>9, PostingOfOthers DEF ConsumerUnlock, Pulling
<1>10. CASE UNCHANGED vars
  BY <1>0, <1>10, PostingOfOthers DEF vars, Pulling
<1>. QED  BY <1>1, <1>2, <1>3, <1>4, <1>5, <1>6, <1>7, <1>8, <1>9, <1>10
          DEF Next, Push, Pull

LEMMA PromiseKept == Spec => []PromiseInv
<1>1. Init => PromiseInv
  <2>. SUFFICES ASSUME Init
                PROVE  PromiseInv
    OBVIOUS
  <2>1. Posting = {}
    BY DEF Init, Posting
  <2>2. Len(list) = 0 /\ sem = 0 /\ Pulling = 0 /\ cpc # "broken"
    BY DEF Init, Pulling
  <2>. QED  BY <2>1, <2>2, FS_EmptySet DEF PromiseInv, SemAtMostEntries, NeverBroken
<1>. QED  BY <1>1, TypeCorrect, PromiseNext, PTL DEF Spec

\* Without signal handlers, the semaphore never counts more than the list holds.
THEOREM SemaphoreIsHonest == Spec => []SemAtMostEntries
<1>1. PromiseInv => SemAtMostEntries
  BY DEF PromiseInv
<1>. QED  BY <1>1, PromiseKept, PTL

\* Without signal handlers, no pull returns garbage and none keeps the mutex.
THEOREM PullNeverBreaks == Spec => []NeverBroken
<1>1. PromiseInv => NeverBroken
  BY DEF PromiseInv
<1>. QED  BY <1>1, PromiseKept, PTL

-----------------------------------------------------------------------------
(* No entry is lost, repeated or overtaken *)

\* Attaching an entry puts it last, ...
LEMMA HandedAfterAttach ==
    ASSUME TypeInv, NEW p \in Producers, Attach(p)
    PROVE  /\ Len(Handed) \in Nat /\ DOMAIN Handed = 1..Len(Handed)
           /\ DOMAIN Handed' = 1..(Len(Handed) + 1)
           /\ \A k \in 1..Len(Handed) : Handed'[k] = Handed[k] /\ Handed[k] \in Item
           /\ Handed'[Len(Handed) + 1] = <<p, pushed[p] + 1>>
<1>1. taken \in Seq(Item) /\ list \in Seq(Item) /\ list' \in Seq(Item)
  BY TypeNext DEF TypeInv, TypeOK, Next, Push
<1>2. taken' = taken /\ list' = Append(list, <<p, pushed[p] + 1>>)
  BY DEF Attach, Attached
<1>3. /\ Len(taken) \in Nat /\ Len(list) \in Nat
      /\ Len(list') = Len(list) + 1
      /\ \A k \in 1..Len(list) : list'[k] = list[k]
      /\ list'[Len(list) + 1] = <<p, pushed[p] + 1>>
  BY <1>1, <1>2, LenProperties
<1>4. /\ Handed \in Seq(Item) /\ Len(Handed) = Len(taken) + Len(list)
      /\ \A k \in 1..(Len(taken) + Len(list)) :
            Handed[k] = IF k <= Len(taken) THEN taken[k] ELSE list[k - Len(taken)]
  BY <1>1, ConcatProperties DEF Handed
<1>5. /\ Handed' \in Seq(Item) /\ Len(Handed') = Len(taken) + Len(list) + 1
      /\ \A k \in 1..(Len(taken) + Len(list) + 1) :
            Handed'[k] = IF k <= Len(taken) THEN taken[k] ELSE list'[k - Len(taken)]
  BY <1>1, <1>2, <1>3, ConcatProperties DEF Handed
<1>6. DOMAIN Handed = 1..Len(Handed) /\ DOMAIN Handed' = 1..(Len(Handed) + 1)
  BY <1>3, <1>4, <1>5, LenProperties
<1>7. ASSUME NEW k \in 1..Len(Handed)
      PROVE  Handed'[k] = Handed[k] /\ Handed[k] \in Item
  <2>1. Handed[k] \in Item
    BY <1>4
  <2>2. CASE k <= Len(taken)
    BY <1>3, <1>4, <1>5, <2>2
  <2>3. CASE k > Len(taken)
    <3>1. k - Len(taken) \in 1..Len(list)
      BY <1>3, <1>4, <2>3
    <3>. QED  BY <1>3, <1>4, <1>5, <2>1, <2>3, <3>1
  <2>. QED  BY <1>3, <2>1, <2>2, <2>3
<1>8. Handed'[Len(Handed) + 1] = <<p, pushed[p] + 1>>
  BY <1>3, <1>4, <1>5
<1>. QED  BY <1>3, <1>4, <1>6, <1>7, <1>8

\* ... and pulling one only moves the line between what is pulled and what is not.
LEMMA HandedAfterTake ==
    ASSUME TypeOK, Take
    PROVE  Handed' = Handed
<1>1. taken \in Seq(Item) /\ list \in Seq(Item) /\ list # <<>>
  BY DEF TypeOK, Take
<1>2. taken' = Append(taken, Head(list)) /\ list' = Tail(list)
  BY DEF Take
<1>3. taken' \o list' = taken \o list
  BY <1>1, <1>2
<1>. QED  BY <1>3 DEF Handed

LEMMA InOrderNext == TypeInv /\ InOrder /\ [Next]_vars => InOrder'
<1>. SUFFICES ASSUME TypeInv, InOrder, [Next]_vars
              PROVE  InOrder'
  OBVIOUS
<1>1. ASSUME Handed' = Handed, UNCHANGED pushed
      PROVE  InOrder'
  BY <1>1 DEF InOrder
<1>2. ASSUME NEW p \in Producers, Attach(p)
      PROVE  InOrder'
  <2>. DEFINE last == Len(Handed) + 1
  <2>1. /\ Len(Handed) \in Nat /\ DOMAIN Handed = 1..Len(Handed)
        /\ DOMAIN Handed' = 1..last
        /\ \A k \in 1..Len(Handed) : Handed'[k] = Handed[k] /\ Handed[k] \in Item
        /\ Handed'[last] = <<p, pushed[p] + 1>>
    BY <1>2, HandedAfterAttach
  <2>2. /\ pushed \in [Producers -> 0..MaxItems]
        /\ pushed' = [pushed EXCEPT ![p] = @ + 1]
    BY <1>2 DEF Attach, TypeInv, TypeOK
  <2>3. \A k \in 1..Len(Handed) : Handed[k][1] \in Producers /\ Handed[k][2] \in Nat
    BY <2>1, MaxItemsAssumption DEF Item
  <2>. HIDE DEF last
  <2>4. last \in 1..last /\ last = Len(Handed) + 1
    BY <2>1 DEF last
  <2>5. ASSUME NEW q \in Producers, NEW n \in 1..pushed'[q]
        PROVE  \E k \in DOMAIN Handed' : Handed'[k] = <<q, n>>
    <3>1. CASE q = p /\ n = pushed[p] + 1
      BY <2>1, <2>4, <3>1
    <3>2. CASE ~(q = p /\ n = pushed[p] + 1)
      <4>1. n \in 1..pushed[q]
        BY <2>2, <2>5, <3>2, MaxItemsAssumption
      <4>2. PICK k \in DOMAIN Handed : Handed[k] = <<q, n>>
        BY <4>1 DEF InOrder
      <4>3. k \in DOMAIN Handed' /\ Handed'[k] = <<q, n>>
        BY <2>1, <2>4, <4>2
      <4>. QED  BY <4>3
    <3>. QED  BY <3>1, <3>2
  <2>6. ASSUME NEW q \in Producers, NEW k \in DOMAIN Handed', Handed'[k][1] = q
        PROVE  Handed'[k][2] <= pushed'[q]
    <3>1. CASE k = last
      BY <2>1, <2>2, <2>6, <3>1, MaxItemsAssumption
    <3>2. CASE k # last
      <4>1. k \in DOMAIN Handed /\ Handed'[k] = Handed[k]
        BY <2>1, <2>4, <2>6, <3>2
      <4>2. Handed[k][2] <= pushed[q] /\ Handed[k][2] \in Nat
        BY <2>1, <2>3, <2>6, <4>1 DEF InOrder
      <4>. QED  BY <2>2, <4>1, <4>2, MaxItemsAssumption
    <3>. QED  BY <3>1, <3>2
  <2>7. ASSUME NEW q \in Producers, NEW j \in DOMAIN Handed', NEW k \in DOMAIN Handed',
               j < k, Handed'[j][1] = q, Handed'[k][1] = q
        PROVE  Handed'[j][2] < Handed'[k][2]
    <3>1. j \in DOMAIN Handed /\ Handed'[j] = Handed[j]
      BY <2>1, <2>4, <2>7
    <3>2. CASE k = last
      <4>1. q = p /\ Handed'[k][2] = pushed[p] + 1
        BY <2>1, <2>7, <3>2
      <4>2. Handed[j][2] <= pushed[q] /\ Handed[j][2] \in Nat
        BY <2>1, <2>3, <2>7, <3>1 DEF InOrder
      <4>. QED  BY <2>2, <3>1, <4>1, <4>2, MaxItemsAssumption
    <3>3. CASE k # last
      <4>1. k \in DOMAIN Handed /\ Handed'[k] = Handed[k]
        BY <2>1, <2>4, <2>7, <3>3
      <4>. QED  BY <2>7, <3>1, <4>1 DEF InOrder
    <3>. QED  BY <3>2, <3>3
  <2>. QED  BY <2>5, <2>6, <2>7 DEF InOrder
<1>3. CASE Take
  BY <1>1, <1>3, HandedAfterTake DEF Take, TypeInv
<1>4. ASSUME UNCHANGED <<taken, list, pushed>>
      PROVE  InOrder'
  BY <1>1, <1>4 DEF Handed
<1>5. ASSUME NEW p \in Producers, Lock(p) \/ Unlock(p) \/ Post(p)
      PROVE  InOrder'
  BY <1>4, <1>5 DEF Lock, Unlock, Post
<1>6. CASE SemWait \/ SemInterrupted \/ ConsumerLock \/ TakeNothing \/ ConsumerUnlock
  BY <1>4, <1>6 DEF SemWait, SemInterrupted, ConsumerLock, TakeNothing, ConsumerUnlock
<1>7. CASE UNCHANGED vars
  BY <1>4, <1>7 DEF vars
<1>. QED  BY <1>2, <1>3, <1>5, <1>6, <1>7 DEF Next, Push, Pull

\* However many threads push, and whatever interrupts the one that pulls: it
\* takes all that each of them pushed, once and in its order.
THEOREM NothingIsLostOrOvertaken == Spec => []InOrder
<1>1. Init => InOrder
  <2>. SUFFICES ASSUME Init
                PROVE  InOrder
    OBVIOUS
  <2>1. DOMAIN Handed = {} /\ \A p \in Producers : pushed[p] = 0
    BY DEF Init, Handed
  <2>. QED  BY <2>1 DEF InOrder
<1>. QED  BY <1>1, TypeInit, TypeNext, InOrderNext, PTL DEF Spec

=============================================================================
