----------------------------- MODULE WorkQueue -----------------------------
(***************************************************************************)
(* The hand-over between two threads that easyipc uses four times: a dlist *)
(* under a mutex, and a semaphore that counts its entries.                 *)
(*                                                                         *)
(*   recv_alist, recv_mlist        the daemon's socket thread to its       *)
(*                                 api and message threads                 *)
(*   api_recv_list, msg_recv_list  a client's socket threads to the        *)
(*                                 threads that call handlers              *)
(*                                                                         *)
(* A push attaches under the mutex and posts the semaphore afterwards; a   *)
(* pull waits for the semaphore, ignoring what sem_wait returns, and takes *)
(* the first entry under the mutex. The four pulls differ in what they do  *)
(* when they find the list empty.                                          *)
(***************************************************************************)
EXTENDS Integers, Sequences, FiniteSets

CONSTANTS
    Producers,       \* threads that push
    Free,            \* value of "mutex" when nobody holds it
    Consumer,        \* the thread that pulls
    MaxItems         \* bound on the pushes of each producer

ASSUME ThreadsAssumption == /\ Free \notin Producers \cup {Consumer}
                            /\ Consumer \notin Producers
                            /\ IsFiniteSet(Producers)
ASSUME MaxItemsAssumption == MaxItems \in Nat

VARIABLES
    queue,    \* which of the queues it is
    list,     \* the dlist
    sem,      \* the semaphore
    mutex,    \* its holder
    pc,       \* what each producer does next in its push
    cpc,      \* what the consumer does next in its pull
    pushed,   \* history: how many entries each producer has attached
    taken     \* history: the entries pulled, in order

vars == <<queue, list, sem, mutex, pc, cpc, pushed, taken>>

\* What a pull does when the list is empty, and whether the process has signal
\* handlers, which may interrupt sem_wait.
\*   "garbage": it returns an uninitialised pointer  (both pulls of the daemon)
\*   "locked":  it starts over without unlocking     (ipc_api_recv_probe)
\*   "retry":   it unlocks and starts over           (ipc_msg_recv_probe)
Queues == [on_empty : {"garbage", "locked", "retry"}, interruptible : BOOLEAN]

Item == Producers \X (1..MaxItems)

Init == /\ queue \in Queues
        /\ list = <<>>
        /\ sem = 0
        /\ mutex = Free
        /\ pc = [p \in Producers |-> "lock"]
        /\ cpc = "wait"
        /\ pushed = [p \in Producers |-> 0]
        /\ taken = <<>>

-----------------------------------------------------------------------------
\* Names with an underscore are mutants: a plausible slip in the definition that
\* follows them, which some property has to notice.

Lock(p) == /\ pc[p] = "lock"
           /\ pushed[p] < MaxItems
           /\ mutex = Free
           /\ mutex' = p
           /\ pc' = [pc EXCEPT ![p] = "attach"]
           /\ UNCHANGED <<queue, list, sem, cpc, pushed, taken>>

Attached_First(x) == <<x>> \o list

\* dlist_attach
Attached(x) == Append(list, x)

Attach(p) == /\ pc[p] = "attach"
             /\ pushed' = [pushed EXCEPT ![p] = @ + 1]
             /\ list' = Attached(<<p, pushed[p] + 1>>)
             /\ pc' = [pc EXCEPT ![p] = "unlock"]
             /\ UNCHANGED <<queue, sem, mutex, cpc, taken>>

Unlock(p) == /\ pc[p] = "unlock"
             /\ mutex' = Free
             /\ pc' = [pc EXCEPT ![p] = "post"]
             /\ UNCHANGED <<queue, list, sem, cpc, pushed, taken>>

Post_Lost(p) == /\ pc[p] = "post"
                /\ sem' = 1
                /\ pc' = [pc EXCEPT ![p] = "lock"]
                /\ UNCHANGED <<queue, list, mutex, cpc, pushed, taken>>

Post_Twice(p) == /\ pc[p] = "post"
                 /\ sem' = sem + 2
                 /\ pc' = [pc EXCEPT ![p] = "lock"]
                 /\ UNCHANGED <<queue, list, mutex, cpc, pushed, taken>>

Post(p) == /\ pc[p] = "post"
           /\ sem' = sem + 1
           /\ pc' = [pc EXCEPT ![p] = "lock"]
           /\ UNCHANGED <<queue, list, mutex, cpc, pushed, taken>>

-----------------------------------------------------------------------------
SemWait_NoWait == /\ cpc = "wait"
                  /\ sem' = sem - 1
                  /\ cpc' = "lock"
                  /\ UNCHANGED <<queue, list, mutex, pc, pushed, taken>>

\* sem_wait returns because it has decremented the semaphore.
SemWait == /\ cpc = "wait"
           /\ sem > 0
           /\ sem' = sem - 1
           /\ cpc' = "lock"
           /\ UNCHANGED <<queue, list, mutex, pc, pushed, taken>>

\* sem_wait returns -1 with EINTR, and nobody looks at it.
SemInterrupted == /\ queue.interruptible
                  /\ cpc = "wait"
                  /\ sem = 0
                  /\ cpc' = "lock"
                  /\ UNCHANGED <<queue, list, sem, mutex, pc, pushed, taken>>

ConsumerLock == /\ cpc = "lock"
                /\ mutex = Free
                /\ mutex' = Consumer
                /\ cpc' = "take"
                /\ UNCHANGED <<queue, list, sem, pc, pushed, taken>>

Take == /\ cpc = "take"
        /\ list # <<>>
        /\ taken' = Append(taken, Head(list))
        /\ list' = Tail(list)
        /\ cpc' = "unlock"
        /\ UNCHANGED <<queue, sem, mutex, pc, pushed>>

\* The list is empty. After "garbage" the caller uses a pointer that was never
\* set; after "locked" the thread waits for a mutex that it holds itself.
TakeNothing == /\ cpc = "take"
               /\ list = <<>>
               /\ cpc' = IF queue.on_empty = "retry" THEN "unlock" ELSE "broken"
               /\ UNCHANGED <<queue, list, sem, mutex, pc, pushed, taken>>

ConsumerUnlock == /\ cpc = "unlock"
                  /\ mutex' = Free
                  /\ cpc' = "wait"
                  /\ UNCHANGED <<queue, list, sem, pc, pushed, taken>>

-----------------------------------------------------------------------------
Push(p) == Lock(p) \/ Attach(p) \/ Unlock(p) \/ Post(p)

Pull == SemWait \/ SemInterrupted \/ ConsumerLock \/ Take \/ TakeNothing \/ ConsumerUnlock

Next == (\E p \in Producers : Push(p)) \/ Pull

Spec == Init /\ [][Next]_vars

\* A push that has begun is completed, the consumer runs, and the mutex is given
\* to the consumer some time while producers keep taking it.
Fairness == /\ \A p \in Producers : WF_vars(Attach(p) \/ Unlock(p) \/ Post(p))
            /\ WF_vars(SemWait \/ Take \/ TakeNothing \/ ConsumerUnlock)
            /\ SF_vars(ConsumerLock)

FairSpec == Spec /\ Fairness

-----------------------------------------------------------------------------
\* Every variable keeps its type.
TypeOK == /\ queue \in Queues
          /\ list \in Seq(Item)
          /\ sem \in Nat
          /\ mutex \in Producers \cup {Free, Consumer}
          /\ pc \in [Producers -> {"lock", "attach", "unlock", "post"}]
          /\ cpc \in {"wait", "lock", "take", "unlock", "broken"}
          /\ pushed \in [Producers -> 0..MaxItems]
          /\ taken \in Seq(Item)

\* Producers that have attached and not posted yet.
Posting == {p \in Producers : pc[p] \in {"unlock", "post"}}

\* 1 while the consumer has passed sem_wait and not taken its entry.
Pulling == IF cpc \in {"lock", "take"} THEN 1 ELSE 0

\* Without signals the semaphore never promises more than the list holds, ...
SemAtMostEntries ==
    ~queue.interruptible => sem + Cardinality(Posting) + Pulling <= Len(list)

\* ... so that no pull ever finds the list empty: the paths that return an
\* uninitialised pointer or keep the mutex are dead.
NeverBroken == ~queue.interruptible => cpc # "broken"

\* No entry is stranded: for each in the list, the consumer is at work, is
\* going to be woken, or a producer has yet to post.
NoEntryStranded == Len(list) <= sem + Cardinality(Posting) + Pulling

\* What the consumer has pulled and is to pull next.
Handed == taken \o list

\* Of what producer p has pushed none is lost, repeated or overtaken by what it
\* pushed later, also when signals interrupt sem_wait.
InOrder ==
    \A p \in Producers :
        /\ \A n \in 1..pushed[p] : \E k \in DOMAIN Handed : Handed[k] = <<p, n>>
        /\ \A k \in DOMAIN Handed : Handed[k][1] = p => Handed[k][2] <= pushed[p]
        /\ \A j, k \in DOMAIN Handed :
              j < k /\ Handed[j][1] = p /\ Handed[k][1] = p => Handed[j][2] < Handed[k][2]

\* The thread survives: there are no signals, or its pull retries.
Robust == queue.interruptible => queue.on_empty = "retry"

\* What is pushed is pulled.
EveryEntryIsPulled ==
    \A p \in Producers, n \in 1..MaxItems :
        Robust /\ pushed[p] >= n ~> \E k \in DOMAIN taken : taken[k] = <<p, n>>

=============================================================================
