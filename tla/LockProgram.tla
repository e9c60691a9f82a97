---------------------------- MODULE LockProgram ----------------------------
(***************************************************************************)
(* Threads that lock mutexes, unlock them and touch shared data, each one  *)
(* in the order of its own program. A thread works in turns: it waits, in  *)
(* sem_wait, recvfrom or a sleep, with nothing locked, then goes through   *)
(* one of its turns and waits again. DaemonLocks holds the turns of the    *)
(* daemon's threads.                                                       *)
(*                                                                         *)
(* A mutex is a default pthread mutex: locking it twice blocks for ever.   *)
(***************************************************************************)
EXTENDS Integers, Sequences

CONSTANTS
    Threads,
    Mutexes,
    NoOne,       \* the owner of a mutex that nobody has locked
    Data,        \* what the threads share
    Guard,       \* the mutex that each piece of data is touched under
    Rank,        \* the order in which mutexes are nested
    MaxRank,
    Turns        \* the turns that each thread may take: sequences of operations

ASSUME LockAssumption ==
    /\ NoOne \notin Threads
    /\ Guard \in [Data -> Mutexes]
    /\ MaxRank \in Nat
    /\ Rank \in [Mutexes -> 0..MaxRank]
    /\ \A m, n \in Mutexes : Rank[m] = Rank[n] => m = n

VARIABLES
    turn,     \* the turn that a thread is in, empty while it waits for one
    at,       \* the next operation of the turn
    owner     \* who has locked a mutex

vars == <<turn, at, owner>>

Lock(m) == [op |-> "lock", on |-> m]
Unlock(m) == [op |-> "unlock", on |-> m]
Touch(d) == [op |-> "touch", on |-> d]

\* The operations in body, between the locking and the unlocking of m.
Under(m, body) == <<Lock(m)>> \o body \o <<Unlock(m)>>

Operation == [op : {"lock", "unlock"}, on : Mutexes] \cup [op : {"touch"}, on : Data]

Waiting == <<>>

Init == /\ turn = [t \in Threads |-> Waiting]
        /\ at = [t \in Threads |-> 1]
        /\ owner = [m \in Mutexes |-> NoOne]

Busy(t) == turn[t] # Waiting
NextOperation(t) == turn[t][at[t]]
IsNext(t, o) == Busy(t) /\ NextOperation(t) = o

\* The event arrives that t has waited for.
Begin(t) ==
    /\ ~Busy(t)
    /\ \E p \in Turns[t] : turn' = [turn EXCEPT ![t] = p]
    /\ at' = [at EXCEPT ![t] = 1]
    /\ UNCHANGED owner

\* t is done with an operation; after the last one it waits again.
Advance(t) ==
    IF at[t] = Len(turn[t])
    THEN /\ turn' = [turn EXCEPT ![t] = Waiting]
         /\ at' = [at EXCEPT ![t] = 1]
    ELSE /\ at' = [at EXCEPT ![t] = @ + 1]
         /\ UNCHANGED turn

DoLock(t) ==
    \E m \in Mutexes : /\ IsNext(t, Lock(m))
                       /\ owner[m] = NoOne
                       /\ owner' = [owner EXCEPT ![m] = t]
                       /\ Advance(t)

DoUnlock(t) ==
    \E m \in Mutexes : /\ IsNext(t, Unlock(m))
                       /\ owner' = [owner EXCEPT ![m] = NoOne]
                       /\ Advance(t)

DoTouch(t) ==
    \E d \in Data : /\ IsNext(t, Touch(d))
                    /\ UNCHANGED owner
                    /\ Advance(t)

Next == \E t \in Threads : Begin(t) \/ DoLock(t) \/ DoUnlock(t) \/ DoTouch(t)

Spec == Init /\ [][Next]_vars

-----------------------------------------------------------------------------
TypeOK ==
    /\ turn \in [Threads -> Seq(Operation)]
    /\ at \in [Threads -> Nat \ {0}]
    /\ \A t \in Threads : Busy(t) => at[t] \in 1..Len(turn[t])
    /\ owner \in [Mutexes -> Threads \cup {NoOne}]

\* No two threads are about to touch the same data at the same time.
RaceFree ==
    \A t, u \in Threads : \A d \in Data :
        IsNext(t, Touch(d)) /\ IsNext(u, Touch(d)) => t = u

\* t waits for a mutex that u has locked.
WaitsFor(t, u) == \E m \in Mutexes : IsNext(t, Lock(m)) /\ owner[m] = u

Blocked == {t \in Threads : \E u \in Threads : WaitsFor(t, u)}

\* No threads wait for each other in a circle, and none for itself.
NoWaitCycle ==
    \A S \in SUBSET Blocked :
        S # {} => \E t \in S : \A u \in S : ~WaitsFor(t, u)

\* Who waits for the next event has left no mutex locked, on whatever path it
\* came to the end of its turn.
NothingLeftLocked ==
    \A t \in Threads : ~Busy(t) => \A m \in Mutexes : owner[m] # t

-----------------------------------------------------------------------------
\* What a turn has locked and not unlocked when its operation k is next.
HeldAt(p, k) ==
    {m \in Mutexes : \E i \in 1..(k - 1) :
                        /\ p[i] = Lock(m)
                        /\ \A j \in (i + 1)..(k - 1) : p[j] # Unlock(m)}

\* A turn that locks mutexes in the order of their ranks, unlocks what it has
\* locked and all of it, and touches data under their guards.
Disciplined(p) ==
    /\ p \in Seq(Operation)
    /\ \A k \in 1..Len(p) :
          /\ \A m \in Mutexes : p[k] = Lock(m) => \A h \in HeldAt(p, k) : Rank[h] < Rank[m]
          /\ \A m \in Mutexes : p[k] = Unlock(m) => m \in HeldAt(p, k)
          /\ \A d \in Data : p[k] = Touch(d) => Guard[d] \in HeldAt(p, k)
    /\ HeldAt(p, Len(p) + 1) = {}

DisciplinedTurns == \A t \in Threads : \A p \in Turns[t] : Disciplined(p)

=============================================================================
