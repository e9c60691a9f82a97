------------------------------ MODULE Timespec ------------------------------
(***************************************************************************)
(* The arithmetic on struct timespec and struct timeval, and the two uses  *)
(* that depend on it: the pause that ipc_data_to_daemon keeps between two  *)
(* datagrams, and the deadline of ipc_creat. The functions are pure;       *)
(* DataLemmas proves them correct for all times. tv_sec and tv_nsec are    *)
(* longs, wide enough for every sum here.                                  *)
(***************************************************************************)
EXTENDS Integers

Billion == 1000000000
Million == 1000000
Word == 4294967296    \* 2^32

\* Times as clock_gettime and gettimeofday return them.
Below(n) == {k \in Nat : k < n}
Times == [tv_sec : Int, tv_nsec : Below(Billion)]
Timevals == [tv_sec : Int, tv_usec : Below(Million)]

\* What they stand for: nanoseconds and microseconds.
Nanoseconds(t) == t.tv_sec * Billion + t.tv_nsec
Microseconds(a) == a.tv_sec * Million + a.tv_usec

-----------------------------------------------------------------------------
timespec_diff(start, end) ==
    IF end.tv_nsec - start.tv_nsec < 0
    THEN [tv_sec |-> end.tv_sec - start.tv_sec - 1,
          tv_nsec |-> Billion + end.tv_nsec - start.tv_nsec]
    ELSE [tv_sec |-> end.tv_sec - start.tv_sec,
          tv_nsec |-> end.tv_nsec - start.tv_nsec]

timespec_sum(src, dest) ==
    LET sec == src.tv_sec + dest.tv_sec
        nsec == src.tv_nsec + dest.tv_nsec
    IN  IF nsec >= Billion THEN [tv_sec |-> sec + 1, tv_nsec |-> nsec - Billion]
        ELSE [tv_sec |-> sec, tv_nsec |-> nsec]

\* ms is an unsigned int, and so is ms * 1000.
timeraddMS(a, ms) ==
    LET usec == a.tv_usec + ((ms * 1000) % Word)
    IN  IF usec >= Million
        THEN [tv_sec |-> a.tv_sec + (usec \div Million), tv_usec |-> usec % Million]
        ELSE [tv_sec |-> a.tv_sec, tv_usec |-> usec]

\* ipc_data_to_daemon waits some more: the last datagram left at save_ptime.
TooEarly(save_ptime, nowtime) ==
    LET difftime == timespec_diff(save_ptime, nowtime)
    IN  difftime.tv_sec < 1 /\ difftime.tv_nsec < 50 * 1000

\* The deadline of ipc_creat for the answer to a JOIN, for sem_timedwait.
OutTime(now) ==
    LET a == timeraddMS(now, 2000)
    IN  [tv_sec |-> a.tv_sec, tv_nsec |-> a.tv_usec * 1000]

=============================================================================
