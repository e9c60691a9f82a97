------------------------------ MODULE DebugLog ------------------------------
(***************************************************************************)
(* The log of the daemon (easyipc_debug.c) and its reader, ipcd_misc_cat.  *)
(* The option -t chooses where records go:                                 *)
(*                                                                         *)
(*   debug_log_size < 0    nowhere                                         *)
(*   debug_log_size = 0    to a file, which is created anew when a write   *)
(*                         fails                                           *)
(*   debug_log_size > 0    to a list in memory                             *)
(*                                                                         *)
(* Any thread of the daemon logs, one at a time (debug_print_mutex), and   *)
(* each of them with mlist_mutex held. The control thread reads the log    *)
(* for "eipccat" record by record, and takes debug_save_mutex for each one *)
(* anew; only mlist_mutex, which it keeps from the request to the end,     *)
(* makes the pass a snapshot.                                              *)
(*                                                                         *)
(* Records are numbered in the order of the calls that log them. Their     *)
(* text, and which of them the reader prints, is left out.                 *)
(***************************************************************************)
EXTENDS DList, SequencesExt

CONSTANTS
    LogSizes,     \* values of the option -t
    MaxPrints,    \* bound on the records
    MaxPasses     \* bound on the requests of eipccat

\* NULL is no record and no list.
ASSUME LogAssumption == /\ LogSizes \subseteq Int
                        /\ MaxPrints \in Nat
                        /\ MaxPasses \in Nat
                        /\ NULL \notin 1..MaxPrints
                        /\ ~IsList(NULL, 1..MaxPrints)

VARIABLES
    debug_log_size,   \* set once by main
    log_list,         \* the list in memory, NULL until the first record
    log_size,         \* the number of its entries, counted apart
    index,            \* the static cursor of ipcd_debug_log_memory_pull
    out,              \* the files, log_fp and whether the path exists
    cat,              \* the locals of ipcd_misc_cat
    printed,          \* history: how many records were logged
    passes            \* history: how many requests of eipccat came

logVars == <<debug_log_size, log_list, log_size, index, out, cat, printed, passes>>

Start == 0                  \* the line "Daemon start..."
Line == Start..MaxPrints    \* a line of the log, records from 1 on
NoFile == -1                \* log_fp after open has failed

\* The locals of ipcd_misc_cat between two requests. reading says that the
\* control thread holds mlist_mutex for a pass; got is history: what the pass
\* has read.
NotReading == [reading |-> FALSE, file |-> 0, pos |-> 0, got |-> <<>>]

-----------------------------------------------------------------------------
\* Names with an underscore are mutants: a plausible slip in the definition that
\* follows them, which some property has to notice.

\* Files keep their lines after rm while somebody has them open: the last one
\* is the one that log_fp refers to, when it refers to any. log_fp is the
\* position of the next line. ok says whether write succeeds.
Write(o, line, ok) ==
    IF ok /\ o.log_fp # NoFile
    THEN [o EXCEPT !.files[Len(o.files)] =
                       IF o.log_fp < Len(@) THEN ReplaceAt(@, o.log_fp + 1, line)
                                            ELSE Append(@, line),
                   !.log_fp = @ + 1]
    ELSE o

CreateLogfile_Kept(o, opens, ok) ==
    IF ~opens THEN [o EXCEPT !.log_fp = NoFile]
    ELSE Write([o EXCEPT !.log_fp = 0, !.path = TRUE], Start, ok)

\* ipcd_debug_creat_logfile: rm, then open without O_TRUNC and O_APPEND.
CreateLogfile(o, opens, ok) ==
    IF opens
    THEN Write([files |-> Append(o.files, <<>>), log_fp |-> 0, path |-> TRUE], Start, ok)
    ELSE [o EXCEPT !.log_fp = NoFile, !.path = FALSE]

LogInit == /\ debug_log_size \in LogSizes
           /\ log_list = NULL
           /\ log_size = 0
           /\ index = 0
           /\ \E opens, ok \in BOOLEAN :
                  out = CreateLogfile([files |-> <<<<>>>>, log_fp |-> NoFile, path |-> FALSE],
                                      opens, ok)
           /\ cat = NotReading
           /\ printed = 0
           /\ passes = 0

-----------------------------------------------------------------------------
PushedOut_TooLate(l) ==
    IF log_size > debug_log_size + 1
    THEN [list |-> dlist_delete(l, 0), deleted |-> 1]
    ELSE [list |-> l, deleted |-> 0]

\* The oldest goes when the list is already longer than debug_log_size.
PushedOut(l) ==
    IF log_size > debug_log_size
    THEN [list |-> dlist_delete(l, 0), deleted |-> 1]
    ELSE [list |-> l, deleted |-> 0]

\* ipcd_debug_log_memory_push
PrintToMemory ==
    /\ debug_log_size > 0
    /\ LET old == PushedOut(IF log_list = NULL THEN dlist_create ELSE log_list)
       IN  /\ \E n \in Cells \ Nodes(old.list) :
                  log_list' = dlist_attach(old.list, n, printed + 1)
           /\ log_size' = log_size - old.deleted + 1
    /\ UNCHANGED <<index, out, cat>>

\* The record and the line end are written apart, and only the result of the
\* second write is looked at. When it failed the file is removed, with all it
\* holds, and the record is written to a new one.
PrintToFile ==
    /\ debug_log_size = 0
    /\ \E record_ok, end_ok, opens, start_ok, retry_ok \in BOOLEAN :
          LET first == Write(out, printed + 1, record_ok)
          IN  out' = IF end_ok /\ out.log_fp # NoFile THEN first
                     ELSE Write(CreateLogfile(first, opens, start_ok), printed + 1, retry_ok)
    /\ UNCHANGED <<log_list, log_size, index, cat>>

PrintNowhere == /\ debug_log_size < 0
                /\ UNCHANGED <<log_list, log_size, index, out, cat>>

MayLog_DuringCat == TRUE

\* Who logs holds mlist_mutex, and the control thread keeps it while it reads.
MayLog == ~cat.reading

\* ipcd_log_save_and_print, in whatever thread
SaveAndPrint ==
    /\ MayLog
    /\ printed < MaxPrints
    /\ printed' = printed + 1
    /\ PrintToMemory \/ PrintToFile \/ PrintNowhere
    /\ UNCHANGED <<debug_log_size, passes>>

-----------------------------------------------------------------------------
\* A request of eipccat reaches the control thread. Without a log file, or
\* without a log, there is nothing to do.
CatBegin == /\ ~cat.reading
            /\ passes < MaxPasses
            /\ passes' = passes + 1
            /\ cat' = IF debug_log_size > 0 \/ (debug_log_size = 0 /\ out.path)
                      THEN [NotReading EXCEPT !.reading = TRUE, !.file = Len(out.files)]
                      ELSE NotReading
            /\ UNCHANGED <<debug_log_size, log_list, log_size, index, out, printed>>

\* fgets returns a line, or the end of the file that was opened.
CatLine == /\ cat.reading
           /\ debug_log_size = 0
           /\ LET lines == out.files[cat.file]
              IN  cat' = IF cat.pos < Len(lines)
                         THEN [cat EXCEPT !.pos = @ + 1, !.got = Append(@, lines[cat.pos + 1])]
                         ELSE NotReading
           /\ UNCHANGED <<debug_log_size, log_list, log_size, index, out, printed, passes>>

\* The node whose record ipcd_debug_log_memory_pull copies, if any.
Pulled == IF index < log_size THEN dlist_get(log_list, index) ELSE NULL

\* A turn of the loop around ipcd_debug_log_memory_pull; the pull that finds
\* nothing more rewinds the cursor.
CatPull == /\ cat.reading
           /\ debug_log_size > 0
           /\ IF Pulled # NULL
              THEN /\ cat' = [cat EXCEPT !.got = Append(@, log_list.data[Pulled])]
                   /\ index' = index + 1
              ELSE /\ cat' = NotReading
                   /\ index' = 0
           /\ UNCHANGED <<debug_log_size, log_list, log_size, out, printed, passes>>

LogNext == SaveAndPrint \/ CatBegin \/ CatLine \/ CatPull

LogSpec == LogInit /\ [][LogNext]_logVars

-----------------------------------------------------------------------------
\* What the list in memory takes at most: one more than the option -t asks for.
MemoryLimit == IF debug_log_size > 0 THEN debug_log_size + 1 ELSE 0

\* Every variable keeps its type, and the list in memory does not grow for ever.
LogTypeOK ==
    /\ debug_log_size \in LogSizes
    /\ log_list = NULL \/ IsList(log_list, 1..MaxPrints)
    /\ log_size \in 0..MemoryLimit
    /\ index \in 0..MemoryLimit
    /\ out \in [files : Seq(Seq(Line)), log_fp : Int, path : BOOLEAN]
    /\ cat \in [reading : BOOLEAN, file : Nat, pos : Nat, got : Seq(Line)]
    /\ printed \in 0..MaxPrints
    /\ passes \in 0..MaxPasses

\* dlist_attach finds the end of the list by prev, dlist_get and dlist_len walk
\* along next: both must see the same nodes after any number of deletions.
ChainsAgree == log_list # NULL => ChainIn(log_list)

\* The latest log_size records.
Latest == [k \in 1..log_size |-> printed - log_size + k]

\* The list holds the latest records, without a gap, in their order, on both
\* chains, and log_size, counted apart, is its length. No record is missing as
\* long as there are no more than debug_log_size, and so many are never missing.
MemoryHoldsLatest ==
    debug_log_size > 0 /\ log_list # NULL =>
        /\ ChainsAgree
        /\ Contents(log_list) = Latest
        /\ log_size = dlist_len(log_list)
        /\ log_size >= IF printed < debug_log_size THEN printed ELSE debug_log_size

\* The option -t n, as README.md:21 and the help text (daemon.c:1663) have it:
\* the list keeps n records. It keeps n + 1.
KeepsAtMostN == debug_log_size > 1 => log_size <= debug_log_size

Increasing(s) == \A j, k \in DOMAIN s : j < k => s[j] < s[k]

\* However often writes fail and the file is created anew, each file holds
\* records in their order and none twice.
FilesInOrder == \A f \in DOMAIN out.files : Increasing(out.files[f])

\* The log as it is kept: all of the list, or all lines of the file at the path.
WholeLog == IF debug_log_size > 0
            THEN IF log_list = NULL THEN <<>> ELSE Contents(log_list)
            ELSE out.files[cat.file]

\* A pass that ends has read the log as it stands, each record once, from the
\* first to the last: no record was deleted under its cursor, no file was
\* replaced, and the cursor of the pass before did not stay behind.
PassIsSnapshot == [][cat.reading /\ ~cat'.reading => cat.got = WholeLog]_logVars

=============================================================================
