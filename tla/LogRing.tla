------------------------------ MODULE LogRing ------------------------------
(***************************************************************************)
(* The logger of os_logging.c: a ring of the latest lines, replayed by     *)
(* dmesg, and an optional log file.                                        *)
(*                                                                         *)
(* A line is its number: lines are numbered in the order in which they are *)
(* accepted.  os_log_write_v is one action, it holds the lock throughout.  *)
(* os_log_dump holds the lock too, but sends its lines one by one to a     *)
(* socket that may block, so it is split; a writer that waits more than    *)
(* 50 ms for the lock gives up, and its line is not accepted.              *)
(*                                                                         *)
(* stdio is external: a line given to fputs is buffered, and handed to the *)
(* flash file system when the buffer is flushed; a restart loses what is   *)
(* buffered.  A full file system refuses what it is handed.  The results   *)
(* of fputs, fflush and fclose are never looked at, so a refused line and  *)
(* a stored one make no difference to the logger and none here.  Left out: *)
(* tags, time stamps, texts, the UART, and os_log_puts, which writes raw   *)
(* text to the file without the lock.  One dump at a time is modelled.     *)
(***************************************************************************)
EXTENDS Integers, Sequences

CONSTANTS
    RingSize,   \* OS_LOG_RING_SIZE
    CountMod,   \* 2^32: head and count are uint32_t
    MaxLines    \* bound: number of accepted lines

ASSUME LogAssumption ==
    /\ RingSize \in Nat \ {0}
    /\ CountMod \in Nat /\ CountMod > RingSize /\ CountMod % RingSize = 0
    /\ MaxLines \in Nat

Levels == 0 .. 3    \* OS_LOG_DEBUG .. OS_LOG_ERROR, the levels of lines
NONE == 4           \* OS_LOG_NONE, a threshold that lets nothing through
INFO == 1
WARN == 2
ERROR == 3

Lines == 1 .. MaxLines

VARIABLES
    initialised, ring, head, count, level, fileOutput,      \* s_log
    logfile,    \* is s_log.logfile open
    dump,       \* the call of os_log_dump in progress, and whether it holds the lock
    buffered,   \* stdio: lines given to fputs and not yet written
    handed,     \* lines written to the flash file system, which stored or refused them
    accepted,   \* history: number of accepted lines, in all boots
    booted,     \* history: the value of accepted at the last restart
    asked,      \* history: the last os_log_set_file_output that succeeded in this
                \* boot turned the file on, and no os_log_deinit followed it
    promised,   \* history: lines accepted in this boot while asked was set
    due         \* history: lines promised before or with an ERROR

vars == <<initialised, ring, head, count, level, fileOutput, logfile, dump,
          buffered, handed, accepted, booted, asked, promised, due>>
file == <<buffered, handed>>
history == <<accepted, booted, asked, promised, due>>

Dump == [on : BOOLEAN, held : BOOLEAN, start : 0 .. CountMod - 1, lines : 0 .. RingSize,
         out : Seq(0 .. MaxLines)]

NoDump == [on |-> FALSE, held |-> FALSE, start |-> 0, lines |-> 0, out |-> <<>>]

TypeOK ==
    /\ initialised \in BOOLEAN
    /\ ring \in [0 .. RingSize - 1 -> 0 .. MaxLines]
    /\ head \in 0 .. CountMod - 1
    /\ count \in 0 .. CountMod - 1
    /\ level \in Levels \cup {NONE}
    /\ fileOutput \in BOOLEAN
    /\ logfile \in BOOLEAN
    /\ dump \in Dump
    /\ buffered \in SUBSET Lines
    /\ handed \in SUBSET Lines
    /\ accepted \in 0 .. MaxLines
    /\ booted \in 0 .. MaxLines
    /\ asked \in BOOLEAN
    /\ promised \in SUBSET Lines
    /\ due \in SUBSET Lines

Init ==
    /\ initialised = FALSE
    /\ ring = [k \in 0 .. RingSize - 1 |-> 0]
    /\ head = 0
    /\ count = 0
    /\ level = 0
    /\ fileOutput = FALSE
    /\ logfile = FALSE
    /\ dump = NoDump
    /\ buffered = {}
    /\ handed = {}
    /\ accepted = 0
    /\ booted = 0
    /\ asked = FALSE
    /\ promised = {}
    /\ due = {}

-----------------------------------------------------------------------------
\* fflush and fclose: the buffer is written.
Flushed(lines) == handed' = handed \cup lines /\ buffered' = {}

\* Mutant: the file is flushed only above ERROR.
WriteToSinks_NoFlush(l) ==
    IF ~(fileOutput /\ logfile) THEN UNCHANGED file
    ELSE buffered' = buffered \cup {accepted + 1} /\ UNCHANGED handed

\* write_to_sinks: the file, flushed by an ERROR line.
WriteToSinks(l) ==
    IF ~(fileOutput /\ logfile) THEN UNCHANGED file
    ELSE LET all == buffered \cup {accepted + 1} IN
         IF l >= ERROR THEN Flushed(all)
                       ELSE buffered' = all /\ UNCHANGED handed

\* os_log_write_v, once the logger is initialised and the lock is free.
WriteV(l) ==
    IF l < level
    THEN UNCHANGED <<ring, head, count, file, accepted, promised, due>>
    ELSE /\ accepted < MaxLines
         /\ ring' = [ring EXCEPT ![head % RingSize] = accepted + 1]
         /\ head' = (head + 1) % CountMod
         /\ count' = (count + 1) % CountMod
         /\ accepted' = accepted + 1
         /\ WriteToSinks(l)
         /\ promised' = IF asked THEN promised \cup {accepted + 1} ELSE promised
         /\ due' = IF asked /\ l >= ERROR THEN due \cup promised' ELSE due

\* Mutant: nobody waits for a dump.
LockFree_NoWait == initialised

\* s_log.lock can be taken.
LockFree == initialised /\ ~dump.held

\* os_log_write, called by any task.
Write(l) ==
    /\ LockFree
    /\ l >= level
    /\ WriteV(l)
    /\ UNCHANGED <<initialised, level, fileOutput, logfile, dump, booted, asked>>

\* os_log_init; it logs a line itself.
LogInit ==
    /\ ~initialised
    /\ initialised' = TRUE
    /\ WriteV(INFO)
    /\ UNCHANGED <<level, fileOutput, logfile, dump, booted, asked>>

\* os_log_deinit closes the file, which flushes it; file_output is not reset.  It takes
\* no lock: it deletes the one a dump may hold, and that dump goes on without it.
LogDeinit ==
    /\ initialised
    /\ initialised' = FALSE
    /\ IF logfile THEN Flushed(buffered) ELSE UNCHANGED file
    /\ logfile' = FALSE
    /\ dump' = [dump EXCEPT !.held = FALSE]
    /\ asked' = FALSE
    /\ UNCHANGED <<ring, head, count, level, fileOutput, accepted, booted, promised, due>>

\* os_log_set_level, without the lock.
SetLevel(l) ==
    /\ level' = l
    /\ UNCHANGED <<initialised, ring, head, count, fileOutput, logfile, dump, file, history>>

\* os_log_set_file_output, when fopen succeeds or is not needed.
SetFileOutput(enable) ==
    /\ LockFree
    /\ logfile' = enable
    /\ fileOutput' = enable
    /\ IF logfile /\ ~enable THEN Flushed(buffered) ELSE UNCHANGED file
    /\ asked' = enable
    /\ UNCHANGED <<initialised, ring, head, count, level, dump, accepted, booted, promised, due>>

\* os_log_set_file_output, when fopen fails: a warning is logged.
SetFileOutputFails ==
    /\ LockFree
    /\ ~logfile
    /\ WriteV(WARN)
    /\ UNCHANGED <<initialised, level, fileOutput, logfile, dump, booted, asked>>

\* os_log_flush, or stdio on its own when its buffer is full.
Flush ==
    /\ logfile
    /\ Flushed(buffered)
    /\ UNCHANGED <<initialised, ring, head, count, level, fileOutput, logfile, dump, history>>

-----------------------------------------------------------------------------
\* The number of entries in the ring and the index of the oldest one, as
\* os_log_dump and os_log_get_recent compute them.
Total == IF count < RingSize THEN count ELSE RingSize

\* Mutant: the ring is always read from index 0.
Start_AlwaysZero == 0

Start == IF count > RingSize THEN head ELSE 0

\* os_log_get_recent(buf, n)
GetRecent(n) ==
    [i \in 1 .. (IF n < Total THEN n ELSE Total) |-> ring[(Start + i - 1) % RingSize]]

\* os_log_dump(fd, n), up to the loop; 0 asks for everything.
DumpBegins(n) ==
    /\ LockFree /\ ~dump.on
    /\ dump' = [on |-> TRUE, held |-> TRUE, start |-> Start, out |-> <<>>,
                lines |-> IF n = 0 \/ n > Total THEN Total ELSE n]
    /\ UNCHANGED <<initialised, ring, head, count, level, fileOutput, logfile, file, history>>

\* One round of the loop.
DumpSends ==
    /\ dump.on /\ Len(dump.out) < dump.lines
    /\ dump' = [dump EXCEPT !.out =
                  Append(@, ring[(dump.start + Len(dump.out)) % RingSize])]
    /\ UNCHANGED <<initialised, ring, head, count, level, fileOutput, logfile, file, history>>

\* The lock is given back.
DumpEnds ==
    /\ dump.on /\ Len(dump.out) = dump.lines
    /\ dump' = NoDump
    /\ UNCHANGED <<initialised, ring, head, count, level, fileOutput, logfile, file, history>>

\* esp_restart, a panic or a watchdog reset: RAM is lost, the flash is kept.
Restart ==
    /\ initialised
    /\ initialised' = FALSE
    /\ ring' = [k \in 0 .. RingSize - 1 |-> 0]
    /\ head' = 0
    /\ count' = 0
    /\ level' = 0
    /\ fileOutput' = FALSE
    /\ logfile' = FALSE
    /\ dump' = NoDump
    /\ buffered' = {}
    /\ booted' = accepted
    /\ asked' = FALSE
    /\ promised' = {}
    /\ UNCHANGED <<handed, accepted, due>>

\* The shell commands
CmdDmesg    == \E n \in 0 .. RingSize + 1 : DumpBegins(n)
CmdLoglevel == \E l \in Levels \cup {NONE} : SetLevel(l)
CmdLogfile  == SetFileOutputFails \/ \E enable \in BOOLEAN : SetFileOutput(enable)

Next ==
    \/ LogInit \/ LogDeinit
    \/ \E l \in Levels : Write(l)
    \/ CmdDmesg \/ CmdLoglevel \/ CmdLogfile
    \/ Flush
    \/ DumpSends \/ DumpEnds
    \/ Restart

Spec == Init /\ [][Next]_vars
-----------------------------------------------------------------------------
(* Properties *)

\* Lines accepted since the last restart.
Since == accepted - booted

\* The lines s is a run of: consecutive lines of this boot.
Consecutive(s) ==
    /\ \A i \in 1 .. Len(s) : s[i] \in booted + 1 .. accepted
    /\ \A i \in 1 .. Len(s) - 1 : s[i + 1] = s[i] + 1

\* What a dump has sent at any moment is a run of consecutive lines of this boot:
\* no line is missing, repeated or out of order, before and after the ring and
\* the 32-bit counters wrap, and however long the sends block; unless os_log_deinit
\* deletes the lock the dump holds.
DumpConsecutive == TypeOK /\ (dump.held => Consecutive(dump.out))

\* Until the 32-bit counters wrap, os_log_get_recent with a large enough buffer
\* returns all the lines the ring can hold, up to the latest one.
RecentIsComplete ==
    Since < CountMod =>
        LET s == GetRecent(RingSize) IN
        /\ Consecutive(s)
        /\ Len(s) = IF Since < RingSize THEN Since ELSE RingSize
        /\ s # <<>> => s[Len(s)] = accepted

\* Once os_log_set_file_output has turned the file on, an ERROR line and every line
\* accepted before it have been handed to the flash file system when os_log_write
\* returns, and no restart, switch or failed switch of the file before or after takes
\* them back; unless os_log_deinit came between.  That the file system stores them is
\* not claimed: if it is full they are lost, and nobody is told.
ErrorsReachFile == due \subseteq handed

=============================================================================
